------------------------- MODULE OutputCodecProofs -------------------------
(***************************************************************************)
(* The encodings read back what they wrote, for every width of a byte,     *)
(* every limit on a token value and whatever peers send: one output or     *)
(* element first, then a list of them, then the store.                     *)
(***************************************************************************)
EXTENDS OutputCodec, SequenceTheorems, TLAPS

DigitRound(v, d, c) == v * Base + d
WriteRound(w, e, c) == w \o e
ReadRound(got, i, kind) == ReadElement(kind, got)
AddRound(L, added, c) == AddUtxo(L, added)
NoValue(x) == 0

DigitLoop == INSTANCE FoldTheorems WITH Op <- DigitRound, Value <- NoValue
WriteLoop == INSTANCE FoldTheorems WITH Op <- WriteRound, Value <- NoValue
ReadLoop == INSTANCE FoldTheorems WITH Op <- ReadRound, Value <- NoValue
AddLoop == INSTANCE FoldTheorems WITH Op <- AddRound, Value <- NoValue

-----------------------------------------------------------------------------
(* What is written and read.                                               *)

Byte == 0 .. Base - 1

Streams == Seq(Nat)

TokenValues == BoundedSeq(Byte, MaxTokenValueDataSize)

\* The outputs that can come from the bytes of a peer.
Outputs ==
  {o \in [AssetID : Nat, Value : Nat, OutputLock : Nat, ProgramHash : Nat] :
     o.AssetID # ElaAssetId => \E b \in TokenValues : SetBytes(b) = o.Value}

\* The elements that can be read back.
Elements ==
  {u \in [TxID : Nat, Index : Nat, AssetID : Nat, Value : Streams] :
     Len(u.Value) <= MaxTokenValueDataSize}

Good(val, rest) == [ok |-> TRUE, val |-> val, rest |-> rest]

-----------------------------------------------------------------------------
(* Loops.                                                                  *)

\* The loops are the instances of FoldTheorems above.
LEMMA LoopsAreFolds ==
  ASSUME NEW b, NEW L, NEW kind
  PROVE  /\ SetBytes(b) = DigitLoop!Fold(0, b, 0)
         /\ WriteList(b) = WriteLoop!Fold(<<Len(b)>>, b, 0)
         /\ ReadList(kind, b) =
              ReadLoop!Fold([ok |-> ReadField(b).ok, val |-> << >>, rest |-> ReadField(b).rest],
                            [i \in 1 .. ReadField(b).val |-> i], kind)
         /\ FoldLeft(LAMBDA w, x : AddUtxo(w, x), L, b) = AddLoop!Fold(L, b, 0)
  <1>1. SetBytes(b) = DigitLoop!Fold(0, b, 0)
    BY DEF SetBytes, DigitLoop!Fold, DigitRound, FoldLeft, MapThenFoldSet,
           Max, DigitLoop!FoldLeft, DigitLoop!MapThenFoldSet, DigitLoop!Max
  <1>2. WriteList(b) = WriteLoop!Fold(<<Len(b)>>, b, 0)
    BY DEF WriteList, WriteLoop!Fold, WriteRound, FoldLeft, MapThenFoldSet,
           Max, WriteLoop!FoldLeft, WriteLoop!MapThenFoldSet, WriteLoop!Max
  <1>3. ReadList(kind, b) =
          ReadLoop!Fold([ok |-> ReadField(b).ok, val |-> << >>, rest |-> ReadField(b).rest],
                        [i \in 1 .. ReadField(b).val |-> i], kind)
    BY DEF ReadList, ReadLoop!Fold, ReadRound, FoldLeft, MapThenFoldSet,
           Max, ReadLoop!FoldLeft, ReadLoop!MapThenFoldSet, ReadLoop!Max
  <1>4. FoldLeft(LAMBDA w, x : AddUtxo(w, x), L, b) = AddLoop!Fold(L, b, 0)
    BY DEF AddLoop!Fold, AddRound, FoldLeft, MapThenFoldSet,
           Max, AddLoop!FoldLeft, AddLoop!MapThenFoldSet, AddLoop!Max
  <1> QED
    BY <1>1, <1>2, <1>3, <1>4

-----------------------------------------------------------------------------
(* Fields.                                                                 *)

\* What a field holds is followed by what was written after it.
LEMMA FieldReadsBack ==
  ASSUME NEW x \in Nat, NEW s \in Streams
  PROVE  /\ <<x>> \o s \in Streams
         /\ ReadField(<<x>> \o s) = Good(x, s)
  <1> DEFINE w == <<x>> \o s
  <1>1. <<x>> \in Seq(Nat) /\ s \in Seq(Nat)
    BY DEF Streams
  <1>2. w \in Seq(Nat) /\ Len(w) = 1 + Len(s) /\ w[1] = x
    BY <1>1, ConcatProperties
  <1>3. w # << >> /\ Head(w) = x
    BY <1>1, <1>2
  <1>4. Tail(w) = s
    BY <1>1
  <1> HIDE DEF w
  <1> QED
    BY <1>2, <1>3, <1>4 DEF ReadField, Good, Streams, w

\* Token values are sequences of natural numbers, no longer than allowed.
LEMMA TokenValueType ==
  ASSUME NEW b
  PROVE  b \in TokenValues <=> b \in Seq(Byte) /\ Len(b) <= MaxTokenValueDataSize
  <1>1. TokenValues = UNION {[1 .. m -> Byte] : m \in 0 .. MaxTokenValueDataSize}
    BY DEF TokenValues, BoundedSeq, SeqOf
  <1>2. ASSUME b \in TokenValues
        PROVE  b \in Seq(Byte) /\ Len(b) <= MaxTokenValueDataSize
    <2>1. PICK m \in 0 .. MaxTokenValueDataSize : b \in [1 .. m -> Byte]
      BY <1>1, <1>2
    <2>2. m \in Nat /\ m <= MaxTokenValueDataSize
      BY SizeAssumption
    <2> QED
      BY <2>1, <2>2
  <1>3. ASSUME b \in Seq(Byte), Len(b) <= MaxTokenValueDataSize
        PROVE  b \in TokenValues
    <2>1. Len(b) \in 0 .. MaxTokenValueDataSize /\ b \in [1 .. Len(b) -> Byte]
      BY <1>3, SizeAssumption
    <2> QED
      BY <1>1, <2>1
  <1> QED
    BY <1>2, <1>3

\* The number that bytes stand for is a natural one.
LEMMA SetBytesType ==
  ASSUME NEW b \in Streams
  PROVE  SetBytes(b) \in Nat
  <1> DEFINE G == Nat \X Nat
             zero == 0
  <1>1. \A v \in Nat, d \in Nat : DigitRound(v, d, 0) \in Nat
    BY BaseAssumption DEF DigitRound
  <1>2. DigitLoop!Passes(Nat, Nat, b, 0, G)
    <2>1. \A i \in 1 .. Len(b) : i \in Nat /\ b[i] \in Nat
      BY DEF Streams
    <2> QED
      BY <1>1, <2>1 DEF DigitLoop!Passes, DigitLoop!Loops, Streams
  <1>3. zero \in Nat /\ <<0, zero>> \in G
    OBVIOUS
  <1> HIDE DEF G, zero
  <1>4. DigitLoop!Fold(zero, b, 0) \in Nat
    BY <1>2, <1>3, DigitLoop!FoldInvariant
  <1> QED
    BY <1>4, LoopsAreFolds DEF zero

\* The digits of a number that was read stand for it, and there are no more
\* of them than may be read.
LEMMA DigitsReadBack ==
  ASSUME NEW v, \E b \in TokenValues : SetBytes(b) = v
  PROVE  Digits(v) \in TokenValues /\ SetBytes(Digits(v)) = v
  <1> DEFINE Written == {b \in TokenValues : SetBytes(b) = v}
             Lengths == {Len(b) : b \in Written}
             Least(b) == \A c \in Written : Len(b) <= Len(c)
  <1>1. Lengths \in SUBSET Nat /\ Lengths # {}
    <2>1. \A b \in Written : Len(b) \in Nat
      BY TokenValueType
    <2> QED
      BY <2>1
  <1>2. PICK n \in Lengths : \A m \in Lengths : n <= m
    <2> HIDE DEF Lengths
    <2> QED
      BY <1>1, DigitLoop!LeastNatural
  <1>3. PICK b \in Written : Len(b) = n
    OBVIOUS
  <1>4. Least(b)
    BY <1>2, <1>3
  <1>5. Digits(v) = CHOOSE d \in Written : Least(d)
    BY DEF Digits, TokenValues, Byte
  <1>6. Digits(v) \in Written
    <2> HIDE DEF Least, Written
    <2> QED
      BY <1>3, <1>4, <1>5
  <1> QED
    BY <1>6
\* A part of a stream, told by its elements.
LEMMA PartOfStream ==
  ASSUME NEW w \in Streams, NEW p \in Streams, NEW m \in Nat \ {0},
         m - 1 + Len(p) <= Len(w),
         \A i \in 1 .. Len(p) : w[m + i - 1] = p[i]
  PROVE  SubSeq(w, m, m - 1 + Len(p)) = p
  <1> DEFINE n == Len(p)
             q == SubSeq(w, m, m - 1 + n)
  <1>1. n \in Nat /\ p \in Seq(Nat) /\ m \in Int /\ m - 1 + n \in Int
    BY DEF Streams
  <1>2. \A i \in m .. m - 1 + n : w[i] \in Nat
    <2> TAKE i \in m .. m - 1 + n
    <2>1. i \in 1 .. Len(w)
      BY <1>1
    <2> QED
      BY <2>1 DEF Streams
  <1>3. /\ q \in Seq(Nat)
        /\ Len(q) = IF m <= m - 1 + n THEN (m - 1 + n) - m + 1 ELSE 0
        /\ \A i \in 1 .. (m - 1 + n) - m + 1 : q[i] = w[m + i - 1]
    <2> HIDE DEF n
    <2> QED
      BY <1>1, <1>2, SubSeqProperties
  <1>4. Len(q) = n /\ \A i \in 1 .. n : q[i] = p[i]
    BY <1>1, <1>3
  <1> HIDE DEF q, n
  <1>5. q = p
    <2>1. Len(q) = Len(p) /\ \A i \in 1 .. Len(q) : q[i] = p[i]
      BY <1>4 DEF n
    <2> QED
      BY <1>1, <1>3, <2>1, SeqEqual
  <1> QED
    BY <1>5 DEF q, n

\* Streams are concatenated to streams, in any order of the steps.
LEMMA StreamConcat ==
  ASSUME NEW a \in Streams, NEW b \in Streams
  PROVE  a \o b \in Streams
  BY ConcatProperties DEF Streams

LEMMA StreamsAssociate ==
  ASSUME NEW a \in Streams, NEW b \in Streams, NEW c \in Streams
  PROVE  (a \o b) \o c = a \o (b \o c)
  BY SMTT(30), ConcatAssociative DEF Streams

\* Bytes that are written with their count are read back, if there are no
\* more than the reader allows.
LEMMA VarBytesReadBack ==
  ASSUME NEW b \in Streams, NEW s \in Streams, NEW max \in Nat, Len(b) <= max
  PROVE  /\ WriteVarBytes(b) \in Streams
         /\ WriteVarBytes(b) \o s \in Streams
         /\ ReadVarBytes(WriteVarBytes(b) \o s, max) = Good(b, s)
  <1> DEFINE n == Len(b)
             r == b \o s
             w == WriteVarBytes(b) \o s
  <1>1. n \in Nat /\ Len(s) \in Nat /\ <<n>> \in Streams
    BY DEF Streams
  <1>2. WriteVarBytes(b) \in Streams /\ w = <<n>> \o r /\ r \in Streams
    <2>1. WriteVarBytes(b) = <<n>> \o b
      BY DEF WriteVarBytes
    <2> DEFINE f == <<n>>
    <2>2. f \in Streams
      BY <1>1
    <2> HIDE DEF f
    <2>3. f \o b \in Streams
      BY <2>2, StreamConcat
    <2>4. b \o s \in Streams
      BY StreamConcat
    <2>5. (f \o b) \o s = f \o (b \o s)
      BY <2>2, StreamsAssociate
    <2> QED
      BY <2>1, <2>3, <2>4, <2>5 DEF f
  <1>3. w \in Streams /\ ReadField(w) = Good(n, r)
    BY <1>1, <1>2, FieldReadsBack
  <1>4. /\ Len(r) = n + Len(s)
        /\ \A i \in 1 .. n + Len(s) : r[i] = IF i <= n THEN b[i] ELSE s[i - n]
    BY ConcatProperties DEF Streams
  <1>5. /\ Len(w) = 1 + Len(r)
        /\ \A i \in 1 .. 1 + Len(r) : w[i] = IF i <= 1 THEN <<n>>[i] ELSE r[i - 1]
    <2>1. Len(<<n>>) = 1 /\ <<n>> \in Seq(Nat) /\ r \in Seq(Nat)
      BY <1>1, <1>2 DEF Streams
    <2> HIDE DEF r, n, w
    <2> QED
      BY <1>2, <2>1, ConcatProperties
  <1> HIDE DEF r, w
  <1>6. SubSeq(w, 2, 2 - 1 + Len(b)) = b
    <2>1. \A i \in 1 .. n : w[2 + i - 1] = b[i]
      BY <1>1, <1>4, <1>5
    <2>2. 2 - 1 + n <= Len(w) /\ 2 \in Nat \ {0}
      BY <1>1, <1>4, <1>5
    <2> QED
      BY <1>3, <2>1, <2>2, PartOfStream
  <1>7. SubSeq(w, n + 2, (n + 2) - 1 + Len(s)) = s
    <2>1. \A i \in 1 .. Len(s) : w[(n + 2) + i - 1] = s[i]
      <3> TAKE i \in 1 .. Len(s)
      <3>1. /\ (n + 2) + i - 1 \in 1 .. 1 + Len(r) /\ ~((n + 2) + i - 1 <= 1)
            /\ (n + 2) + i - 1 - 1 = n + i
            /\ n + i \in 1 .. n + Len(s) /\ ~(n + i <= n) /\ n + i - n = i
        BY <1>1, <1>4
      <3> DEFINE j == (n + 2) + i - 1
                 k == n + i
      <3>2. j \in 1 .. 1 + Len(r) /\ ~(j <= 1) /\ j - 1 = k
        BY <3>1
      <3>3. k \in 1 .. n + Len(s) /\ ~(k <= n) /\ k - n = i
        BY <3>1
      <3> HIDE DEF j, k, n
      <3>4. w[j] = r[k] /\ r[k] = s[i]
        BY <1>4, <1>5, <3>2, <3>3
      <3> QED
        BY <3>4 DEF j
    <2>2. (n + 2) - 1 + Len(s) <= Len(w) /\ n + 2 \in Nat \ {0}
      BY <1>1, <1>4, <1>5
    <2> HIDE DEF n
    <2> QED
      BY <1>3, <2>1, <2>2, PartOfStream
  <1>8. 2 - 1 + n = n + 1 /\ (n + 2) - 1 + Len(s) = Len(w) /\ ~(Len(r) < n) /\ ~(n > max)
    BY <1>1, <1>4, <1>5
  <1>9. SubSeq(w, 2, n + 1) = b /\ SubSeq(w, n + 2, Len(w)) = s
    BY <1>6, <1>7, <1>8
  <1>10. ReadVarBytes(w, max) = Good(b, s)
    <2> DEFINE count == ReadField(w)
    <2>1. count.ok = TRUE /\ count.val = n /\ count.rest = r
      BY <1>3 DEF Good
    <2> HIDE DEF n, count
    <2>2. ~(~count.ok \/ count.val > max) /\ ~(Len(count.rest) < count.val)
      BY <1>8, <2>1
    <2> QED
      BY <1>9, <2>1, <2>2 DEF ReadVarBytes, Good, count
  <1> QED
    BY <1>2, <1>3, <1>10 DEF w
-----------------------------------------------------------------------------
(* Outputs and elements.                                                   *)

\* The parts of what was read.
LEMMA GoodParts ==
  ASSUME NEW val, NEW rest
  PROVE  Good(val, rest).ok /\ Good(val, rest).val = val /\ Good(val, rest).rest = rest
  BY DEF Good

\* Token values are streams, and what stands for a number is one.
LEMMA TokenValuesAreStreams == TokenValues \subseteq Streams
  <1>1. Byte \subseteq Nat
    BY BaseAssumption DEF Byte
  <1> SUFFICES ASSUME NEW b \in TokenValues PROVE b \in Streams
    OBVIOUS
  <1>2. b \in Seq(Byte)
    BY TokenValueType
  <1> QED
    BY <1>1, <1>2, SeqMonotonic DEF Streams

\* What is written of an output is read back, whatever follows it.
LEMMA OutputReadsBack ==
  ASSUME NEW o \in Outputs, NEW s \in Streams
  PROVE  /\ SerializeOutput(o) \in Streams
         /\ DeserializeOutput(SerializeOutput(o) \o s) = Good(o, s)
  <1> DEFINE A == o.AssetID
             V == IF A = ElaAssetId THEN <<o.Value>> ELSE WriteVarBytes(Digits(o.Value))
             fa == <<A>>
             fl == <<o.OutputLock>>
             fh == <<o.ProgramHash>>
             rh == fh \o s
             rl == fl \o rh
             rv == V \o rl
             w == SerializeOutput(o) \o s
             value == IF A = ElaAssetId THEN ReadField(rv)
                      ELSE ReadVarBytes(rv, MaxTokenValueDataSize)
  <1>1. /\ A \in Nat /\ o.Value \in Nat /\ o.OutputLock \in Nat /\ o.ProgramHash \in Nat
        /\ o = [AssetID |-> A, Value |-> o.Value, OutputLock |-> o.OutputLock,
                ProgramHash |-> o.ProgramHash]
        /\ A # ElaAssetId => \E b \in TokenValues : SetBytes(b) = o.Value
    BY DEF Outputs
  <1>2. fa \in Streams /\ fl \in Streams /\ fh \in Streams
    BY <1>1 DEF Streams
  <1>3. rh \in Streams /\ ReadField(rh) = Good(o.ProgramHash, s)
    BY <1>1, FieldReadsBack
  <1>4. rl \in Streams /\ ReadField(rl) = Good(o.OutputLock, rh)
    <2> HIDE DEF rh
    <2> QED
      BY <1>1, <1>3, FieldReadsBack
  <1>5. ASSUME A = ElaAssetId
        PROVE  V \in Streams /\ rv \in Streams /\ value = Good(o.Value, rl)
    <2>1. V = <<o.Value>> /\ V \in Streams
      BY <1>1, <1>5 DEF Streams
    <2>2. rv \in Streams /\ ReadField(rv) = Good(o.Value, rl)
      <3> HIDE DEF rl
      <3> QED
        BY <1>1, <1>4, <2>1, FieldReadsBack
    <2> QED
      BY <1>5, <2>1, <2>2
  <1>6. ASSUME A # ElaAssetId
        PROVE  /\ V \in Streams /\ rv \in Streams
               /\ value = Good(Digits(o.Value), rl) /\ SetBytes(Digits(o.Value)) = o.Value
    <2> DEFINE d == Digits(o.Value)
    <2>1. d \in Streams /\ Len(d) <= MaxTokenValueDataSize /\ SetBytes(d) = o.Value
      <3>1. d \in TokenValues /\ SetBytes(d) = o.Value
        BY <1>1, <1>6, DigitsReadBack
      <3> HIDE DEF d
      <3> QED
        BY <3>1, TokenValueType, TokenValuesAreStreams
    <2> HIDE DEF d, rl
    <2>2. V = WriteVarBytes(d)
      BY <1>6 DEF d
    <2>3. V \in Streams /\ rv \in Streams /\ ReadVarBytes(rv, MaxTokenValueDataSize) = Good(d, rl)
      <3> HIDE DEF V
      <3> QED
        BY <1>4, <2>1, <2>2, VarBytesReadBack, SizeAssumption
    <2> QED
      BY <1>6, <2>1, <2>3 DEF d
  <1> HIDE DEF V
  <1>7. V \in Streams /\ rv \in Streams
    BY <1>5, <1>6
  <1>8. SerializeOutput(o) \in Streams /\ w = fa \o rv
    <2> DEFINE z == fl \o fh
    <2>1. SerializeOutput(o) = (fa \o V) \o z
      <3>1. <<o.OutputLock, o.ProgramHash>> = fl \o fh
        OBVIOUS
      <3> QED
        BY <3>1 DEF SerializeOutput, V
    <2> HIDE DEF fa, fl, fh
    <2>2. z \in Streams /\ fa \o V \in Streams
      BY <1>2, <1>7, StreamConcat
    <2>3. z \o s = rl
      BY SMTT(30), <1>2, StreamsAssociate
    <2> HIDE DEF z, rl
    <2>4. (fa \o V) \o z \in Streams
      BY <2>2, StreamConcat
    <2>5. ((fa \o V) \o z) \o s = (fa \o V) \o (z \o s)
      BY <2>2, StreamsAssociate
    <2>6. rl \in Streams
      BY <1>4
    <2>7. (fa \o V) \o rl = fa \o (V \o rl)
      BY SMTT(30), <1>2, <1>7, <2>6, StreamsAssociate
    <2> QED
      BY <2>1, <2>3, <2>4, <2>5, <2>7 DEF w, rv
  <1>9. ReadField(w) = Good(A, rv)
    <2> HIDE DEF rv, w
    <2> QED
      BY <1>1, <1>7, <1>8, FieldReadsBack
  <1>10. /\ value.ok /\ value.rest = rl
         /\ o.Value = IF A = ElaAssetId THEN value.val ELSE SetBytes(value.val)
    <2> HIDE DEF value, rl
    <2> QED
      BY <1>5, <1>6, GoodParts
  <1> HIDE DEF rv, rl, rh, w, value
  <1>11. DeserializeOutput(w) = Good(o, s)
    <2> DEFINE asset == ReadField(w)
               lock == ReadField(value.rest)
               hash == ReadField(lock.rest)
    <2>1. asset.ok /\ asset.val = A /\ asset.rest = rv
      BY <1>9, GoodParts
    <2>2. lock.ok /\ lock.val = o.OutputLock /\ lock.rest = rh
      BY <1>4, <1>10, GoodParts
    <2>3. hash.ok /\ hash.val = o.ProgramHash /\ hash.rest = s
      BY <1>3, <2>2, GoodParts
    <2>4. value = IF asset.val = ElaAssetId THEN ReadField(asset.rest)
                  ELSE ReadVarBytes(asset.rest, MaxTokenValueDataSize)
      BY <2>1 DEF value
    <2>5. DeserializeOutput(w) =
            IF ~(asset.ok /\ value.ok /\ lock.ok /\ hash.ok) THEN Fail(hash.rest)
            ELSE [ok |-> TRUE,
                  val |-> [AssetID |-> asset.val,
                           Value |-> IF asset.val = ElaAssetId THEN value.val
                                     ELSE SetBytes(value.val),
                           OutputLock |-> lock.val, ProgramHash |-> hash.val],
                  rest |-> hash.rest]
      BY <2>4 DEF DeserializeOutput
    <2> HIDE DEF asset, lock, hash
    <2> QED
      BY <1>1, <1>10, <2>1, <2>2, <2>3, <2>5 DEF Good
  <1> QED
    BY <1>8, <1>11 DEF w

\* What is written of an element is read back, whatever follows it.
LEMMA ElementReadsBack ==
  ASSUME NEW u \in Elements, NEW s \in Streams
  PROVE  /\ SerializeUtxo(u) \in Streams
         /\ DeserializeUtxo(SerializeUtxo(u) \o s) = Good(u, s)
  <1> DEFINE f == <<u.TxID, u.Index, u.AssetID>>
             v == WriteVarBytes(u.Value)
             r == v \o s
             w == SerializeUtxo(u) \o s
  <1>1. /\ u.TxID \in Nat /\ u.Index \in Nat /\ u.AssetID \in Nat /\ u.Value \in Streams
        /\ Len(u.Value) <= MaxTokenValueDataSize
        /\ u = [TxID |-> u.TxID, Index |-> u.Index, AssetID |-> u.AssetID, Value |-> u.Value]
    BY DEF Elements
  <1>2. f \in Streams /\ Len(f) = 3 /\ f[1] = u.TxID /\ f[2] = u.Index /\ f[3] = u.AssetID
    BY <1>1 DEF Streams
  <1>3. v \in Streams /\ r \in Streams /\ ReadVarBytes(r, MaxTokenValueDataSize) = Good(u.Value, s)
    BY <1>1, VarBytesReadBack, SizeAssumption
  <1>4. SerializeUtxo(u) = f \o v
    BY DEF SerializeUtxo
  <1> HIDE DEF f, v
  <1>5. SerializeUtxo(u) \in Streams /\ w = f \o r /\ w \in Streams
    <2>1. f \o v \in Streams /\ (f \o v) \o s \in Streams
      BY <1>2, <1>3, StreamConcat
    <2>2. (f \o v) \o s = f \o (v \o s)
      BY <1>2, <1>3, StreamsAssociate
    <2> QED
      BY <1>4, <2>1, <2>2
  <1> HIDE DEF r, w
  <1>6. /\ Len(w) = 3 + Len(r) /\ Len(r) \in Nat
        /\ \A i \in 1 .. 3 + Len(r) : w[i] = IF i <= 3 THEN f[i] ELSE r[i - 3]
    <2>1. f \in Seq(Nat) /\ r \in Seq(Nat)
      BY <1>2, <1>3 DEF Streams
    <2>2. /\ Len(f \o r) = Len(f) + Len(r)
          /\ \A i \in 1 .. Len(f) + Len(r) :
               (f \o r)[i] = IF i <= Len(f) THEN f[i] ELSE r[i - Len(f)]
      BY <2>1, ConcatProperties
    <2> QED
      BY <1>2, <1>5, <2>1, <2>2
  <1>7. w[1] = u.TxID /\ w[2] = u.Index /\ w[3] = u.AssetID /\ ~(Len(w) < 3)
    BY <1>2, <1>6
  <1>8. SubSeq(w, 4, Len(w)) = r
    <2>1. \A i \in 1 .. Len(r) : w[4 + i - 1] = r[i]
      <3> TAKE i \in 1 .. Len(r)
      <3> DEFINE j == 4 + i - 1
      <3>1. j \in 1 .. 3 + Len(r) /\ ~(j <= 3) /\ j - 3 = i
        BY <1>6
      <3> HIDE DEF j
      <3>2. w[j] = r[i]
        BY <1>6, <3>1
      <3> QED
        BY <3>2 DEF j
    <2>2. 4 - 1 + Len(r) <= Len(w) /\ 4 \in Nat \ {0} /\ 4 - 1 + Len(r) = Len(w)
      BY <1>6
    <2>3. SubSeq(w, 4, 4 - 1 + Len(r)) = r
      BY <1>3, <1>5, <2>1, <2>2, PartOfStream
    <2> QED
      BY <2>2, <2>3
  <1>9. DeserializeUtxo(w) = Good(u, s)
    <2> DEFINE value == ReadVarBytes(SubSeq(w, 4, Len(w)), MaxTokenValueDataSize)
    <2>1. value.ok /\ value.val = u.Value /\ value.rest = s
      <3>1. value = Good(u.Value, s)
        BY <1>3, <1>8
      <3> HIDE DEF value
      <3> QED
        BY <3>1, GoodParts
    <2>2. DeserializeUtxo(w) =
            IF Len(w) < 3 THEN Fail(<< >>)
            ELSE [ok |-> TRUE,
                  val |-> [TxID |-> w[1], Index |-> w[2], AssetID |-> w[3],
                           Value |-> IF value.ok THEN value.val ELSE << >>],
                  rest |-> value.rest]
      BY DEF DeserializeUtxo
    <2> HIDE DEF value
    <2> QED
      BY <1>1, <1>7, <2>1, <2>2 DEF Good
  <1> QED
    BY <1>5, <1>9 DEF w
-----------------------------------------------------------------------------
(* Lists.                                                                  *)

\* What is kept in lists of a kind, and how it is written.
Kept(kind) == IF kind = "output" THEN Outputs ELSE Elements

Serialize(kind, x) == IF kind = "output" THEN SerializeOutput(x) ELSE SerializeUtxo(x)

Written(kind, e) == WriteList([i \in 1 .. Len(e) |-> Serialize(kind, e[i])])

\* One more element is read from a stream that begins with it.
LEMMA RoundReadsBack ==
  ASSUME NEW kind, NEW x \in Kept(kind), NEW s \in Streams, NEW val, NEW i
  PROVE  /\ Serialize(kind, x) \in Streams
         /\ ReadRound(Good(val, Serialize(kind, x) \o s), i, kind) = Good(Append(val, x), s)
  <1> DEFINE w == Serialize(kind, x) \o s
             got == Good(val, w)
             read == IF kind = "output" THEN DeserializeOutput(got.rest)
                                        ELSE DeserializeUtxo(got.rest)
  <1>1. got.ok /\ got.val = val /\ got.rest = w
    <2> HIDE DEF w
    <2> QED
      BY GoodParts
  <1>2. Serialize(kind, x) \in Streams /\ read = Good(x, s)
    <2> HIDE DEF got
    <2>1. CASE kind = "output"
      <3>1. x \in Outputs /\ Serialize(kind, x) = SerializeOutput(x)
        BY <2>1 DEF Kept, Serialize
      <3>2. SerializeOutput(x) \in Streams /\ DeserializeOutput(SerializeOutput(x) \o s) = Good(x, s)
        BY <3>1, OutputReadsBack
      <3> QED
        BY <1>1, <2>1, <3>1, <3>2
    <2>2. CASE kind # "output"
      <3>1. x \in Elements /\ Serialize(kind, x) = SerializeUtxo(x)
        BY <2>2 DEF Kept, Serialize
      <3>2. SerializeUtxo(x) \in Streams /\ DeserializeUtxo(SerializeUtxo(x) \o s) = Good(x, s)
        BY <3>1, ElementReadsBack
      <3> QED
        BY <1>1, <2>2, <3>1, <3>2
    <2> QED
      BY <2>1, <2>2
  <1>3. ReadRound(got, i, kind) =
          IF ~got.ok THEN got
          ELSE [ok |-> read.ok, val |-> Append(got.val, read.val), rest |-> read.rest]
    BY DEF ReadRound, ReadElement
  <1> HIDE DEF got, read
  <1>4. read.ok = TRUE /\ read.val = x /\ read.rest = s
    <2>1. Good(x, s).ok = TRUE
      BY DEF Good
    <2> QED
      BY <1>2, <2>1, GoodParts
  <1>5. ReadRound(got, i, kind) = Good(Append(val, x), s)
    BY <1>1, <1>3, <1>4 DEF Good
  <1> QED
    BY <1>2, <1>5 DEF got, w

\* A written list is a stream that begins with what was written before any
\* of its elements: its count, and the elements before that one.
LEMMA WrittenSteps ==
  ASSUME NEW p \in Seq(Streams)
  PROVE  \E g : /\ g[0] = <<Len(p)>>
                /\ \A i \in 1 .. Len(p) : g[i] = g[i - 1] \o p[i]
                /\ g[Len(p)] = WriteList(p)
                /\ \A i \in 0 .. Len(p) : g[i] \in Streams
                /\ \A i \in 0 .. Len(p) : \E x \in Streams : WriteList(p) = g[i] \o x
  <1> DEFINE n == Len(p)
             b == <<n>>
             zero == 0
  <1>1. n \in Nat /\ \A i \in 1 .. n : p[i] \in Streams
    OBVIOUS
  <1>2. b \in Streams
    BY <1>1 DEF Streams
  <1>3. WriteLoop!Loops(Streams, Streams, p, 0)
    BY StreamConcat DEF WriteLoop!Loops, WriteRound
  <1>4. PICK g \in [0 .. Len(p) -> Streams] :
          WriteLoop!Runs(g, b, p, 0) /\ WriteLoop!Fold(b, p, 0) = g[Len(p)]
    <2> HIDE DEF b, n
    <2>1. WriteLoop!RunsIn(Streams, b, p, 0)
      BY <1>2, <1>3, WriteLoop!FoldRun
    <2> QED
      BY <2>1 DEF WriteLoop!RunsIn
  <1>5. g[0] = b /\ \A i \in 1 .. n : g[i] = g[i - 1] \o p[i]
    BY <1>4 DEF WriteLoop!Runs, WriteRound
  <1>6. g[n] = WriteList(p)
    BY <1>4, LoopsAreFolds
  <1> DEFINE T == {j \in Nat : \E x \in Streams : g[n] = g[n - j] \o x}
  <1>7. 0 \in T
    <2>1. n - 0 = n /\ n \in 0 .. n
      BY <1>1
    <2>2. g[n] \in Streams /\ << >> \in Streams
      BY <1>4, <2>1 DEF Streams
    <2>3. g[n] \o << >> = g[n]
      BY <2>2, ConcatEmptySeq DEF Streams
    <2> QED
      BY <2>1, <2>2, <2>3
  <1>8. ASSUME NEW j \in 1 .. n, j - 1 \in T
        PROVE  j \in T
    <2> DEFINE i == n - (j - 1)
    <2>1. i \in 1 .. n /\ i - 1 = n - j /\ i - 1 \in 0 .. n /\ j \in Nat
      BY <1>1
    <2>2. PICK x \in Streams : g[n] = g[i] \o x
      BY <1>8
    <2> HIDE DEF i
    <2>3. g[i - 1] \in Streams /\ p[i] \in Streams
      BY <1>1, <1>4, <2>1
    <2>4. g[n] = (g[i - 1] \o p[i]) \o x
      BY <1>5, <2>1, <2>2
    <2>5. (g[i - 1] \o p[i]) \o x = g[i - 1] \o (p[i] \o x) /\ p[i] \o x \in Streams
      <3> DEFINE y == g[i - 1]
                 z == p[i]
      <3>1. y \in Streams /\ z \in Streams
        BY <2>3
      <3> HIDE DEF y, z
      <3>2. (y \o z) \o x = y \o (z \o x)
        BY <3>1, StreamsAssociate
      <3>3. z \o x \in Streams
        BY <3>1, StreamConcat
      <3> QED
        BY <3>2, <3>3 DEF y, z
    <2>6. g[n] = g[n - j] \o (p[i] \o x)
      BY <2>1, <2>4, <2>5
    <2> QED
      BY <2>1, <2>5, <2>6
  <1>9. ASSUME NEW i \in 0 .. n
        PROVE  \E x \in Streams : WriteList(p) = g[i] \o x
    <2> DEFINE k == n - i
    <2>1. k \in Nat /\ n - k = i /\ \A j \in 1 .. k : j \in 1 .. n
      BY <1>1
    <2>2. k \in T
      <3> HIDE DEF T, k, n
      <3> QED
        BY <1>7, <1>8, <2>1, WriteLoop!RoundInduction
    <2> HIDE DEF k
    <2> QED
      BY <1>6, <2>1, <2>2
  <1> QED
    BY <1>4, <1>5, <1>6, <1>9

\* A list is read back as it was written.
LEMMA ListReadsBack ==
  ASSUME NEW kind, NEW e \in Seq(Kept(kind))
  PROVE  /\ Written(kind, e) \in Streams
         /\ ReadList(kind, Written(kind, e)).ok
         /\ ReadList(kind, Written(kind, e)).val = e
  <1> DEFINE n == Len(e)
             p == [i \in 1 .. n |-> Serialize(kind, e[i])]
             w == Written(kind, e)
             First(i) == SubSeq(e, 1, i)
             States == [ok : BOOLEAN, val : Seq(Kept(kind)), rest : Streams]
             s == [i \in 1 .. n |-> i]
  <1>1. /\ n \in Nat /\ \A i \in 1 .. n : e[i] \in Kept(kind)
        /\ << >> \in Streams
    BY DEF Streams
  <1>2. p \in Seq(Streams) /\ Len(p) = n /\ \A i \in 1 .. n : p[i] = Serialize(kind, e[i])
    <2>1. \A i \in 1 .. n : Serialize(kind, e[i]) \in Streams
      BY <1>1, RoundReadsBack
    <2> HIDE DEF n
    <2> QED
      BY <1>1, <2>1
  <1>3. w = WriteList(p)
    BY DEF Written
  <1> HIDE DEF p, w
  <1>4. PICK g :
          /\ g[0] = <<n>>
          /\ \A i \in 1 .. n : g[i] = g[i - 1] \o p[i]
          /\ g[n] = w
          /\ \A i \in 0 .. n : g[i] \in Streams
          /\ \A i \in 0 .. n : \E x \in Streams : w = g[i] \o x
    <2> HIDE DEF n
    <2> QED
      BY <1>2, <1>3, WrittenSteps
  <1>5. w \in Streams
    <2>1. n \in 0 .. n
      BY <1>1
    <2> QED
      BY <1>4, <2>1
  <1>6. PICK x0 \in Streams : w = g[0] \o x0
    <2>1. 0 \in 0 .. n
      BY <1>1
    <2> QED
      BY <1>4, <2>1
  <1>7. ReadField(w) = Good(n, x0)
    <2> HIDE DEF n
    <2> QED
      BY <1>1, <1>4, <1>6, FieldReadsBack
  <1> DEFINE base == Good(<< >>, x0)
             G == {z \in (0 .. n) \X States :
                     z[2] = Good(First(z[1]), z[2].rest) /\ w = g[z[1]] \o z[2].rest}
  <1>8. ASSUME NEW i \in 0 .. n, NEW x \in Streams, w = g[i] \o x
        PROVE  <<i, Good(First(i), x)>> \in G
    <2>1. First(i) \in Seq(Kept(kind))
      <3>1. 1 \in Int /\ i \in Int /\ \A j \in 1 .. i : e[j] \in Kept(kind)
        BY <1>1
      <3> QED
        BY <3>1, SubSeqProperties
    <2> HIDE DEF First
    <2>2. Good(First(i), x) \in States
      BY <2>1 DEF Good
    <2>3. Good(First(i), x).rest = x
      BY GoodParts
    <2> HIDE DEF States
    <2> QED
      BY <1>8, <2>2, <2>3
  <1>9. ASSUME NEW i \in 1 .. n, NEW got, <<i - 1, got>> \in G
        PROVE  <<i, ReadRound(got, i, kind)>> \in G
    <2> DEFINE j == i - 1
               x == got.rest
    <2>1. j \in 0 .. n /\ i \in 0 .. n /\ j + 1 = i /\ i \in Nat
      BY <1>1
    <2>2. got \in States /\ got = Good(First(j), x) /\ w = g[j] \o x /\ x \in Streams
      <3> HIDE DEF First
      <3> QED
        BY <1>9
    <2>3. PICK y \in Streams : w = g[i] \o y
      BY <1>4, <2>1
    <2>4. x = p[i] \o y /\ p[i] \in Streams /\ p[i] = Serialize(kind, e[i])
      <3>1. p[i] \in Streams /\ g[j] \in Streams /\ p[i] = Serialize(kind, e[i])
        BY <1>2, <1>4, <2>1
      <3>2. g[i] = g[j] \o p[i]
        BY <1>4
      <3> DEFINE a == g[j]
                 c == p[i]
      <3> HIDE DEF a, c, x, j
      <3>0. a \in Streams /\ c \in Streams
        BY <3>1 DEF a, c
      <3>3. (a \o c) \o y = a \o (c \o y) /\ c \o y \in Streams
        <4>1. (a \o c) \o y = a \o (c \o y)
          BY <3>0, StreamsAssociate
        <4> QED
          BY <3>0, <4>1, StreamConcat
      <3>4. a \o x = a \o (c \o y)
        BY <2>2, <2>3, <3>2, <3>3 DEF a, c
      <3>5. x = c \o y
        BY <2>2, <3>1, <3>3, <3>4, ConcatSimplifications DEF Streams, a
      <3> QED
        BY <3>1, <3>5 DEF c
    <2>5. ReadRound(got, i, kind) = Good(Append(First(j), e[i]), y)
      <3> HIDE DEF First, x, j
      <3>1. got = Good(First(j), Serialize(kind, e[i]) \o y) /\ e[i] \in Kept(kind)
        BY <1>1, <2>2, <2>4
      <3> QED
        BY <3>1, RoundReadsBack
    <2>6. Append(First(j), e[i]) = First(i)
      <3>1. First(i) = First(j) \o <<e[i]>>
        BY <2>1, SubSeqRecursiveSecond
      <3>2. First(j) \in Seq(Kept(kind)) /\ e[i] \in Kept(kind)
        <4>1. 1 \in Int /\ j \in Int /\ \A k \in 1 .. j : e[k] \in Kept(kind)
          BY <1>1
        <4> HIDE DEF j
        <4> QED
          BY <1>1, <4>1, SubSeqProperties
      <3> HIDE DEF First, j
      <3>3. Append(First(j), e[i]) = First(j) \o <<e[i]>>
        BY <3>2, AppendIsConcat
      <3> QED
        BY <3>1, <3>3
    <2> HIDE DEF G, First
    <2> QED
      BY <1>8, <2>1, <2>3, <2>5, <2>6
  <1>10. <<0, base>> \in G
    <2>1. First(0) = << >> /\ 0 \in 0 .. n
      BY <1>1, SubSeqEmpty
    <2> HIDE DEF G, First
    <2> QED
      BY <1>6, <1>8, <2>1
  <1>11. <<n, ReadLoop!Fold(base, s, kind)>> \in G
    <2>1. s \in Seq(Nat) /\ Len(s) = n /\ \A i \in 1 .. n : s[i] = i
      BY <1>1
    <2>2. \A i \in 1 .. Len(s) : \A got :
            <<i - 1, got>> \in G => <<i, ReadRound(got, s[i], kind)>> \in G
      <3> HIDE DEF G, s, n
      <3> QED
        BY <1>9, <2>1
    <2> HIDE DEF G, s, n, base
    <2> QED
      BY <1>10, <2>1, <2>2, ReadLoop!FoldPasses
  <1>12. ReadList(kind, w) = ReadLoop!Fold(base, s, kind)
    <2>1. /\ [ok |-> ReadField(w).ok, val |-> << >>, rest |-> ReadField(w).rest] = base
          /\ ReadField(w).val = n
      BY <1>7 DEF Good
    <2> HIDE DEF base, n
    <2> QED
      BY <2>1, LoopsAreFolds
  <1>13. First(n) = e
    BY SubSeqFull
  <1>14. ReadList(kind, w) = Good(e, ReadList(kind, w).rest)
    <2> HIDE DEF base, s, First
    <2> QED
      BY <1>11, <1>12, <1>13
  <1>15. ReadList(kind, w).ok /\ ReadList(kind, w).val = e
    BY <1>14, GoodParts
  <1> QED
    BY <1>5, <1>15 DEF w

-----------------------------------------------------------------------------
(* What peers send.                                                        *)

PeerStreams == Seq(Byte)

\* A field of what a peer sent is a byte, and so is all that is left.
LEMMA FieldRead ==
  ASSUME NEW s \in PeerStreams
  PROVE  /\ ReadField(s).ok \in BOOLEAN
         /\ ReadField(s).val \in Byte
         /\ ReadField(s).rest \in PeerStreams
  <1>1. 0 \in Byte
    BY BaseAssumption DEF Byte
  <1>2. CASE s = << >>
    <2>1. ReadField(s) = [ok |-> FALSE, val |-> 0, rest |-> s]
      BY <1>2 DEF ReadField, Fail
    <2> QED
      BY <1>1, <2>1
  <1>3. CASE s # << >>
    <2>1. Head(s) \in Byte /\ Tail(s) \in PeerStreams
      BY <1>3, HeadTailProperties DEF PeerStreams
    <2>2. ReadField(s) = [ok |-> TRUE, val |-> Head(s), rest |-> Tail(s)]
      BY <1>3 DEF ReadField
    <2> QED
      BY <2>1, <2>2
  <1> QED
    BY <1>2, <1>3

\* Bytes that are read with their count are a token value.
LEMMA VarBytesRead ==
  ASSUME NEW s \in PeerStreams
  PROVE  LET read == ReadVarBytes(s, MaxTokenValueDataSize)
         IN  /\ read.ok \in BOOLEAN
             /\ read.ok => read.val \in TokenValues
             /\ read.rest \in PeerStreams
  <1> DEFINE read == ReadVarBytes(s, MaxTokenValueDataSize)
             count == ReadField(s)
             n == count.val
  <1>1. count.ok \in BOOLEAN /\ n \in Byte /\ count.rest \in PeerStreams
    BY FieldRead
  <1>2. n \in Nat /\ Len(s) \in Nat /\ << >> \in PeerStreams
    BY <1>1, BaseAssumption DEF Byte, PeerStreams
  <1>3. read = IF ~count.ok \/ n > MaxTokenValueDataSize THEN Fail(count.rest)
               ELSE IF Len(count.rest) < n THEN Fail(<< >>)
               ELSE [ok |-> TRUE, val |-> SubSeq(s, 2, n + 1), rest |-> SubSeq(s, n + 2, Len(s))]
    BY DEF ReadVarBytes
  <1>4. CASE ~count.ok \/ n > MaxTokenValueDataSize
    <2>1. read = [ok |-> FALSE, val |-> 0, rest |-> count.rest]
      BY <1>3, <1>4 DEF Fail
    <2> HIDE DEF read, count
    <2> QED
      BY <1>1, <2>1 DEF read
  <1>5. CASE ~(~count.ok \/ n > MaxTokenValueDataSize) /\ Len(count.rest) < n
    <2>1. read = [ok |-> FALSE, val |-> 0, rest |-> << >>]
      BY <1>3, <1>5 DEF Fail
    <2> HIDE DEF read, count
    <2> QED
      BY <1>2, <2>1 DEF read
  <1>6. CASE ~(~count.ok \/ n > MaxTokenValueDataSize) /\ ~(Len(count.rest) < n)
    <2> DEFINE b == SubSeq(s, 2, n + 1)
               r == SubSeq(s, n + 2, Len(s))
    <2>1. read = [ok |-> TRUE, val |-> b, rest |-> r]
      BY <1>3, <1>6
    <2>2. Len(s) = Len(count.rest) + 1
      <3>1. s # << >>
        BY <1>6 DEF ReadField, Fail
      <3>2. count.rest = Tail(s)
        BY <3>1 DEF ReadField
      <3> QED
        BY <3>1, <3>2, HeadTailProperties DEF PeerStreams
    <2>3. n + 1 <= Len(s)
      BY <1>1, <1>2, <1>6, <2>2 DEF PeerStreams
    <2> HIDE DEF count, n
    <2>4. \A i \in 1 .. Len(s) : s[i] \in Byte
      BY DEF PeerStreams
    <2>5. b \in Seq(Byte) /\ Len(b) = IF 2 <= n + 1 THEN (n + 1) - 2 + 1 ELSE 0
      <3>1. 2 \in Int /\ n + 1 \in Int /\ \A i \in 2 .. n + 1 : s[i] \in Byte
        BY <1>2, <2>3, <2>4
      <3> QED
        BY <3>1, SubSeqProperties
    <2>6. r \in Seq(Byte)
      <3>1. n + 2 \in Int /\ Len(s) \in Int /\ \A i \in n + 2 .. Len(s) : s[i] \in Byte
        BY <1>2, <2>4
      <3> QED
        BY <3>1, SubSeqProperties
    <2>7. Len(b) <= MaxTokenValueDataSize
      BY <1>2, <1>6, <2>5, SizeAssumption
    <2> HIDE DEF b, r, read
    <2>8. b \in TokenValues
      BY <2>5, <2>7, TokenValueType
    <2> QED
      BY <2>1, <2>6, <2>8 DEF read, PeerStreams
  <1> QED
    BY <1>4, <1>5, <1>6

\* An output that is read from what a peer sent.
LEMMA OutputRead ==
  ASSUME NEW s \in PeerStreams
  PROVE  /\ DeserializeOutput(s).ok \in BOOLEAN
         /\ DeserializeOutput(s).val \in Outputs \cup {0}
         /\ DeserializeOutput(s).ok => DeserializeOutput(s).val \in Outputs
         /\ DeserializeOutput(s).rest \in PeerStreams
  <1> DEFINE asset == ReadField(s)
             value == IF asset.val = ElaAssetId THEN ReadField(asset.rest)
                      ELSE ReadVarBytes(asset.rest, MaxTokenValueDataSize)
             lock == ReadField(value.rest)
             hash == ReadField(lock.rest)
             all == asset.ok /\ value.ok /\ lock.ok /\ hash.ok
             worth == IF asset.val = ElaAssetId THEN value.val ELSE SetBytes(value.val)
             o == [AssetID |-> asset.val, Value |-> worth,
                   OutputLock |-> lock.val, ProgramHash |-> hash.val]
  <1>1. asset.val \in Byte /\ asset.rest \in PeerStreams
    BY FieldRead
  <1>2. /\ value.rest \in PeerStreams
        /\ asset.val = ElaAssetId => value.val \in Byte
        /\ asset.val # ElaAssetId /\ value.ok => value.val \in TokenValues
    <2> HIDE DEF asset
    <2>1. /\ ReadField(asset.rest).rest \in PeerStreams
          /\ ReadField(asset.rest).val \in Byte
      BY <1>1, FieldRead
    <2>2. LET read == ReadVarBytes(asset.rest, MaxTokenValueDataSize)
          IN  (read.ok => read.val \in TokenValues) /\ read.rest \in PeerStreams
      BY <1>1, VarBytesRead
    <2> QED
      BY <2>1, <2>2
  <1> HIDE DEF asset, value
  <1>3. lock.val \in Byte /\ lock.rest \in PeerStreams
    BY <1>2, FieldRead
  <1> HIDE DEF lock
  <1>4. hash.val \in Byte /\ hash.rest \in PeerStreams
    BY <1>3, FieldRead
  <1> HIDE DEF hash
  <1>5. Byte \subseteq Nat
    BY BaseAssumption DEF Byte
  <1>6. ASSUME all
        PROVE  o \in Outputs
    <2>1. asset.val # ElaAssetId => value.val \in TokenValues /\ SetBytes(value.val) \in Nat
      BY <1>2, <1>6, TokenValuesAreStreams, SetBytesType
    <2>2. worth \in Nat
      BY <1>2, <1>5, <2>1
    <2>3. o \in [AssetID : Nat, Value : Nat, OutputLock : Nat, ProgramHash : Nat]
      BY <1>1, <1>3, <1>4, <1>5, <2>2
    <2>4. asset.val # ElaAssetId => \E b \in TokenValues : SetBytes(b) = worth
      BY <2>1
    <2> HIDE DEF worth
    <2> QED
      BY <2>3, <2>4 DEF Outputs
  <1>7. DeserializeOutput(s) =
          IF ~all THEN Fail(hash.rest) ELSE [ok |-> TRUE, val |-> o, rest |-> hash.rest]
    BY DEF DeserializeOutput, asset, value, lock, hash
  <1>8. CASE ~all
    <2>1. DeserializeOutput(s) = [ok |-> FALSE, val |-> 0, rest |-> hash.rest]
      BY <1>7, <1>8 DEF Fail
    <2> QED
      BY <1>4, <2>1
  <1>9. CASE all
    <2>1. DeserializeOutput(s) = [ok |-> TRUE, val |-> o, rest |-> hash.rest]
      BY <1>7, <1>9
    <2> HIDE DEF o, all
    <2> QED
      BY <1>4, <1>6, <1>9, <2>1
  <1> QED
    BY <1>8, <1>9

\* A transaction that can be read has outputs that can be written.
LEMMA WireRead ==
  ASSUME NEW s \in PeerStreams, ReadList("output", s).ok
  PROVE  ReadList("output", s).val \in Seq(Outputs)
  <1> DEFINE count == ReadField(s)
             n == count.val
             base == [ok |-> count.ok, val |-> << >>, rest |-> count.rest]
             p == [i \in 1 .. n |-> i]
             States == [ok : BOOLEAN, val : Seq(Outputs \cup {0}), rest : PeerStreams]
             G == {z \in (0 .. n) \X States : z[2].ok => z[2].val \in Seq(Outputs)}
  <1>1. count.ok \in BOOLEAN /\ n \in Nat /\ count.rest \in PeerStreams
    BY FieldRead, BaseAssumption DEF Byte
  <1>2. p \in Seq(Nat) /\ Len(p) = n
    BY <1>1
  <1>3. <<0, base>> \in G
    <2> HIDE DEF n, count
    <2>1. base \in States /\ base.val \in Seq(Outputs) /\ 0 \in 0 .. n
      BY <1>1
    <2> QED
      BY <2>1
  <1>4. ASSUME NEW i \in 1 .. n, NEW got, <<i - 1, got>> \in G
        PROVE  <<i, ReadRound(got, p[i], "output")>> \in G
    <2> DEFINE read == DeserializeOutput(got.rest)
               next == ReadRound(got, p[i], "output")
    <2>1. i \in 0 .. n
      BY <1>1
    <2>2. got \in States /\ (got.ok => got.val \in Seq(Outputs))
      BY <1>4
    <2>3. /\ read.ok \in BOOLEAN /\ read.val \in Outputs \cup {0}
          /\ read.ok => read.val \in Outputs
          /\ read.rest \in PeerStreams
      BY <2>2, OutputRead
    <2>4. next = IF ~got.ok THEN got
                 ELSE [ok |-> read.ok, val |-> Append(got.val, read.val), rest |-> read.rest]
      BY DEF ReadRound, ReadElement
    <2> HIDE DEF read, next, n
    <2>5. next \in States /\ (next.ok => next.val \in Seq(Outputs))
      <3>1. CASE ~got.ok
        BY <2>2, <2>4, <3>1
      <3>2. CASE got.ok
        <4>1. Append(got.val, read.val) \in Seq(Outputs \cup {0})
          BY <2>2, <2>3, AppendProperties
        <4>2. read.ok => Append(got.val, read.val) \in Seq(Outputs)
          BY <2>2, <2>3, <3>2, AppendProperties
        <4>3. next = [ok |-> read.ok, val |-> Append(got.val, read.val), rest |-> read.rest]
          BY <2>4, <3>2
        <4> QED
          BY <2>3, <4>1, <4>2, <4>3
      <3> QED
        BY <3>1, <3>2
    <2> HIDE DEF States
    <2> QED
      BY <2>1, <2>5 DEF next
  <1> HIDE DEF States, G, base, p, n
  <1>5. <<n, ReadLoop!Fold(base, p, "output")>> \in G
    BY <1>2, <1>3, <1>4, ReadLoop!FoldPasses
  <1>6. ReadList("output", s) = ReadLoop!Fold(base, p, "output")
    BY LoopsAreFolds DEF base, p, n, count
  <1> QED
    BY <1>5, <1>6 DEF G

-----------------------------------------------------------------------------
(* The lists of the store.                                                 *)

Keys == Nat \X Nat

WrittenLists == {s \in Streams : \E e \in Seq(Elements) : s = Written("utxo", e)}

Lists == UNION {[K -> WrittenLists] : K \in SUBSET Keys}

\* The elements of the list of a key, none if the key has no list.
ElementsAt(L, k) == IF k \in DOMAIN L THEN GetUnspentElements(L, k).val ELSE << >>

\* The lists hold the entries of D, each once and no others.
Holds(L, D) ==
  /\ L \in Lists
  /\ D \subseteq [key : Keys, element : Elements]
  /\ \A k \in Keys :
       /\ \A j \in 1 .. Len(ElementsAt(L, k)) : [key |-> k, element |-> ElementsAt(L, k)[j]] \in D
       /\ \A d \in D : d.key = k =>
            \E j \in 1 .. Len(ElementsAt(L, k)) : ElementsAt(L, k)[j] = d.element
       /\ \A i, j \in 1 .. Len(ElementsAt(L, k)) :
            ElementsAt(L, k)[i] = ElementsAt(L, k)[j] => i = j

\* Every list of the store can be read.
LEMMA StoredListRead ==
  ASSUME NEW L \in Lists, NEW k
  PROVE  /\ ElementsAt(L, k) \in Seq(Elements)
         /\ k \in DOMAIN L => GetUnspentElements(L, k).ok
         /\ ElementsAt(L, k) =
              IF GetUnspentElements(L, k).ok THEN GetUnspentElements(L, k).val ELSE << >>
  <1>1. PICK K \in SUBSET Keys : L \in [K -> WrittenLists]
    BY DEF Lists
  <1>2. CASE k \in DOMAIN L
    <2>1. L[k] \in WrittenLists
      BY <1>1, <1>2
    <2>2. PICK e \in Seq(Elements) : L[k] = Written("utxo", e)
      BY <2>1 DEF WrittenLists
    <2>3. e \in Seq(Kept("utxo"))
      BY DEF Kept
    <2>4. ReadList("utxo", L[k]).ok /\ ReadList("utxo", L[k]).val = e
      BY <2>2, <2>3, ListReadsBack
    <2>5. GetUnspentElements(L, k) = ReadList("utxo", L[k])
      BY <1>2 DEF GetUnspentElements
    <2> QED
      BY <1>2, <2>4, <2>5 DEF ElementsAt
  <1>3. CASE k \notin DOMAIN L
    BY <1>3 DEF ElementsAt, GetUnspentElements, Fail
  <1> QED
    BY <1>2, <1>3

\* Writing the list of a key leaves the others alone.
LEMMA PersistEffect ==
  ASSUME NEW L \in Lists, NEW k \in Keys, NEW e \in Seq(Elements)
  PROVE  /\ PersistUnspents(L, k, e) \in Lists
         /\ ElementsAt(PersistUnspents(L, k, e), k) = e
         /\ \A j : j # k => ElementsAt(PersistUnspents(L, k, e), j) = ElementsAt(L, j)
  <1> DEFINE new == PersistUnspents(L, k, e)
  <1>1. PICK K \in SUBSET Keys : L \in [K -> WrittenLists]
    BY DEF Lists
  <1>2. CASE e = << >>
    <2>1. new = [j \in DOMAIN L \ {k} |-> L[j]]
      BY <1>2 DEF PersistUnspents
    <2> HIDE DEF new
    <2>2. new \in [K \ {k} -> WrittenLists] /\ K \ {k} \in SUBSET Keys
      BY <1>1, <2>1
    <2>3. new \in Lists
      BY <2>2 DEF Lists
    <2>4. k \notin DOMAIN new
      BY <2>1
    <2>5. ASSUME NEW j, j # k
          PROVE  ElementsAt(new, j) = ElementsAt(L, j)
      <3>1. (j \in DOMAIN new <=> j \in DOMAIN L) /\ (j \in DOMAIN L => new[j] = L[j])
        BY <2>1, <2>5
      <3> QED
        BY <3>1 DEF ElementsAt, GetUnspentElements
    <2> QED
      BY <1>2, <2>3, <2>4, <2>5 DEF ElementsAt, new
  <1>3. CASE e # << >>
    <2> DEFINE w == Written("utxo", e)
    <2>1. w = WriteList([i \in 1 .. Len(e) |-> SerializeUtxo(e[i])])
      BY DEF Written, Serialize
    <2>2. e \in Seq(Kept("utxo"))
      BY DEF Kept
    <2>3. w \in Streams /\ ReadList("utxo", w).val = e
      BY <2>2, ListReadsBack
    <2>4. w \in WrittenLists
      BY <2>3 DEF WrittenLists
    <2>5. new = [j \in DOMAIN L \cup {k} |-> IF j = k THEN w ELSE L[j]]
      BY <1>3, <2>1 DEF PersistUnspents
    <2> HIDE DEF new, w
    <2>6. new \in [K \cup {k} -> WrittenLists] /\ K \cup {k} \in SUBSET Keys
      BY <1>1, <2>4, <2>5
    <2>7. new \in Lists
      BY <2>6 DEF Lists
    <2>8. ElementsAt(new, k) = e
      <3>1. k \in DOMAIN new /\ new[k] = w
        BY <2>5
      <3> QED
        BY <2>3, <3>1 DEF ElementsAt, GetUnspentElements
    <2>9. ASSUME NEW j, j # k
          PROVE  ElementsAt(new, j) = ElementsAt(L, j)
      <3>1. (j \in DOMAIN new <=> j \in DOMAIN L) /\ (j \in DOMAIN L => new[j] = L[j])
        BY <2>5, <2>9
      <3> QED
        BY <3>1 DEF ElementsAt, GetUnspentElements
    <2> QED
      BY <2>7, <2>8, <2>9 DEF new
  <1> QED
    BY <1>2, <1>3

\* What Holds says of the list of one key.
HoldsAt(e, D, k) ==
  /\ \A j \in 1 .. Len(e) : [key |-> k, element |-> e[j]] \in D
  /\ \A d \in D : d.key = k => \E j \in 1 .. Len(e) : e[j] = d.element
  /\ \A i, j \in 1 .. Len(e) : e[i] = e[j] => i = j

\* The list of one key is written, and the others hold what they held.
LEMMA PersistHolds ==
  ASSUME NEW L, NEW D, Holds(L, D), NEW k \in Keys, NEW e \in Seq(Elements),
         NEW R \in SUBSET [key : Keys, element : Elements],
         \A d : d.key # k => (d \in R <=> d \in D),
         HoldsAt(e, R, k)
  PROVE  Holds(PersistUnspents(L, k, e), R)
  <1> DEFINE new == PersistUnspents(L, k, e)
  <1>1. L \in Lists /\ \A m \in Keys : HoldsAt(ElementsAt(L, m), D, m)
    BY DEF Holds, HoldsAt
  <1>2. /\ new \in Lists /\ ElementsAt(new, k) = e
        /\ \A m : m # k => ElementsAt(new, m) = ElementsAt(L, m)
    BY <1>1, PersistEffect
  <1> HIDE DEF new
  <1>3. ASSUME NEW m \in Keys
        PROVE  HoldsAt(ElementsAt(new, m), R, m)
    <2>1. CASE m = k
      BY <1>2, <2>1
    <2>2. CASE m # k
      <3> DEFINE f == ElementsAt(L, m)
      <3>1. HoldsAt(f, D, m) /\ ElementsAt(new, m) = f
        BY <1>1, <1>2, <2>2
      <3> HIDE DEF f
      <3>2. ASSUME NEW j \in 1 .. Len(f)
            PROVE  [key |-> m, element |-> f[j]] \in R
        <4> DEFINE d == [key |-> m, element |-> f[j]]
        <4>1. d \in D /\ d.key # k
          BY <2>2, <3>1 DEF HoldsAt
        <4> HIDE DEF d
        <4>2. d \in R
          BY <4>1
        <4> QED
          BY <4>2 DEF d
      <3>3. ASSUME NEW d \in R, d.key = m
            PROVE  \E j \in 1 .. Len(f) : f[j] = d.element
        <4>1. d \in D
          BY <2>2, <3>3
        <4> QED
          BY <3>1, <3>3, <4>1 DEF HoldsAt
      <3> QED
        BY <3>1, <3>2, <3>3 DEF HoldsAt
    <2> QED
      BY <2>1, <2>2
  <1>4. Holds(new, R)
    BY <1>2, <1>3 DEF Holds, HoldsAt
  <1> QED
    BY <1>4 DEF new

\* A new entry is added to the list of its key.
LEMMA AddHolds ==
  ASSUME NEW L, NEW D, Holds(L, D), NEW added \in [key : Keys, element : Elements], added \notin D
  PROVE  Holds(AddUtxo(L, added), D \cup {added})
  <1> DEFINE k == added.key
             x == added.element
             e == ElementsAt(L, k)
             f == Append(e, x)
             R == D \cup {added}
  <1>1. L \in Lists /\ D \subseteq [key : Keys, element : Elements]
    BY DEF Holds
  <1>2. k \in Keys /\ x \in Elements /\ added = [key |-> k, element |-> x]
    OBVIOUS
  <1>3. e \in Seq(Elements) /\ AddUtxo(L, added) = PersistUnspents(L, k, f)
    BY <1>1, StoredListRead DEF AddUtxo
  <1>4. HoldsAt(e, D, k)
    BY <1>2 DEF Holds, HoldsAt
  <1> HIDE DEF k, x, e
  <1>5. /\ f \in Seq(Elements) /\ Len(e) \in Nat /\ Len(f) = Len(e) + 1
        /\ f[Len(e) + 1] = x /\ \A i \in 1 .. Len(e) : f[i] = e[i]
    BY <1>2, <1>3, AppendProperties
  <1> HIDE DEF f
  <1>6. /\ \A i \in 1 .. Len(f) : i \in 1 .. Len(e) \/ i = Len(e) + 1
        /\ 1 .. Len(e) \subseteq 1 .. Len(f) /\ Len(e) + 1 \in 1 .. Len(f)
    BY <1>5
  <1>7. HoldsAt(f, R, k)
    <2>1. \A j \in 1 .. Len(f) : [key |-> k, element |-> f[j]] \in R
      BY <1>2, <1>4, <1>5, <1>6 DEF HoldsAt
    <2>2. ASSUME NEW d \in R, d.key = k
          PROVE  \E j \in 1 .. Len(f) : f[j] = d.element
      <3>1. CASE d \in D
        <4>1. PICK j \in 1 .. Len(e) : e[j] = d.element
          BY <1>4, <2>2, <3>1 DEF HoldsAt
        <4> QED
          BY <1>5, <1>6, <4>1
      <3>2. CASE d = added
        BY <1>5, <1>6, <3>2 DEF x
      <3> QED
        BY <3>1, <3>2
    <2>3. \A i \in 1 .. Len(e) : e[i] # x
      BY <1>2, <1>4 DEF HoldsAt
    <2>4. \A i, j \in 1 .. Len(f) : f[i] = f[j] => i = j
      BY <1>4, <1>5, <1>6, <2>3 DEF HoldsAt
    <2> QED
      BY <2>1, <2>2, <2>4 DEF HoldsAt
  <1>8. \A d : d.key # k => (d \in R <=> d \in D)
    BY DEF k
  <1>9. R \in SUBSET [key : Keys, element : Elements]
    BY <1>1
  <1> HIDE DEF R
  <1>10. Holds(PersistUnspents(L, k, f), R)
    BY <1>2, <1>5, <1>7, <1>8, <1>9, PersistHolds
  <1> QED
    BY <1>3, <1>10 DEF R

\* The last element of a list takes the place of one that is spent.
LEMMA SpendHolds ==
  ASSUME NEW L, NEW D, Holds(L, D), NEW k \in Keys, NEW j \in 1 .. Len(ElementsAt(L, k))
  PROVE  LET e == ElementsAt(L, k)
         IN  Holds(PersistUnspents(L, k, Front([e EXCEPT ![j] = Last(e)])),
                   D \ {[key |-> k, element |-> e[j]]})
  <1> DEFINE e == ElementsAt(L, k)
             n == Len(e)
             f == Front([e EXCEPT ![j] = Last(e)])
             gone == [key |-> k, element |-> e[j]]
             R == D \ {gone}
  <1>1. L \in Lists /\ D \subseteq [key : Keys, element : Elements] /\ HoldsAt(e, D, k)
    BY DEF Holds, HoldsAt
  <1>2. e \in Seq(Elements) /\ n \in Nat /\ j \in 1 .. n
    BY <1>1, StoredListRead
  <1> HIDE DEF e
  <1>3. /\ f \in Seq(Elements) /\ Len(f) = n - 1
        /\ \A i \in 1 .. n - 1 : f[i] = IF i = j THEN e[n] ELSE e[i]
    <2> DEFINE g == [e EXCEPT ![j] = Last(e)]
    <2>1. n \in 1 .. n /\ Last(e) = e[n] /\ e[n] \in Elements
      BY <1>2 DEF Last
    <2>2. g \in Seq(Elements) /\ Len(g) = n /\ \A i \in 1 .. n : g[i] = IF i = j THEN e[n] ELSE e[i]
      BY <1>2, <2>1, ExceptSeq
    <2>3. f = SubSeq(g, 1, n - 1)
      BY <2>2 DEF Front
    <2> HIDE DEF g, f, n
    <2>4. /\ 1 \in Int /\ n - 1 \in Int /\ \A i \in 1 .. n - 1 : i \in 1 .. n
          /\ \A i \in 1 .. n - 1 : g[i] \in Elements
      BY <1>2, <2>2
    <2>5. /\ f \in Seq(Elements)
          /\ Len(f) = IF 1 <= n - 1 THEN (n - 1) - 1 + 1 ELSE 0
          /\ \A i \in 1 .. (n - 1) - 1 + 1 : f[i] = g[1 + i - 1]
      BY <2>3, <2>4, SubSeqProperties
    <2>6. n - 1 \in Nat /\ (n - 1) - 1 + 1 = n - 1 /\ \A i \in 1 .. n - 1 : 1 + i - 1 = i
      BY <1>2
    <2> QED
      BY <2>2, <2>4, <2>5, <2>6
  <1> HIDE DEF f, n
  <1>4. /\ \A i \in 1 .. n : i \in 1 .. n - 1 \/ i = n
        /\ \A i \in 1 .. n - 1 : i \in 1 .. n /\ i # n
        /\ n \in 1 .. n
    BY <1>2
  <1>5. HoldsAt(f, R, k)
    <2>0. /\ \A i \in 1 .. n : [key |-> k, element |-> e[i]] \in D
          /\ \A d \in D : d.key = k => \E i \in 1 .. n : e[i] = d.element
          /\ \A i, m \in 1 .. n : e[i] = e[m] => i = m
      BY <1>1 DEF HoldsAt, n
    <2>1. ASSUME NEW i \in 1 .. n - 1
          PROVE  [key |-> k, element |-> f[i]] \in R
      <3> DEFINE m == IF i = j THEN n ELSE i
      <3>1. f[i] = e[m] /\ m \in 1 .. n /\ m # j
        BY <1>2, <1>3, <1>4
      <3> HIDE DEF m
      <3>2. e[m] # e[j]
        BY <1>2, <2>0, <3>1
      <3> QED
        BY <2>0, <3>1, <3>2
    <2>2. ASSUME NEW d \in R, d.key = k
          PROVE  \E i \in 1 .. n - 1 : f[i] = d.element
      <3>1. PICK m \in 1 .. n : e[m] = d.element
        BY <2>0, <2>2
      <3>2. m # j
        <4>1. d = [key |-> k, element |-> d.element]
          BY <1>1, <2>2
        <4> QED
          BY <3>1, <4>1
      <3>3. CASE m = n
        <4>1. j \in 1 .. n - 1
          BY <1>2, <1>4, <3>2, <3>3
        <4>2. f[j] = e[n]
          BY <1>3, <4>1
        <4> QED
          BY <3>1, <3>3, <4>1, <4>2
      <3>4. CASE m # n
        <4>1. m \in 1 .. n - 1
          BY <1>4, <3>4
        <4>2. f[m] = e[m]
          BY <1>3, <3>2, <4>1
        <4> QED
          BY <3>1, <4>1, <4>2
      <3> QED
        BY <3>3, <3>4
    <2>3. ASSUME NEW i \in 1 .. n - 1, NEW m \in 1 .. n - 1, f[i] = f[m]
          PROVE  i = m
      <3>1. f[i] = (IF i = j THEN e[n] ELSE e[i]) /\ f[m] = (IF m = j THEN e[n] ELSE e[m])
        BY <1>3
      <3>2. i \in 1 .. n /\ m \in 1 .. n /\ i # n /\ m # n
        BY <1>4
      <3> QED
        BY <1>4, <2>0, <2>3, <3>1, <3>2
    <2>4. Len(f) = n - 1
      BY <1>3
    <2> HIDE DEF R
    <2> QED
      BY <2>1, <2>2, <2>3, <2>4 DEF HoldsAt
  <1>6. \A d : d.key # k => (d \in R <=> d \in D)
    OBVIOUS
  <1>7. R \in SUBSET [key : Keys, element : Elements]
    BY <1>1
  <1> HIDE DEF R
  <1>8. Holds(PersistUnspents(L, k, f), R)
    BY <1>3, <1>5, <1>6, <1>7, PersistHolds
  <1> QED
    BY <1>8 DEF R, f, e

-----------------------------------------------------------------------------
(* The store.                                                              *)

\* The outputs of transactions that were accepted, by the number of the
\* transaction and the index, and the entries of those that are not spent.
Outs(A) == {p \in Nat \X Nat : p[1] \in 1 .. Len(A) /\ p[2] \in 1 .. Len(A[p[1]])}

Entry(t, i, o) == [key |-> Key(o), element |-> Utxo(t, i, o)]

EntryOf(A, p) == Entry(p[1], p[2], A[p[1]][p[2]])

Entries(A, S) == {EntryOf(A, p) : p \in Outs(A) \ S}

TxsInv ==
  /\ accepted \in Seq(Seq(Outputs))
  /\ txs \in Seq(Streams)
  /\ Len(txs) = Len(accepted)
  /\ \A t \in 1 .. Len(accepted) : txs[t] = Written("output", accepted[t])
  /\ spent \subseteq Outs(accepted)

AssetsInv ==
  /\ registered \subseteq [Name : Nat, Height : Nat]
  /\ \A a \in registered :
       IF a.Name = ElaName THEN a.Height = 0 /\ <<ElaName>> \in records
                           ELSE SerializeAsset(a) \in records

\* The properties follow from this: each stored transaction is what its
\* accepted outputs are written as, and the lists hold the entries of those
\* that are not spent, each once.  That it is once is what a spending needs,
\* which removes one element; that a token value has digits which can be read
\* is what the next reading of its list needs.
CInv == TxsInv /\ Holds(lists, Entries(accepted, spent)) /\ AssetsInv

\* The entry of an output can be written, and says what the output is.
LEMMA EntryType ==
  ASSUME NEW o \in Outputs, NEW t \in Nat, NEW i \in Nat
  PROVE  /\ Entry(t, i, o) \in [key : Keys, element : Elements]
         /\ Worth(Utxo(t, i, o)) = o.Value
         /\ Utxo(t, i, o).TxID = t /\ Utxo(t, i, o).Index = i
  <1> DEFINE v == IF o.AssetID = ElaAssetId THEN <<o.Value>> ELSE Digits(o.Value)
  <1>1. /\ o.AssetID \in Nat /\ o.Value \in Nat /\ o.ProgramHash \in Nat
        /\ o.AssetID # ElaAssetId => \E b \in TokenValues : SetBytes(b) = o.Value
    BY DEF Outputs
  <1>2. /\ v \in Streams /\ Len(v) <= MaxTokenValueDataSize
        /\ o.Value = IF o.AssetID = ElaAssetId THEN Head(v) ELSE SetBytes(v)
    <2>1. CASE o.AssetID = ElaAssetId
      <3>1. <<o.Value>> \in Seq(Nat) /\ Len(<<o.Value>>) = 1 /\ Head(<<o.Value>>) = o.Value
        BY <1>1
      <3> QED
        BY <2>1, <3>1, SizeAssumption DEF Streams
    <2>2. CASE o.AssetID # ElaAssetId
      <3>1. Digits(o.Value) \in TokenValues /\ SetBytes(Digits(o.Value)) = o.Value
        BY <1>1, <2>2, DigitsReadBack
      <3>2. Digits(o.Value) \in Streams /\ Len(Digits(o.Value)) <= MaxTokenValueDataSize
        BY <3>1, TokenValueType, TokenValuesAreStreams
      <3> QED
        BY <2>2, <3>1, <3>2
    <2> QED
      BY <2>1, <2>2
  <1>3. Utxo(t, i, o) = [TxID |-> t, Index |-> i, AssetID |-> o.AssetID, Value |-> v]
    BY DEF Utxo
  <1> HIDE DEF v
  <1>4. Utxo(t, i, o) \in Elements
    BY <1>1, <1>2, <1>3 DEF Elements
  <1>5. Key(o) \in Keys
    BY <1>1 DEF Key, Keys
  <1>6. Worth(Utxo(t, i, o)) = o.Value
    BY <1>2, <1>3 DEF Worth
  <1> QED
    BY <1>3, <1>4, <1>5, <1>6 DEF Entry

\* Every output that was accepted has the parts of an output.
LEMMA OutsType ==
  ASSUME NEW A \in Seq(Seq(Outputs)), NEW p \in Outs(A)
  PROVE  /\ p[1] \in 1 .. Len(A) /\ p[2] \in 1 .. Len(A[p[1]])
         /\ p[1] \in Nat /\ p[2] \in Nat /\ p = <<p[1], p[2]>>
         /\ A[p[1]][p[2]] \in Outputs
  <1>1. /\ p[1] \in 1 .. Len(A) /\ p[2] \in 1 .. Len(A[p[1]])
        /\ p[1] \in Nat /\ p[2] \in Nat /\ p = <<p[1], p[2]>>
    BY DEF Outs
  <1>2. A[p[1]] \in Seq(Outputs)
    BY <1>1
  <1> QED
    BY <1>1, <1>2

\* Entries of different outputs differ.
LEMMA EntryInjective ==
  ASSUME NEW A \in Seq(Seq(Outputs)), NEW p \in Outs(A), NEW q \in Outs(A),
         EntryOf(A, p).element = EntryOf(A, q).element
  PROVE  p = q
  <1>1. /\ p[1] \in Nat /\ p[2] \in Nat /\ p = <<p[1], p[2]>>
        /\ q[1] \in Nat /\ q[2] \in Nat /\ q = <<q[1], q[2]>>
        /\ A[p[1]][p[2]] \in Outputs /\ A[q[1]][q[2]] \in Outputs
    BY OutsType
  <1>2. EntryOf(A, p).element.TxID = p[1] /\ EntryOf(A, p).element.Index = p[2]
    BY <1>1, EntryType DEF EntryOf, Entry
  <1>3. EntryOf(A, q).element.TxID = q[1] /\ EntryOf(A, q).element.Index = q[2]
    BY SMTT(30), <1>1, EntryType DEF EntryOf, Entry
  <1> QED
    BY <1>1, <1>2, <1>3

\* A stored transaction is read back.
LEMMA StoredTxRead ==
  ASSUME TxsInv, NEW t \in DOMAIN txs
  PROVE  t \in 1 .. Len(accepted) /\ GetOutputs(t).ok /\ GetOutputs(t).val = accepted[t]
  <1>1. t \in 1 .. Len(accepted) /\ txs[t] = Written("output", accepted[t])
    BY DEF TxsInv
  <1>2. accepted[t] \in Seq(Kept("output"))
    BY <1>1 DEF TxsInv, Kept
  <1>3. /\ ReadList("output", Written("output", accepted[t])).ok
        /\ ReadList("output", Written("output", accepted[t])).val = accepted[t]
    BY <1>2, ListReadsBack
  <1> QED
    BY <1>1, <1>3 DEF GetOutputs

\* CInv holds of the empty store.
LEMMA CodecStart == CodecInit => CInv
  <1> SUFFICES ASSUME CodecInit PROVE CInv
    OBVIOUS
  <1>1. /\ txs = << >> /\ lists = << >> /\ records = {<<ElaName>>}
        /\ accepted = << >> /\ spent = {}
        /\ registered = {[Name |-> ElaName, Height |-> 0]}
    BY DEF CodecInit
  <1>2. TxsInv
    BY <1>1 DEF TxsInv
  <1>3. AssetsInv
    <2>1. \A a \in registered : a.Name = ElaName /\ a.Height = 0
      BY <1>1
    <2>2. registered \subseteq [Name : Nat, Height : Nat]
      BY <1>1 DEF ElaName
    <2> QED
      BY <1>1, <2>1, <2>2 DEF AssetsInv
  <1>4. Entries(accepted, spent) = {}
    <2>1. Outs(accepted) = {}
      BY <1>1 DEF Outs
    <2> QED
      BY <2>1 DEF Entries
  <1>5. lists \in Lists /\ DOMAIN lists = {}
    <2>1. lists \in [{} -> WrittenLists] /\ {} \in SUBSET Keys
      BY <1>1
    <2> QED
      BY <1>1, <2>1 DEF Lists
  <1>6. \A k : ElementsAt(lists, k) = << >>
    BY <1>5 DEF ElementsAt
  <1>7. Holds(lists, {})
    BY <1>5, <1>6 DEF Holds
  <1> QED
    BY <1>2, <1>3, <1>4, <1>7 DEF CInv

\* The outputs that are accepted with another transaction.
LEMMA AppendOuts ==
  ASSUME NEW A \in Seq(Seq(Outputs)), NEW v \in Seq(Outputs)
  PROVE  /\ Append(A, v) \in Seq(Seq(Outputs))
         /\ Len(Append(A, v)) = Len(A) + 1 /\ Len(A) + 1 \in Nat
         /\ Outs(A) \subseteq Outs(Append(A, v))
         /\ \A p \in Outs(A) : EntryOf(Append(A, v), p) = EntryOf(A, p) /\ p[1] # Len(A) + 1
         /\ \A p \in Outs(Append(A, v)) \ Outs(A) : p[1] = Len(A) + 1 /\ p[2] \in 1 .. Len(v)
         /\ \A i \in 1 .. Len(v) :
              /\ <<Len(A) + 1, i>> \in Outs(Append(A, v))
              /\ EntryOf(Append(A, v), <<Len(A) + 1, i>>) = Entry(Len(A) + 1, i, v[i])
  <1> DEFINE B == Append(A, v)
             n == Len(A)
  <1>1. /\ B \in Seq(Seq(Outputs)) /\ Len(B) = n + 1 /\ n \in Nat /\ B[n + 1] = v
        /\ \A t \in 1 .. n : B[t] = A[t]
    BY AppendProperties
  <1> HIDE DEF B
  <1>2. /\ \A t \in 1 .. n + 1 : t \in 1 .. n \/ t = n + 1
        /\ \A t \in 1 .. n : t \in 1 .. n + 1 /\ t # n + 1
        /\ n + 1 \in 1 .. n + 1
    BY <1>1
  <1> HIDE DEF n
  <1>3. Outs(A) = {p \in Nat \X Nat : p[1] \in 1 .. n /\ p[2] \in 1 .. Len(A[p[1]])}
    BY DEF Outs, n
  <1>4. Outs(B) = {p \in Nat \X Nat : p[1] \in 1 .. n + 1 /\ p[2] \in 1 .. Len(B[p[1]])}
    BY <1>1 DEF Outs
  <1>5. \A p \in Outs(A) : p \in Outs(B) /\ p[1] # n + 1 /\ EntryOf(B, p) = EntryOf(A, p)
    BY <1>1, <1>2, <1>3, <1>4 DEF EntryOf
  <1>6. \A p \in Outs(B) : p \notin Outs(A) => p[1] = n + 1 /\ p[2] \in 1 .. Len(v)
    <2> TAKE p \in Outs(B)
    <2> HAVE p \notin Outs(A)
    <2>1. p \in Nat \X Nat /\ p[1] \in 1 .. n + 1 /\ p[2] \in 1 .. Len(B[p[1]])
      BY <1>4
    <2>2. CASE p[1] \in 1 .. n
      <3>1. B[p[1]] = A[p[1]]
        BY <1>1, <2>2
      <3>2. p \in Outs(A)
        BY <1>3, <2>1, <2>2, <3>1
      <3> QED
        BY <3>2
    <2>3. CASE p[1] = n + 1
      BY <1>1, <2>1, <2>3
    <2> QED
      BY <1>2, <2>1, <2>2, <2>3
  <1>7. ASSUME NEW i \in 1 .. Len(v)
        PROVE  <<n + 1, i>> \in Outs(B) /\ EntryOf(B, <<n + 1, i>>) = Entry(n + 1, i, v[i])
    <2> DEFINE p == <<n + 1, i>>
    <2>1. p \in Nat \X Nat /\ p[1] = n + 1 /\ p[2] = i
      BY <1>1
    <2> HIDE DEF p
    <2>2. p \in Outs(B)
      BY <1>1, <1>2, <1>4, <2>1
    <2>3. EntryOf(B, p) = Entry(n + 1, i, v[i])
      BY <1>1, <2>1 DEF EntryOf
    <2> QED
      BY <2>2, <2>3 DEF p
  <1> QED
    BY <1>1, <1>5, <1>6, <1>7 DEF B, n

\* The entries of a transaction are added one after the other.
LEMMA AddAllHolds ==
  ASSUME NEW L, NEW D, Holds(L, D), NEW v \in Seq(Outputs), NEW t \in Nat,
         \A d \in D : d.element.TxID # t
  PROVE  LET added == [i \in 1 .. Len(v) |-> Entry(t, i, v[i])]
         IN  Holds(AddLoop!Fold(L, added, 0),
                   D \cup {Entry(t, i, v[i]) : i \in 1 .. Len(v)})
  <1> DEFINE m == Len(v)
             Item == [key : Keys, element : Elements]
             s == [i \in 1 .. m |-> Entry(t, i, v[i])]
             After(i) == D \cup {Entry(t, a, v[a]) : a \in 1 .. i}
             G == {z \in (0 .. m) \X Lists : Holds(z[2], After(z[1]))}
  <1>1. m \in Nat /\ \A i \in 1 .. m : i \in Nat /\ v[i] \in Outputs
    OBVIOUS
  <1>2. \A i \in 1 .. m : /\ Entry(t, i, v[i]) \in Item
                          /\ Entry(t, i, v[i]).element.TxID = t
                          /\ Entry(t, i, v[i]).element.Index = i
    <2> TAKE i \in 1 .. m
    <2>1. Entry(t, i, v[i]).element = Utxo(t, i, v[i])
      BY DEF Entry
    <2> QED
      BY <1>1, <2>1, EntryType
  <1>3. s \in Seq(Item) /\ Len(s) = m /\ \A i \in 1 .. m : s[i] = Entry(t, i, v[i])
    <2> HIDE DEF m, Item
    <2> QED
      BY <1>1, <1>2
  <1>4. L \in Lists
    BY DEF Holds
  <1>5. <<0, L>> \in G
    <2>1. After(0) = D /\ 0 \in 0 .. m
      BY <1>1
    <2> HIDE DEF After, m
    <2> QED
      BY <1>4, <2>1
  <1>6. ASSUME NEW i \in 1 .. m, NEW w, <<i - 1, w>> \in G
        PROVE  <<i, AddRound(w, s[i], 0)>> \in G
    <2> DEFINE x == Entry(t, i, v[i])
               j == i - 1
    <2>1. j \in 0 .. m /\ i \in 0 .. m /\ \A a : a \in 1 .. i <=> a \in 1 .. j \/ a = i
      BY <1>1
    <2>2. \A a \in 1 .. j : a \in 1 .. m /\ a # i
      BY <1>1
    <2>3. Holds(w, After(j))
      <3> HIDE DEF After
      <3> QED
        BY <1>6
    <2>4. x \in Item /\ x.element.TxID = t /\ x.element.Index = i
      BY <1>2
    <2>5. x \notin After(j)
      <3>1. \A a \in 1 .. j : Entry(t, a, v[a]).element.Index = a
        BY <1>2, <2>2
      <3> HIDE DEF x, j
      <3> QED
        BY <2>2, <2>4, <3>1
    <2>6. After(i) = After(j) \cup {x}
      <3> HIDE DEF j
      <3> QED
        BY <2>1
    <2> HIDE DEF After, x
    <2>7. Holds(AddUtxo(w, x), After(i))
      BY <2>3, <2>4, <2>5, <2>6, AddHolds
    <2>8. AddRound(w, s[i], 0) = AddUtxo(w, x)
      BY <1>3 DEF AddRound, x
    <2>9. AddUtxo(w, x) \in Lists
      BY <2>7 DEF Holds
    <2> HIDE DEF s
    <2> QED
      BY <2>1, <2>7, <2>8, <2>9
  <1> HIDE DEF G, s
  <1>7. <<m, AddLoop!Fold(L, s, 0)>> \in G
    <2> HIDE DEF m, Item
    <2> QED
      BY <1>3, <1>5, <1>6, AddLoop!FoldPasses
  <1>8. Holds(AddLoop!Fold(L, s, 0), After(m))
    <2> HIDE DEF After
    <2> QED
      BY <1>7 DEF G
  <1> QED
    BY <1>8 DEF s

\* A transaction is stored with the outputs that were read, and its entries
\* are those that become unspent.
LEMMA PersistStep ==
  ASSUME CInv, NEW wire \in Wires, Persist(wire)
  PROVE  CInv'
  <1> DEFINE v == ReadList("output", wire).val
             A == accepted
             n == Len(accepted) + 1
             B == Append(A, v)
             s == [i \in 1 .. Len(v) |-> Entry(n, i, v[i])]
             new == {Entry(n, i, v[i]) : i \in 1 .. Len(v)}
  <1>1. A \in Seq(Seq(Outputs)) /\ Len(txs) = Len(A) /\ n \in Nat
    BY DEF CInv, TxsInv
  <1>2. v \in Seq(Outputs)
    <2>1. wire \in PeerStreams
      BY WiresAssumption DEF PeerStreams, Byte
    <2>2. ReadList("output", wire).ok
      BY DEF Persist
    <2> QED
      BY <2>1, <2>2, WireRead
  <1>3. accepted' = B
    BY DEF Persist
  <1>4. txs' = Append(txs, Written("output", v))
    <2>1. txs' = Append(txs, WriteList([i \in 1 .. Len(v) |-> SerializeOutput(v[i])]))
      BY DEF Persist
    <2>2. Written("output", v) = WriteList([i \in 1 .. Len(v) |-> SerializeOutput(v[i])])
      BY DEF Written, Serialize
    <2> QED
      BY <2>1, <2>2
  <1>5. lists' = AddLoop!Fold(lists, s, 0)
    <2>1. s = [i \in 1 .. Len(v) |->
                 [key |-> Key(v[i]), element |-> Utxo(Len(txs) + 1, i, v[i])]]
      BY <1>1 DEF Entry
    <2>2. lists' = FoldLeft(LAMBDA w, x : AddUtxo(w, x), lists, s)
      BY <2>1 DEF Persist
    <2> HIDE DEF s
    <2> QED
      BY <2>2, LoopsAreFolds
  <1>6. spent' = spent /\ records' = records /\ registered' = registered
    BY DEF Persist
  <1> HIDE DEF v
  <1>7. /\ B \in Seq(Seq(Outputs)) /\ Len(B) = n
        /\ Outs(A) \subseteq Outs(B)
        /\ \A p \in Outs(A) : EntryOf(B, p) = EntryOf(A, p) /\ p[1] # n
        /\ \A p \in Outs(B) \ Outs(A) : p[1] = n /\ p[2] \in 1 .. Len(v)
        /\ \A i \in 1 .. Len(v) :
             <<n, i>> \in Outs(B) /\ EntryOf(B, <<n, i>>) = Entry(n, i, v[i])
    BY <1>1, <1>2, AppendOuts
  <1>8. spent \subseteq Outs(A)
    BY DEF CInv, TxsInv
  <1>9. TxsInv'
    <2> DEFINE w == Written("output", v)
    <2>1. w \in Streams
      <3>1. v \in Seq(Kept("output"))
        BY <1>2 DEF Kept
      <3> QED
        BY <3>1, ListReadsBack
    <2>2. /\ txs \in Seq(Streams)
          /\ \A t \in 1 .. Len(A) : txs[t] = Written("output", A[t])
      BY DEF CInv, TxsInv
    <2> HIDE DEF w
    <2>3. /\ txs' \in Seq(Streams) /\ Len(txs') = n /\ txs'[n] = w
          /\ \A t \in 1 .. Len(A) : txs'[t] = txs[t]
      BY <1>1, <1>4, <2>1, <2>2, AppendProperties DEF w
    <2>4. /\ B[n] = v /\ \A t \in 1 .. Len(A) : B[t] = A[t]
          /\ \A t \in 1 .. n : t \in 1 .. Len(A) \/ t = n
      BY <1>1, <1>2, AppendProperties
    <2>5. \A t \in 1 .. n : txs'[t] = Written("output", B[t])
      BY <2>2, <2>3, <2>4 DEF w
    <2> HIDE DEF B
    <2> QED
      BY <1>3, <1>6, <1>7, <1>8, <2>3, <2>5 DEF TxsInv
  <1>10. Entries(B, spent) = Entries(A, spent) \cup new
    <2> HIDE DEF B, n
    <2>1. ASSUME NEW p \in Outs(B) \ spent
          PROVE  EntryOf(B, p) \in Entries(A, spent) \cup new
      <3>1. CASE p \in Outs(A)
        BY <1>7, <3>1 DEF Entries
      <3>2. CASE p \notin Outs(A)
        <4>1. p = <<n, p[2]>> /\ p[2] \in 1 .. Len(v)
          <5>1. p \in Nat \X Nat
            BY DEF Outs
          <5> QED
            BY <1>7, <3>2, <5>1
        <4>2. EntryOf(B, p) = Entry(n, p[2], v[p[2]])
          BY <1>7, <4>1
        <4> QED
          BY <4>1, <4>2
      <3> QED
        BY <3>1, <3>2
    <2>2. ASSUME NEW p \in Outs(A) \ spent
          PROVE  EntryOf(A, p) \in Entries(B, spent)
      BY <1>7 DEF Entries
    <2>3. ASSUME NEW i \in 1 .. Len(v)
          PROVE  Entry(n, i, v[i]) \in Entries(B, spent)
      <3> DEFINE p == <<n, i>>
      <3>1. p[1] = n /\ p \in Outs(B) /\ EntryOf(B, p) = Entry(n, i, v[i])
        BY <1>7
      <3> HIDE DEF p
      <3>2. p \notin spent
        BY <1>7, <1>8, <3>1
      <3> QED
        BY <3>1, <3>2 DEF Entries
    <2> QED
      BY <2>1, <2>2, <2>3 DEF Entries
  <1>11. Holds(lists', Entries(B, spent))
    <2>1. Holds(lists, Entries(A, spent))
      BY DEF CInv
    <2>2. \A d \in Entries(A, spent) : d.element.TxID # n
      <3>1. ASSUME NEW p \in Outs(A)
            PROVE  EntryOf(A, p).element.TxID # n
        <4>1. p[1] \in Nat /\ p[2] \in Nat /\ A[p[1]][p[2]] \in Outputs
          BY <1>1, OutsType
        <4>2. EntryOf(A, p).element.TxID = p[1]
          BY <4>1, EntryType DEF EntryOf, Entry
        <4> QED
          BY <1>7, <4>2
      <3> QED
        BY <3>1 DEF Entries
    <2> HIDE DEF n
    <2>3. ASSUME NEW D, Holds(lists, D), \A d \in D : d.element.TxID # n
          PROVE  Holds(AddLoop!Fold(lists, s, 0), D \cup new)
      <3> HIDE DEF A, B
      <3>1. n \in Nat
        BY <1>1
      <3> QED
        BY SMTT(30), <1>2, <2>3, <3>1, AddAllHolds
    <2>4. Holds(AddLoop!Fold(lists, s, 0), Entries(A, spent) \cup new)
      <3> HIDE DEF s, new
      <3> QED
        BY <2>1, <2>2, <2>3
    <2> QED
      BY <1>5, <1>10, <2>4
  <1>12. AssetsInv'
    BY <1>6 DEF CInv, AssetsInv
  <1> QED
    BY <1>3, <1>6, <1>9, <1>11, <1>12 DEF CInv

\* The element that a spending finds is the one of the output, and its entry
\* is the only one that goes.
LEMMA SpendStep ==
  ASSUME CInv, NEW t \in DOMAIN txs, NEW i \in 1 .. Head(txs[t]), Spend(t, i)
  PROVE  CInv'
  <1> DEFINE A == accepted
             o == accepted[t][i]
             k == Key(o)
             e == ElementsAt(lists, k)
             p == <<t, i>>
  <1>1. /\ A \in Seq(Seq(Outputs)) /\ spent \subseteq Outs(A)
        /\ Holds(lists, Entries(A, spent)) /\ lists \in Lists
    BY DEF CInv, TxsInv, Holds
  <1>2. GetOutputs(t).val = A[t]
    BY StoredTxRead DEF CInv
  <1>3. /\ GetUnspentElements(lists, k).ok /\ GetUnspentElements(lists, k).val = e
    <2>1. GetUnspentElements(lists, k).ok
      BY <1>2 DEF Spend
    <2> QED
      BY <1>1, <2>1, StoredListRead
  <1>4. PICK j \in 1 .. Len(e) :
          /\ e[j].TxID = t /\ e[j].Index = i
          /\ lists' = PersistUnspents(lists, k, Front([e EXCEPT ![j] = Last(e)]))
    <2> HIDE DEF e
    <2> QED
      BY <1>2, <1>3 DEF Spend
  <1>5. spent' = spent \cup {p} /\ UNCHANGED <<txs, records, accepted, registered>>
    BY DEF Spend
  <1> DEFINE d == [key |-> k, element |-> e[j]]
  <1>6. k \in Keys
    <2>1. k \in DOMAIN lists
      <3> HIDE DEF k
      <3>1. CASE k \notin DOMAIN lists
        <4>1. e = << >>
          BY <3>1 DEF ElementsAt
        <4> HIDE DEF e
        <4> QED
          BY <1>4, <4>1
      <3> QED
        BY <3>1
    <2> HIDE DEF k
    <2> QED
      BY <1>1, <2>1 DEF Lists
  <1>7. d \in Entries(A, spent)
    <2> HIDE DEF k
    <2> QED
      BY <1>1, <1>4, <1>6 DEF Holds
  <1>8. PICK q \in Outs(A) \ spent : d = EntryOf(A, q)
    BY <1>7 DEF Entries
  <1>9. /\ q[1] \in Nat /\ q[2] \in Nat /\ q = <<q[1], q[2]>>
        /\ A[q[1]][q[2]] \in Outputs
    BY <1>1, OutsType
  <1>10. d.element.TxID = q[1] /\ d.element.Index = q[2]
    <2> HIDE DEF d
    <2> QED
      BY <1>8, <1>9, EntryType DEF EntryOf, Entry
  <1>11. q = p
    <2>1. d.element = e[j]
      OBVIOUS
    <2> HIDE DEF d, e
    <2> QED
      BY <1>4, <1>9, <1>10, <2>1
  <1>12. Entries(A, spent \cup {p}) = Entries(A, spent) \ {d}
    <2> HIDE DEF d, p
    <2>1. ASSUME NEW r \in Outs(A) \ (spent \cup {p})
          PROVE  EntryOf(A, r) \in Entries(A, spent) \ {d}
      <3>1. r # q
        BY <1>11
      <3>2. EntryOf(A, r) # d
        BY <1>1, <1>8, <3>1, EntryInjective
      <3> QED
        BY <3>2 DEF Entries
    <2>2. ASSUME NEW r \in Outs(A) \ spent, EntryOf(A, r) # d
          PROVE  EntryOf(A, r) \in Entries(A, spent \cup {p})
      BY <1>8, <1>11, <2>2 DEF Entries
    <2> QED
      BY <2>1, <2>2 DEF Entries
  <1>13. Holds(lists', Entries(A, spent) \ {d})
    <2>1. Holds(PersistUnspents(lists, k, Front([e EXCEPT ![j] = Last(e)])),
                Entries(A, spent) \ {d})
      <3> HIDE DEF k
      <3> QED
        BY <1>1, <1>6, SpendHolds
    <2> QED
      BY <1>4, <2>1
  <1>14. TxsInv'
    <2>1. spent' \subseteq Outs(A)
      <3> HIDE DEF p
      <3> QED
        BY <1>1, <1>5, <1>11
    <2> QED
      BY <1>5, <2>1 DEF CInv, TxsInv
  <1>15. AssetsInv'
    BY <1>5 DEF CInv, AssetsInv
  <1> HIDE DEF d, p
  <1> QED
    BY <1>5, <1>12, <1>13, <1>14, <1>15 DEF CInv

\* A registered asset gets its record, and no record goes.
LEMMA AssetStep ==
  ASSUME CInv, NEW a \in Registrations, PersistAsset(a)
  PROVE  CInv'
  <1>1. /\ a.Name # ElaName /\ records' = records \cup {SerializeAsset(a)}
        /\ registered' = registered \cup {a} /\ UNCHANGED <<txs, lists, accepted, spent>>
    BY DEF PersistAsset
  <1>2. a \in [Name : Nat, Height : Nat]
    BY RegistrationsAssumption
  <1>3. AssetsInv'
    BY <1>1, <1>2 DEF CInv, AssetsInv
  <1>4. TxsInv' /\ Holds(lists, Entries(accepted, spent))'
    BY <1>1 DEF CInv, TxsInv
  <1> QED
    BY <1>3, <1>4 DEF CInv

\* The invariant of the store of encodings: it holds at first, and storing a
\* transaction, spending an output and registering an asset all keep it
\* (persistUnspendUTXOs and PersistAsset of chainstore.go).
THEOREM CodecInvariant == CodecSpec => []CInv
  <1>1. CInv /\ [CodecNext]_codecVars => CInv'
    <2> SUFFICES ASSUME CInv, [CodecNext]_codecVars PROVE CInv'
      OBVIOUS
    <2>1. CASE \E wire \in Wires : Persist(wire)
      BY <2>1, PersistStep
    <2>2. CASE \E t \in DOMAIN txs : \E i \in 1 .. Head(txs[t]) : Spend(t, i)
      BY <2>2, SpendStep
    <2>3. CASE \E a \in Registrations : PersistAsset(a)
      BY <2>3, AssetStep
    <2>4. CASE UNCHANGED codecVars
      <3>1. UNCHANGED <<txs, lists, records, accepted, spent, registered>>
        BY <2>4 DEF codecVars
      <3>2. TxsInv' /\ AssetsInv' /\ Holds(lists, Entries(accepted, spent))'
        BY <3>1 DEF CInv, TxsInv, AssetsInv
      <3> QED
        BY <3>2 DEF CInv
    <2> QED
      BY <2>1, <2>2, <2>3, <2>4 DEF CodecNext
  <1> QED
    BY <1>1, CodecStart, PTL DEF CodecSpec

\* A stored transaction reads back as the outputs that came from the peer,
\* whatever bytes of whatever amounts it sent (outputhelper.go).
THEOREM CodecTransactionsReadBack == CodecSpec => []TransactionsReadBack
  <1>1. CInv => TransactionsReadBack
    BY StoredTxRead DEF CInv, TransactionsReadBack
  <1> QED
    BY <1>1, CodecInvariant, PTL

\* What the lists L show, and what is unspent of the outputs A without S.
Shown(k, u) == <<k, u.TxID, u.Index, Worth(u)>>

ShownBy(L) ==
  UNION {{Shown(k, u) : u \in ToSet(GetUnspentElements(L, k).val)} : k \in DOMAIN L}

Accepted(A, t, i) == <<Key(A[t][i]), t, i, A[t][i].Value>>

Unspent(A, S) ==
  UNION {{Accepted(A, t, i) : i \in {j \in DOMAIN A[t] : <<t, j>> \notin S}} : t \in DOMAIN A}

\* Lists that hold the entries of the unspent outputs show those outputs.
LEMMA ListsShowOutputs ==
  ASSUME NEW L, NEW A \in Seq(Seq(Outputs)), NEW S, Holds(L, Entries(A, S))
  PROVE  ShownBy(L) = Unspent(A, S)
  <1> DEFINE D == Entries(A, S)
  <1>1. /\ L \in Lists /\ DOMAIN L \subseteq Keys
        /\ D \subseteq [key : Keys, element : Elements]
        /\ \A k \in Keys :
             /\ \A j \in 1 .. Len(ElementsAt(L, k)) : [key |-> k, element |-> ElementsAt(L, k)[j]] \in D
             /\ \A d \in D : d.key = k =>
                  \E j \in 1 .. Len(ElementsAt(L, k)) : ElementsAt(L, k)[j] = d.element
    BY DEF Holds, Lists
  <1>2. \A k \in DOMAIN L : /\ GetUnspentElements(L, k).val = ElementsAt(L, k)
                            /\ ElementsAt(L, k) \in Seq(Elements)
    BY <1>1, StoredListRead DEF ElementsAt
  <1>3. \A k \in DOMAIN L : \A u : u \in ToSet(GetUnspentElements(L, k).val)
                                   <=> \E j \in 1 .. Len(ElementsAt(L, k)) : u = ElementsAt(L, k)[j]
    BY <1>2 DEF ToSet
  <1>4. ASSUME NEW p \in Outs(A)
        PROVE  Shown(EntryOf(A, p).key, EntryOf(A, p).element) = Accepted(A, p[1], p[2])
    <2> DEFINE o == A[p[1]][p[2]]
    <2>1. o \in Outputs /\ p[1] \in Nat /\ p[2] \in Nat
      BY OutsType
    <2>2. EntryOf(A, p).key = Key(o) /\ EntryOf(A, p).element = Utxo(p[1], p[2], o)
      BY DEF EntryOf, Entry
    <2>3. Accepted(A, p[1], p[2]) = <<Key(o), p[1], p[2], o.Value>>
      BY DEF Accepted
    <2> HIDE DEF o
    <2>4. /\ Worth(Utxo(p[1], p[2], o)) = o.Value
          /\ Utxo(p[1], p[2], o).TxID = p[1] /\ Utxo(p[1], p[2], o).Index = p[2]
      BY <2>1, EntryType
    <2> QED
      BY <2>2, <2>3, <2>4 DEF Shown
  <1>5. ASSUME NEW k \in DOMAIN L, NEW u \in ToSet(GetUnspentElements(L, k).val)
        PROVE  \E t \in DOMAIN A : \E i \in {j \in DOMAIN A[t] : <<t, j>> \notin S} :
                 Shown(k, u) = Accepted(A, t, i)
    <2>1. PICK j \in 1 .. Len(ElementsAt(L, k)) : u = ElementsAt(L, k)[j]
      BY <1>3
    <2>2. [key |-> k, element |-> u] \in D
      BY <1>1, <2>1
    <2>3. PICK p \in Outs(A) \ S : [key |-> k, element |-> u] = EntryOf(A, p)
      BY <2>2 DEF Entries
    <2>4. EntryOf(A, p).key = k /\ EntryOf(A, p).element = u
      <3> HIDE DEF D
      <3> QED
        BY <2>3
    <2>5. p[1] \in DOMAIN A /\ p[2] \in DOMAIN A[p[1]] /\ p = <<p[1], p[2]>>
      BY OutsType
    <2>6. Shown(k, u) = Accepted(A, p[1], p[2])
      BY <1>4, <2>4
    <2> QED
      BY <2>3, <2>5, <2>6
  <1>6. ASSUME NEW t \in DOMAIN A, NEW i \in DOMAIN A[t], <<t, i>> \notin S
        PROVE  \E k \in DOMAIN L : \E u \in ToSet(GetUnspentElements(L, k).val) :
                 Accepted(A, t, i) = Shown(k, u)
    <2> DEFINE p == <<t, i>>
               k == EntryOf(A, p).key
               u == EntryOf(A, p).element
    <2>1. p \in Outs(A)
      <3>1. t \in 1 .. Len(A) /\ A[t] \in Seq(Outputs) /\ i \in 1 .. Len(A[t])
        OBVIOUS
      <3> QED
        BY <3>1 DEF Outs
    <2>2. EntryOf(A, p) \in D
      BY <1>6, <2>1 DEF Entries
    <2>3. k \in Keys
      BY <1>1, <2>2
    <2>4. PICK j \in 1 .. Len(ElementsAt(L, k)) : ElementsAt(L, k)[j] = u
      BY <1>1, <2>2, <2>3
    <2> HIDE DEF k, u
    <2>5. k \in DOMAIN L
      <3>1. CASE k \notin DOMAIN L
        <4>1. Len(ElementsAt(L, k)) = 0
          BY <3>1 DEF ElementsAt
        <4> QED
          BY <2>4, <4>1
      <3> QED
        BY <3>1
    <2>6. u \in ToSet(GetUnspentElements(L, k).val)
      BY <1>3, <2>4, <2>5
    <2>7. Shown(k, u) = Accepted(A, t, i)
      <3>1. p[1] = t /\ p[2] = i
        OBVIOUS
      <3> HIDE DEF p
      <3> QED
        BY <1>4, <2>1, <3>1 DEF k, u
    <2> QED
      BY <2>5, <2>6, <2>7
  <1>7. ASSUME NEW x \in ShownBy(L)
        PROVE  x \in Unspent(A, S)
    <2>1. \E k \in DOMAIN L : \E u \in ToSet(GetUnspentElements(L, k).val) : x = Shown(k, u)
      BY DEF ShownBy
    <2>2. \E t \in DOMAIN A : \E i \in {j \in DOMAIN A[t] : <<t, j>> \notin S} :
            x = Accepted(A, t, i)
      BY <1>5, <2>1
    <2>3. PICK t \in DOMAIN A : x \in {Accepted(A, t, i) : i \in {j \in DOMAIN A[t] : <<t, j>> \notin S}}
      BY <2>2
    <2> QED
      BY <2>3 DEF Unspent
  <1>8. ASSUME NEW x \in Unspent(A, S)
        PROVE  x \in ShownBy(L)
    <2>1. \E t \in DOMAIN A : \E i \in {j \in DOMAIN A[t] : <<t, j>> \notin S} :
            x = Accepted(A, t, i)
      BY DEF Unspent
    <2> QED
      BY <1>6, <2>1 DEF ShownBy
  <1> QED
    BY <1>7, <1>8

\* What the store wrote it can read: every list, with exactly the unspent
\* outputs and their worth, and the record of every asset (PersistUnspents and
\* PersistAsset of chainstore.go, the record of ELA by the base library).
THEOREM CodecRecordsReadBack == CodecSpec => []RecordsReadBack
  <1>1. CInv => RecordsReadBack
    <2> SUFFICES ASSUME CInv PROVE RecordsReadBack
      OBVIOUS
    <2>1. \A k \in DOMAIN lists : GetUnspentElements(lists, k).ok
      BY StoredListRead DEF CInv, Holds
    <2>2. ShownBy(lists) = Unspent(accepted, spent)
      <3>1. accepted \in Seq(Seq(Outputs)) /\ Holds(lists, Entries(accepted, spent))
        BY DEF CInv, TxsInv
      <3> QED
        BY <3>1, ListsShowOutputs
    <2>3. ASSUME NEW a \in registered
          PROVE  \E r \in records :
                   DeserializeAsset(r) = [Name |-> a.Name, Height |-> a.Height, ok |-> TRUE]
      <3>1. a \in [Name : Nat, Height : Nat]
        BY DEF CInv, AssetsInv
      <3>2. CASE a.Name = ElaName
        <4>1. a.Height = 0 /\ <<ElaName>> \in records
          BY <3>2 DEF CInv, AssetsInv
        <4>2. DeserializeAsset(<<ElaName>>) = [Name |-> ElaName, Height |-> 0, ok |-> TRUE]
          BY DEF DeserializeAsset
        <4> QED
          BY <3>2, <4>1, <4>2
      <3>3. CASE a.Name # ElaName
        <4>1. SerializeAsset(a) \in records
          BY <3>3 DEF CInv, AssetsInv
        <4>2. /\ Head(<<a.Name, a.Height>>) = a.Name
              /\ Tail(<<a.Name, a.Height>>) = <<a.Height>>
              /\ <<a.Height>> # << >> /\ Head(<<a.Height>>) = a.Height
          BY <3>1
        <4>3. ReadField(Tail(SerializeAsset(a))).val = a.Height
              /\ ReadField(Tail(SerializeAsset(a))).ok
          BY <4>2 DEF SerializeAsset, ReadField
        <4>4. DeserializeAsset(SerializeAsset(a))
              = [Name |-> a.Name, Height |-> a.Height, ok |-> TRUE]
          BY <3>3, <4>2, <4>3 DEF DeserializeAsset, SerializeAsset
        <4> QED
          BY <4>1, <4>4
      <3> QED
        BY <3>2, <3>3
    <2> QED
      BY <2>1, <2>2, <2>3 DEF RecordsReadBack, ShownBy, Shown, Unspent, Accepted
  <1> QED
    BY <1>1, CodecInvariant, PTL
=============================================================================
