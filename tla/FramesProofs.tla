---------------------------- MODULE FramesProofs ----------------------------
(***************************************************************************)
(* Proofs about modules WireFormat and Frames: a message is read from its  *)
(* bytes as it was written, and the receive loop reads the messages that   *)
(* were sent, whole and in order, whatever the pieces in which the bytes   *)
(* are moved and whatever the messages are.                                *)
(***************************************************************************)
EXTENDS Frames, SequenceTheorems, TLAPS

\* x is in q, from position p on.
Stands(q, p, x) ==
    /\ p \in Nat
    /\ p + Len(x) <= Len(q)
    /\ \A i \in 1..Len(x) : q[p + i] = x[i]

-----------------------------------------------------------------------------
(* Parts of a sequence.                                                    *)

LEMMA StandsConcat ==
    ASSUME NEW a \in Seq(Byte), NEW c \in Seq(Byte)
    PROVE  /\ a \o c \in Seq(Byte) /\ Len(a \o c) = Len(a) + Len(c)
           /\ Stands(a \o c, 0, a)
           /\ Stands(a \o c, Len(a), c)
  <1>1. /\ Len(a) \in Nat /\ Len(c) \in Nat
        /\ a \o c \in Seq(Byte) /\ Len(a \o c) = Len(a) + Len(c)
        /\ \A i \in 1..(Len(a) + Len(c)) :
              (a \o c)[i] = IF i <= Len(a) THEN a[i] ELSE c[i - Len(a)]
    BY ConcatProperties, LenProperties
  <1>2. \A i \in 1..Len(a) : (a \o c)[i] = a[i]
    BY <1>1
  <1>3. \A i \in 1..Len(c) : (a \o c)[Len(a) + i] = c[i]
    BY <1>1
  <1> QED
    BY <1>1, <1>2, <1>3 DEF Stands

\* What stands in a sequence stands in a longer one.
LEMMA StandsGrown ==
    ASSUME NEW a \in Seq(Byte), NEW c \in Seq(Byte), NEW p, NEW x \in Seq(Byte),
           Stands(a, p, x)
    PROVE  Stands(a \o c, p, x)
  <1>1. Len(a) \in Nat /\ Len(c) \in Nat /\ Len(x) \in Nat
    BY LenProperties
  <1>2. /\ Len(a \o c) = Len(a) + Len(c)
        /\ \A i \in 1..Len(a) : (a \o c)[i] = a[i]
    BY <1>1, ConcatProperties
  <1> QED
    BY <1>1, <1>2 DEF Stands

\* The parts of a part.
LEMMA StandsPart ==
    ASSUME NEW q \in Seq(Byte), NEW p, NEW x \in Seq(Byte), NEW k, NEW y \in Seq(Byte),
           Stands(q, p, x), Stands(x, k, y)
    PROVE  Stands(q, p + k, y)
  <1>1. Len(q) \in Nat /\ Len(x) \in Nat /\ Len(y) \in Nat
    BY LenProperties
  <1>2. /\ p \in Nat /\ p + Len(x) <= Len(q) /\ \A i \in 1..Len(x) : q[p + i] = x[i]
        /\ k \in Nat /\ k + Len(y) <= Len(x) /\ \A i \in 1..Len(y) : x[k + i] = y[i]
    BY DEF Stands
  <1>3. ASSUME NEW i \in 1..Len(y) PROVE q[(p + k) + i] = y[i]
    <2>1. k + i \in 1..Len(x) /\ p + (k + i) = (p + k) + i
      BY <1>1, <1>2
    <2>2. q[p + (k + i)] = x[k + i]
      BY <1>2, <2>1
    <2> QED
      BY <1>2, <2>1, <2>2
  <1>4. p + k \in Nat /\ (p + k) + Len(y) <= Len(q)
    BY <1>1, <1>2
  <1> QED
    BY <1>3, <1>4 DEF Stands

\* What stands there is what is read there.
LEMMA StandsIsSubSeq ==
    ASSUME NEW q \in Seq(Byte), NEW p, NEW x \in Seq(Byte), Stands(q, p, x)
    PROVE  SubSeq(q, p + 1, p + Len(x)) = x
  <1>1. Len(q) \in Nat /\ Len(x) \in Nat /\ p \in Nat
    BY LenProperties DEF Stands
  <1>2. \A i \in (p + 1)..(p + Len(x)) : q[i] \in Byte
    BY <1>1, ElementOfSeq DEF Stands
  <1> DEFINE s == SubSeq(q, p + 1, p + Len(x))
  <1>3. /\ s \in Seq(Byte)
        /\ Len(s) = IF p + 1 <= p + Len(x) THEN (p + Len(x)) - (p + 1) + 1 ELSE 0
        /\ \A i \in 1..((p + Len(x)) - (p + 1) + 1) : s[i] = q[(p + 1) + i - 1]
    <2>1. p + 1 \in Int /\ p + Len(x) \in Int
      BY <1>1
    <2> QED
      BY <1>2, <2>1, SubSeqProperties
  <1> HIDE DEF s
  <1>4. Len(s) = Len(x) /\ \A i \in 1..Len(x) : s[i] = q[p + i]
    BY <1>1, <1>3
  <1>5. s = x
    BY <1>3, <1>4, SeqEqual DEF Stands
  <1> QED
    BY <1>5 DEF s

-----------------------------------------------------------------------------
(* Numbers and fields.                                                     *)

LEMMA InRange ==
    ASSUME NEW x, NEW k \in Int
    PROVE  x \in 0..k <=> x \in Int /\ 0 <= x /\ x <= k
  OBVIOUS

LEMMA MaxIntBelow == MaxInt \in Nat /\ MaxInt < 2147483648 /\ 8 < MaxInt
  BY SMT DEF MaxInt

LEMMA IntRoundTrip ==
    ASSUME NEW n \in 0..MaxInt
    PROVE  /\ GetBytes(n) \in Seq(Byte) /\ Len(GetBytes(n)) = 4
           /\ ToInt32[GetBytes(n)] = n
  <1> DEFINE a == n % 256
             b == (n \div 256) % 256
             c == (n \div 65536) % 256
             d == n \div 16777216
  <1>1. n \in Int /\ 0 <= n /\ n < 2147483648
    BY MaxIntBelow, InRange, SMT
  <1>2. /\ a \in Int /\ 0 <= a /\ a <= 255
        /\ b \in Int /\ 0 <= b /\ b <= 255
        /\ c \in Int /\ 0 <= c /\ c <= 255
        /\ d \in Int /\ 0 <= d /\ d < 128
    BY <1>1, SMT
  <1>3. n = a + 256 * b + 65536 * c + 16777216 * d
    BY <1>1, SMT
  <1> HIDE DEF a, b, c, d
  <1>4. a \in Byte /\ b \in Byte /\ c \in Byte /\ d \in Byte
    BY <1>2, InRange, SMT DEF Byte
  <1>5. <<a, b, c, d>> \in [1..4 -> Byte] /\ <<a, b, c, d>> \in Seq(Byte)
        /\ Len(<<a, b, c, d>>) = 4
    BY <1>4, SMT
  <1>6. ToInt32[<<a, b, c, d>>] = a + 256 * b + 65536 * c + 16777216 * d
    BY <1>2, <1>5, SMT DEF ToInt32
  <1>7. GetBytes(n) = <<a, b, c, d>>
    BY <1>1, SMT DEF GetBytes, a, b, c, d
  <1> DEFINE t == <<a, b, c, d>>
  <1>8. /\ t \in Seq(Byte) /\ Len(t) = 4
        /\ ToInt32[t] = n /\ GetBytes(n) = t
    BY <1>3, <1>5, <1>6, <1>7
  <1> HIDE DEF t
  <1> QED
    BY <1>8

\* A number that stands in the bytes is read from them.
LEMMA IntIsRead ==
    ASSUME NEW b \in Seq(Byte), NEW p, NEW n \in 0..MaxInt, Stands(b, p, GetBytes(n))
    PROVE  IntAt(b, p) = n
  <1>1. GetBytes(n) \in Seq(Byte) /\ Len(GetBytes(n)) = 4 /\ ToInt32[GetBytes(n)] = n
    BY IntRoundTrip
  <1>2. SubSeq(b, p + 1, p + 4) = GetBytes(n)
    BY <1>1, StandsIsSubSeq
  <1> QED
    BY <1>1, <1>2 DEF IntAt

\* A string or an array behind its length.
Field(x) == GetBytes(Len(x)) \o x

LEMMA FieldBytes ==
    ASSUME NEW x \in Seq(Byte), Len(x) <= MaxInt
    PROVE  /\ Len(x) \in 0..MaxInt
           /\ Field(x) \in Seq(Byte) /\ Len(Field(x)) = 4 + Len(x)
           /\ Stands(Field(x), 0, GetBytes(Len(x)))
           /\ Stands(Field(x), 4, x)
  <1>1. Len(x) \in 0..MaxInt
    BY LenProperties, MaxIntBelow, InRange
  <1>2. GetBytes(Len(x)) \in Seq(Byte) /\ Len(GetBytes(Len(x))) = 4
    BY <1>1, IntRoundTrip
  <1> QED
    BY <1>1, <1>2, StandsConcat DEF Field

\* A field that stands in the bytes is read from them.
LEMMA FieldIsRead ==
    ASSUME NEW b \in Seq(Byte), NEW p, NEW x \in Seq(Byte), Len(x) <= MaxInt,
           Stands(b, p, Field(x))
    PROVE  HasField(b, p) /\ Ends(b, p) = p + 4 + Len(x) /\ DataAt(b, p) = x
  <1>1. /\ Len(x) \in 0..MaxInt
        /\ Field(x) \in Seq(Byte) /\ Len(Field(x)) = 4 + Len(x)
        /\ Stands(Field(x), 0, GetBytes(Len(x))) /\ Stands(Field(x), 4, x)
    BY FieldBytes
  <1>2. GetBytes(Len(x)) \in Seq(Byte)
    BY <1>1, IntRoundTrip
  <1>3. Stands(b, p + 0, GetBytes(Len(x))) /\ Stands(b, p + 4, x)
    BY <1>1, <1>2, StandsPart
  <1>4. p \in Nat /\ Len(b) \in Nat /\ Len(x) \in Nat /\ p + 4 + Len(x) <= Len(b)
    BY <1>1, LenProperties DEF Stands
  <1>5. IntAt(b, p) = Len(x)
    BY <1>1, <1>3, <1>4, IntIsRead
  <1>6. Ends(b, p) = p + 4 + Len(x)
    BY <1>5 DEF Ends
  <1>7. SubSeq(b, (p + 4) + 1, (p + 4) + Len(x)) = x
    BY <1>3, StandsIsSubSeq
  <1>8. DataAt(b, p) = x
    BY <1>4, <1>6, <1>7 DEF DataAt
  <1>9. HasField(b, p)
    BY <1>4, <1>5 DEF HasField
  <1> QED
    BY <1>6, <1>8, <1>9

\* Messages in which nothing is null, and their fields one after the other, as
\* both libraries write them.
Filleds ==
    [type : 0..7, correlationId : Seq(Byte), reciever : Seq(Byte), sender : Seq(Byte),
     noAck : BOOLEAN, payload : Seq(Byte)]

Written(m) ==
    GetBytes(m.type) \o Field(m.correlationId) \o Field(m.reciever)
        \o Field(m.sender) \o Flag(m.noAck) \o Field(m.payload)

LEMMA FlagByte ==
    ASSUME NEW f \in BOOLEAN
    PROVE  Flag(f) \in Seq(Byte) /\ Len(Flag(f)) = 1 /\ (Flag(f)[1] = 1 <=> f)
  <1>1. 0 \in Byte /\ 1 \in Byte
    BY SMT DEF Byte
  <1>2. CASE f
    <2>1. Flag(f) = <<1>>
      BY <1>2 DEF Flag
    <2>2. Flag(f) \in Seq(Byte) /\ Len(Flag(f)) = 1 /\ Flag(f)[1] = 1
      BY <1>1, <2>1
    <2> QED
      BY <1>2, <2>2
  <1>3. CASE ~f
    <2>1. Flag(f) = <<0>>
      BY <1>3 DEF Flag
    <2>2. Flag(f) \in Seq(Byte) /\ Len(Flag(f)) = 1 /\ Flag(f)[1] # 1
      BY <1>1, <2>1
    <2> QED
      BY <1>3, <2>2
  <1> QED
    BY <1>2, <1>3

LEMMA LengthsAdd ==
    ASSUME NEW a \in Seq(Int), NEW c \in Seq(Int)
    PROVE  a \o c \in Seq(Int) /\ Len(a \o c) = Len(a) + Len(c)
  BY ConcatProperties

LEMMA BytesAreInts ==
    ASSUME NEW x \in Seq(Byte)
    PROVE  x \in Seq(Int) /\ Len(x) \in Nat
  <1>1. ASSUME NEW k \in Byte PROVE k \in Int
    <2>1. 255 \in Int
      OBVIOUS
    <2> QED
      BY <2>1, <1>1, InRange DEF Byte
  <1> QED
    BY <1>1

LEMMA WrittenIsRead ==
    ASSUME NEW m \in Filleds, Len(Written(m)) <= MaxInt
    PROVE  Written(m) \in Seq(Byte) /\ IsBody(Written(m)) /\ Parsed(Written(m)) = m
  <1> DEFINE t == m.type  f == m.noAck
             x1 == m.correlationId  x2 == m.reciever  x3 == m.sender  x4 == m.payload
  <1>fields. /\ t \in 0..7 /\ f \in BOOLEAN
             /\ x1 \in Seq(Byte) /\ x2 \in Seq(Byte)
             /\ x3 \in Seq(Byte) /\ x4 \in Seq(Byte)
             /\ m = [type |-> t, correlationId |-> x1, reciever |-> x2, sender |-> x3,
                     noAck |-> f, payload |-> x4]
    BY DEF Filleds
  <1>bytes. Written(m) = GetBytes(t) \o Field(x1) \o Field(x2) \o Field(x3)
                             \o Flag(f) \o Field(x4)
    BY DEF Written
  <1> HIDE DEF t, f, x1, x2, x3, x4
  <1> USE <1>fields
  <1> DEFINE n1 == Len(x1)  n2 == Len(x2)  n3 == Len(x3)  n4 == Len(x4)
             b1 == GetBytes(t) \o Field(x1)
             b2 == b1 \o Field(x2)
             b3 == b2 \o Field(x3)
             b4 == b3 \o Flag(f)
             b5 == b4 \o Field(x4)
  <1>1. /\ n1 \in Nat /\ n2 \in Nat /\ n3 \in Nat /\ n4 \in Nat
        /\ 21 + n1 + n2 + n3 + n4 <= MaxInt
    <2>1. n1 \in Nat /\ n2 \in Nat /\ n3 \in Nat /\ n4 \in Nat
      BY LenProperties
    <2>2. Len(Written(m)) = 21 + n1 + n2 + n3 + n4
      <3>1. ASSUME NEW n \in Nat PROVE GetBytes(n) \in Seq(Int) /\ Len(GetBytes(n)) = 4
        BY SMT DEF GetBytes
      <3>2. ASSUME NEW x \in Seq(Byte)
            PROVE  Len(x) \in Nat /\ Field(x) \in Seq(Int) /\ Len(Field(x)) = 4 + Len(x)
        <4>1. x \in Seq(Int) /\ Len(x) \in Nat
          BY BytesAreInts
        <4>2. GetBytes(Len(x)) \in Seq(Int) /\ Len(GetBytes(Len(x))) = 4
          BY <3>1, <4>1
        <4> QED
          BY <4>1, <4>2, LengthsAdd DEF Field
      <3>3. Flag(f) \in Seq(Int) /\ Len(Flag(f)) = 1
        BY FlagByte, BytesAreInts
      <3>4. GetBytes(t) \in Seq(Int) /\ Len(GetBytes(t)) = 4
        BY <3>1
      <3> DEFINE f1 == Field(x1)  f2 == Field(x2)  f3 == Field(x3)  f4 == Field(x4)
                 c1 == GetBytes(t) \o f1
                 c2 == c1 \o f2
                 c3 == c2 \o f3
                 c4 == c3 \o Flag(f)
                 c5 == c4 \o f4
      <3>5. /\ n1 \in Nat /\ f1 \in Seq(Int) /\ Len(f1) = 4 + n1
            /\ n2 \in Nat /\ f2 \in Seq(Int) /\ Len(f2) = 4 + n2
            /\ n3 \in Nat /\ f3 \in Seq(Int) /\ Len(f3) = 4 + n3
            /\ n4 \in Nat /\ f4 \in Seq(Int) /\ Len(f4) = 4 + n4
        BY <3>2
      <3> HIDE DEF n1, n2, n3, n4, f1, f2, f3, f4
      <3>6. c1 \in Seq(Int) /\ Len(c1) = 4 + (4 + n1)
        BY <3>4, <3>5, LengthsAdd
      <3> HIDE DEF c1
      <3>7. c2 \in Seq(Int) /\ Len(c2) = (4 + (4 + n1)) + (4 + n2)
        BY <3>5, <3>6, LengthsAdd
      <3> HIDE DEF c2
      <3>8. c3 \in Seq(Int) /\ Len(c3) = ((4 + (4 + n1)) + (4 + n2)) + (4 + n3)
        BY <3>5, <3>7, LengthsAdd
      <3> HIDE DEF c3
      <3>9. c4 \in Seq(Int) /\ Len(c4) = (((4 + (4 + n1)) + (4 + n2)) + (4 + n3)) + 1
        BY <3>3, <3>8, LengthsAdd
      <3> HIDE DEF c4
      <3>10. Len(c5) = ((((4 + (4 + n1)) + (4 + n2)) + (4 + n3)) + 1) + (4 + n4)
        BY <3>5, <3>9, LengthsAdd
      <3> HIDE DEF c5
      <3>11. Len(c5) = 21 + n1 + n2 + n3 + n4
        BY <3>5, <3>10
      <3>12. Written(m) = c5
        BY <1>bytes DEF c1, c2, c3, c4, c5, f1, f2, f3, f4
      <3> QED
        BY <3>11, <3>12 DEF n1, n2, n3, n4
    <2> QED
      BY <2>1, <2>2
  <1>2. /\ Len(x1) <= MaxInt /\ Len(x2) <= MaxInt
        /\ Len(x3) <= MaxInt /\ Len(x4) <= MaxInt
    BY <1>1, MaxIntBelow
  <1>3. /\ Field(x1) \in Seq(Byte) /\ Len(Field(x1)) = 4 + n1
        /\ Field(x2) \in Seq(Byte) /\ Len(Field(x2)) = 4 + n2
        /\ Field(x3) \in Seq(Byte) /\ Len(Field(x3)) = 4 + n3
        /\ Field(x4) \in Seq(Byte) /\ Len(Field(x4)) = 4 + n4
    BY <1>2, FieldBytes
  <1>4. t \in 0..MaxInt
    BY MaxIntBelow
  <1>5. GetBytes(t) \in Seq(Byte) /\ Len(GetBytes(t)) = 4
    BY <1>4, IntRoundTrip
  <1>6. Flag(f) \in Seq(Byte) /\ Len(Flag(f)) = 1 /\ (Flag(f)[1] = 1 <=> f)
    BY FlagByte
  <1> HIDE DEF n1, n2, n3, n4
  <1>7. /\ b1 \in Seq(Byte) /\ Len(b1) = 8 + n1
        /\ Stands(b1, 0, GetBytes(t))
        /\ Stands(b1, 4, Field(x1))
    <2>1. GetBytes(t) \in Seq(Byte) /\ Len(GetBytes(t)) = 4
      BY <1>3, <1>5, <1>6
    <2>2. /\ b1 \in Seq(Byte) /\ Len(b1) = Len(GetBytes(t)) + Len(Field(x1))
          /\ Stands(b1, Len(GetBytes(t)), Field(x1))
      BY <1>3, <1>6, <2>1, StandsConcat
    <2>3. Stands(b1, 0, GetBytes(t))
      BY <1>3, <2>1, StandsConcat
    <2> QED
      BY <1>1, <1>3, <1>6, <2>1, <2>2, <2>3
  <1> HIDE DEF b1
  <1>8. /\ b2 \in Seq(Byte) /\ Len(b2) = 12 + n1 + n2
        /\ Stands(b2, 0, GetBytes(t))
        /\ Stands(b2, 4, Field(x1))
        /\ Stands(b2, 8 + n1, Field(x2))
    <2>1. b1 \in Seq(Byte) /\ Len(b1) = 8 + n1
      BY <1>3, <1>5, <1>6, <1>7
    <2>2. /\ b2 \in Seq(Byte) /\ Len(b2) = Len(b1) + Len(Field(x2))
          /\ Stands(b2, Len(b1), Field(x2))
      BY <1>3, <1>6, <2>1, StandsConcat
    <2>3. /\ Stands(b2, 0, GetBytes(t))
          /\ Stands(b2, 4, Field(x1))
      BY <1>3, <1>5, <1>6, <1>7, StandsGrown
    <2> QED
      BY <1>1, <1>3, <1>6, <2>1, <2>2, <2>3
  <1> HIDE DEF b2
  <1>9. /\ b3 \in Seq(Byte) /\ Len(b3) = 16 + n1 + n2 + n3
        /\ Stands(b3, 0, GetBytes(t))
        /\ Stands(b3, 4, Field(x1))
        /\ Stands(b3, 8 + n1, Field(x2))
        /\ Stands(b3, 12 + n1 + n2, Field(x3))
    <2>1. b2 \in Seq(Byte) /\ Len(b2) = 12 + n1 + n2
      BY <1>3, <1>5, <1>6, <1>8
    <2>2. /\ b3 \in Seq(Byte) /\ Len(b3) = Len(b2) + Len(Field(x3))
          /\ Stands(b3, Len(b2), Field(x3))
      BY <1>3, <1>6, <2>1, StandsConcat
    <2>3. /\ Stands(b3, 0, GetBytes(t))
          /\ Stands(b3, 4, Field(x1))
          /\ Stands(b3, 8 + n1, Field(x2))
      BY <1>3, <1>5, <1>6, <1>8, StandsGrown
    <2> QED
      BY <1>1, <1>3, <1>6, <2>1, <2>2, <2>3
  <1> HIDE DEF b3
  <1>10. /\ b4 \in Seq(Byte) /\ Len(b4) = 17 + n1 + n2 + n3
         /\ Stands(b4, 0, GetBytes(t))
         /\ Stands(b4, 4, Field(x1))
         /\ Stands(b4, 8 + n1, Field(x2))
         /\ Stands(b4, 12 + n1 + n2, Field(x3))
         /\ Stands(b4, 16 + n1 + n2 + n3, Flag(f))
    <2>1. b3 \in Seq(Byte) /\ Len(b3) = 16 + n1 + n2 + n3
      BY <1>3, <1>5, <1>6, <1>9
    <2>2. /\ b4 \in Seq(Byte) /\ Len(b4) = Len(b3) + Len(Flag(f))
          /\ Stands(b4, Len(b3), Flag(f))
      BY <1>3, <1>6, <2>1, StandsConcat
    <2>3. /\ Stands(b4, 0, GetBytes(t))
          /\ Stands(b4, 4, Field(x1))
          /\ Stands(b4, 8 + n1, Field(x2))
          /\ Stands(b4, 12 + n1 + n2, Field(x3))
      BY <1>3, <1>5, <1>6, <1>9, StandsGrown
    <2> QED
      BY <1>1, <1>3, <1>6, <2>1, <2>2, <2>3
  <1> HIDE DEF b4
  <1>11. /\ b5 \in Seq(Byte) /\ Len(b5) = 21 + n1 + n2 + n3 + n4
         /\ Stands(b5, 0, GetBytes(t))
         /\ Stands(b5, 4, Field(x1))
         /\ Stands(b5, 8 + n1, Field(x2))
         /\ Stands(b5, 12 + n1 + n2, Field(x3))
         /\ Stands(b5, 16 + n1 + n2 + n3, Flag(f))
         /\ Stands(b5, 17 + n1 + n2 + n3, Field(x4))
    <2>1. b4 \in Seq(Byte) /\ Len(b4) = 17 + n1 + n2 + n3
      BY <1>3, <1>5, <1>6, <1>10
    <2>2. /\ b5 \in Seq(Byte) /\ Len(b5) = Len(b4) + Len(Field(x4))
          /\ Stands(b5, Len(b4), Field(x4))
      BY <1>3, <1>6, <2>1, StandsConcat
    <2>3. /\ Stands(b5, 0, GetBytes(t))
          /\ Stands(b5, 4, Field(x1))
          /\ Stands(b5, 8 + n1, Field(x2))
          /\ Stands(b5, 12 + n1 + n2, Field(x3))
          /\ Stands(b5, 16 + n1 + n2 + n3, Flag(f))
      BY <1>3, <1>5, <1>6, <1>10, StandsGrown
    <2> QED
      BY <1>1, <1>3, <1>6, <2>1, <2>2, <2>3
  <1> HIDE DEF b5
  <1>12. Written(m) = b5
    BY <1>bytes DEF b1, b2, b3, b4, b5
  <1>13. IntAt(b5, 0) = t
    BY <1>4, <1>11, IntIsRead
  <1>14. HasField(b5, 4) /\ Ends(b5, 4) = 8 + n1 /\ DataAt(b5, 4) = x1
    BY <1>1, <1>2, <1>11, FieldIsRead DEF n1
  <1>15. /\ HasField(b5, 8 + n1) /\ Ends(b5, 8 + n1) = 12 + n1 + n2
         /\ DataAt(b5, 8 + n1) = x2
    <2>1. (8 + n1) + 4 + n2 = 12 + n1 + n2
      BY <1>1
    <2> QED
      BY <1>2, <1>11, <2>1, FieldIsRead DEF n2
  <1>16. /\ HasField(b5, 12 + n1 + n2) /\ Ends(b5, 12 + n1 + n2) = 16 + n1 + n2 + n3
         /\ DataAt(b5, 12 + n1 + n2) = x3
    <2>1. (12 + n1 + n2) + 4 + n3 = 16 + n1 + n2 + n3
      BY <1>1
    <2> QED
      BY <1>2, <1>11, <2>1, FieldIsRead DEF n3
  <1>17. /\ HasField(b5, 17 + n1 + n2 + n3)
         /\ Ends(b5, 17 + n1 + n2 + n3) = 21 + n1 + n2 + n3 + n4
         /\ DataAt(b5, 17 + n1 + n2 + n3) = x4
    <2>1. (17 + n1 + n2 + n3) + 4 + n4 = 21 + n1 + n2 + n3 + n4
      BY <1>1
    <2> QED
      BY <1>2, <1>11, <2>1, FieldIsRead DEF n4
  <1>18. b5[17 + n1 + n2 + n3] = 1 <=> f
    <2>1. b5[(16 + n1 + n2 + n3) + 1] = Flag(f)[1]
      BY <1>6, <1>11 DEF Stands
    <2>2. (16 + n1 + n2 + n3) + 1 = 17 + n1 + n2 + n3
      BY <1>1
    <2> QED
      BY <1>6, <2>1, <2>2
  <1>19. (16 + n1 + n2 + n3) + 1 = 17 + n1 + n2 + n3
    BY <1>1
  <1>20. IsBody(b5)
    BY <1>11, <1>14, <1>15, <1>16, <1>17, <1>19 DEF IsBody
  <1>21. Parsed(b5) = [type |-> t, correlationId |-> x1, reciever |-> x2, sender |-> x3,
                       noAck |-> f, payload |-> x4]
    BY <1>13, <1>14, <1>15, <1>16, <1>17, <1>18, <1>19 DEF Parsed
  <1> QED
    BY <1>11, <1>12, <1>20, <1>21

-----------------------------------------------------------------------------
(* Messages.                                                               *)

LEMMA FilledBytes ==
    ASSUME NEW f \in Fields
    PROVE  /\ Filled(f) \in Seq(Byte)
           /\ Prefixed(f) = Field(Filled(f))
           /\ Filled(f) \o <<0>> \in Seq(Byte)
           /\ ZeroEnded(f) = Field(Filled(f) \o <<0>>)
  <1>1. Filled(f) \in Seq(Byte)
    <2>1. CASE f = Null
      BY <2>1 DEF Filled
    <2>2. CASE f # Null
      BY <2>2 DEF Filled, Fields
    <2> QED
      BY <2>1, <2>2
  <1>2. <<0>> \in Seq(Byte)
    <2>1. 0 \in Byte
      BY SMT DEF Byte
    <2> QED
      BY <2>1
  <1> DEFINE z == Filled(f) \o <<0>>
  <1>3. z \in Seq(Byte)
    BY <1>1, <1>2, ConcatProperties
  <1> HIDE DEF z
  <1>4. z # Null
    BY <1>3, NullAssumption
  <1>5. Filled(z) = z
    BY <1>4 DEF Filled
  <1>6. ZeroEnded(f) = Field(z)
    BY <1>5 DEF ZeroEnded, Prefixed, Field, z
  <1>7. Prefixed(f) = Field(Filled(f))
    BY DEF Prefixed, Field
  <1> QED
    BY <1>1, <1>3, <1>6, <1>7 DEF z

\* EXCEPT of four fields.
LEMMA FieldsReplaced ==
    ASSUME NEW m \in InternalMessages, NEW c, NEW r, NEW s, NEW p
    PROVE  [m EXCEPT !.correlationId = c, !.reciever = r, !.sender = s, !.payload = p]
             = [type |-> m.type, correlationId |-> c, reciever |-> r, sender |-> s,
                noAck |-> m.noAck, payload |-> p]
  <1> DEFINE m1 == [m EXCEPT !.correlationId = c]
             m2 == [m1 EXCEPT !.reciever = r]
             m3 == [m2 EXCEPT !.sender = s]
             m4 == [m3 EXCEPT !.payload = p]
  <1>1. m1 = [type |-> m.type, correlationId |-> c, reciever |-> m.reciever,
              sender |-> m.sender, noAck |-> m.noAck, payload |-> m.payload]
    BY DEF InternalMessages
  <1>2. [m EXCEPT !.correlationId = c, !.reciever = r, !.sender = s, !.payload = p] = m4
    OBVIOUS
  <1> HIDE DEF m1
  <1>3. m2 = [type |-> m.type, correlationId |-> c, reciever |-> r,
              sender |-> m.sender, noAck |-> m.noAck, payload |-> m.payload]
    BY <1>1
  <1> HIDE DEF m2
  <1>4. m3 = [type |-> m.type, correlationId |-> c, reciever |-> r,
              sender |-> s, noAck |-> m.noAck, payload |-> m.payload]
    BY <1>3
  <1> HIDE DEF m3
  <1>5. m4 = [type |-> m.type, correlationId |-> c, reciever |-> r,
              sender |-> s, noAck |-> m.noAck, payload |-> p]
    BY <1>4
  <1> QED
    BY <1>2, <1>5

\* A message whose size is an int is read from its bytes as it was sent, null
\* as empty (InternalMessage.ToBytes and the InternalMessage constructor).  As
\* the C++ library writes it, sender and reciever are read in each other's
\* place, and every string with the zero byte behind it (internal_message).
THEOREM MessagesRoundTrip ==
    ASSUME NEW m \in InternalMessages
    PROVE  /\ Len(Body(m)) <= MaxInt =>
                /\ Body(m) \in Seq(Byte) /\ IsBody(Body(m))
                /\ Parsed(Body(m)) =
                     [m EXCEPT !.correlationId = Filled(@), !.reciever = Filled(@),
                               !.sender = Filled(@), !.payload = Filled(@)]
           /\ Len(CppBody(m)) <= MaxInt =>
                /\ CppBody(m) \in Seq(Byte) /\ IsBody(CppBody(m))
                /\ Parsed(CppBody(m)) =
                     [m EXCEPT !.correlationId = Filled(@) \o <<0>>,
                               !.reciever = Filled(m.sender) \o <<0>>,
                               !.sender = Filled(m.reciever) \o <<0>>,
                               !.payload = Filled(@)]
  <1> DEFINE c == Filled(m.correlationId)  cz == Filled(m.correlationId) \o <<0>>
             r == Filled(m.reciever)       rz == Filled(m.reciever) \o <<0>>
             s == Filled(m.sender)         sz == Filled(m.sender) \o <<0>>
             p == Filled(m.payload)
  <1>1. /\ m.type \in 0..7 /\ m.noAck \in BOOLEAN
        /\ m.correlationId \in Fields /\ m.reciever \in Fields
        /\ m.sender \in Fields /\ m.payload \in Fields
    BY DEF InternalMessages
  <1>2. /\ c \in Seq(Byte) /\ Prefixed(m.correlationId) = Field(c)
        /\ cz \in Seq(Byte) /\ ZeroEnded(m.correlationId) = Field(cz)
        /\ r \in Seq(Byte) /\ Prefixed(m.reciever) = Field(r)
        /\ rz \in Seq(Byte) /\ ZeroEnded(m.reciever) = Field(rz)
        /\ s \in Seq(Byte) /\ Prefixed(m.sender) = Field(s)
        /\ sz \in Seq(Byte) /\ ZeroEnded(m.sender) = Field(sz)
        /\ p \in Seq(Byte) /\ Prefixed(m.payload) = Field(p)
    BY <1>1, FilledBytes
  <1> DEFINE own == [m EXCEPT !.correlationId = c, !.reciever = r, !.sender = s, !.payload = p]
             cpp == [m EXCEPT !.correlationId = cz, !.reciever = sz, !.sender = rz, !.payload = p]
  <1>3. own = [m EXCEPT !.correlationId = Filled(@), !.reciever = Filled(@),
                        !.sender = Filled(@), !.payload = Filled(@)]
    BY DEF InternalMessages
  <1>4. cpp = [m EXCEPT !.correlationId = Filled(@) \o <<0>>,
                        !.reciever = Filled(m.sender) \o <<0>>,
                        !.sender = Filled(m.reciever) \o <<0>>, !.payload = Filled(@)]
    BY DEF InternalMessages
  <1> HIDE DEF c, cz, r, rz, s, sz, p
  <1>5. /\ own = [type |-> m.type, correlationId |-> c, reciever |-> r, sender |-> s,
                  noAck |-> m.noAck, payload |-> p]
        /\ cpp = [type |-> m.type, correlationId |-> cz, reciever |-> sz, sender |-> rz,
                  noAck |-> m.noAck, payload |-> p]
    BY FieldsReplaced
  <1> HIDE DEF own, cpp
  <1>6. own \in Filleds /\ cpp \in Filleds
    BY <1>1, <1>2, <1>5 DEF Filleds
  <1>7. Body(m) = Written(own) /\ CppBody(m) = Written(cpp)
    BY <1>2, <1>5 DEF Body, CppBody, Written
  <1>8. Len(Body(m)) <= MaxInt =>
          Body(m) \in Seq(Byte) /\ IsBody(Body(m)) /\ Parsed(Body(m)) = own
    BY <1>6, <1>7, WrittenIsRead
  <1>9. Len(CppBody(m)) <= MaxInt =>
          CppBody(m) \in Seq(Byte) /\ IsBody(CppBody(m)) /\ Parsed(CppBody(m)) = cpp
    BY <1>6, <1>7, WrittenIsRead
  <1> QED
    BY <1>3, <1>4, <1>8, <1>9

-----------------------------------------------------------------------------
(* The stream.                                                             *)

\* The fields of a call's message, as the sending side writes them.
BodyOf(s) == IF lib = "cs" THEN Body(MessageOf[s]) ELSE CppBody(MessageOf[s])

Message(s) == ReadAs(MessageOf[s])

LEMMA FrameFacts ==
    ASSUME lib \in {"cs", "cpp"}, NEW s \in Calls
    PROVE  /\ BodyOf(s) \in Seq(Byte) /\ Len(BodyOf(s)) \in 0..MaxInt
           /\ FrameOf(s) = Field(BodyOf(s))
           /\ IsBody(BodyOf(s)) /\ Parsed(BodyOf(s)) = Message(s)
           /\ Field(BodyOf(s)) \in Seq(Byte)
           /\ Len(Field(BodyOf(s))) = 4 + Len(BodyOf(s))
           /\ GetBytes(Len(BodyOf(s))) \in Seq(Byte)
           /\ Len(GetBytes(Len(BodyOf(s)))) = 4
           /\ ToInt32[GetBytes(Len(BodyOf(s)))] = Len(BodyOf(s))
           /\ Stands(Field(BodyOf(s)), 0, GetBytes(Len(BodyOf(s))))
           /\ Stands(Field(BodyOf(s)), 4, BodyOf(s))
  <1> DEFINE m == MessageOf[s]
  <1>1. /\ m \in InternalMessages
        /\ Len(Body(m)) <= MaxInt /\ Len(CppBody(m)) <= MaxInt
    BY FramesAssumption
  <1>2. FrameOf(s) = Field(BodyOf(s))
    BY DEF FrameOf, BodyOf, Framed, Field
  <1>3. /\ BodyOf(s) \in Seq(Byte) /\ Len(BodyOf(s)) <= MaxInt
        /\ IsBody(BodyOf(s)) /\ Parsed(BodyOf(s)) = Message(s)
    <2> HIDE DEF m
    <2>1. CASE lib = "cs"
      <3>1. BodyOf(s) = Body(m)
        BY <2>1 DEF BodyOf, m
      <3>2. Message(s) = [m EXCEPT !.correlationId = Filled(@), !.reciever = Filled(@),
                                   !.sender = Filled(@), !.payload = Filled(@)]
        BY <2>1 DEF Message, ReadAs, m
      <3> QED
        BY <1>1, <3>1, <3>2, MessagesRoundTrip
    <2>2. CASE lib = "cpp"
      <3>1. BodyOf(s) = CppBody(m)
        BY <2>2 DEF BodyOf, m
      <3>2. Message(s) = [m EXCEPT !.correlationId = Filled(@) \o <<0>>,
                                   !.reciever = Filled(m.sender) \o <<0>>,
                                   !.sender = Filled(m.reciever) \o <<0>>,
                                   !.payload = Filled(@)]
        BY <2>2 DEF Message, ReadAs, m
      <3> QED
        BY <1>1, <3>1, <3>2, MessagesRoundTrip
    <2> QED
      BY <2>1, <2>2
  <1> DEFINE b == BodyOf(s)
  <1> HIDE DEF b
  <1>4. /\ b \in Seq(Byte) /\ Len(b) <= MaxInt
    BY <1>3 DEF b
  <1>5. /\ Len(b) \in 0..MaxInt
        /\ Field(b) \in Seq(Byte) /\ Len(Field(b)) = 4 + Len(b)
        /\ Stands(Field(b), 0, GetBytes(Len(b))) /\ Stands(Field(b), 4, b)
    BY <1>4, FieldBytes
  <1>6. /\ GetBytes(Len(b)) \in Seq(Byte) /\ Len(GetBytes(Len(b))) = 4
        /\ ToInt32[GetBytes(Len(b))] = Len(b)
    BY <1>5, IntRoundTrip
  <1> QED
    BY <1>2, <1>3, <1>5, <1>6 DEF b

\* T are all the bytes of the frames begun so far, in the order of _writeLock;
\* the frame of the j-th call ends where at[j] bytes have come.
Stream(T, at) ==
    /\ T \in Seq(Byte) /\ at \in [Nat -> Nat]
    /\ at[0] = 0 /\ at[Len(order)] = Len(T)
    /\ \A j \in 1..Len(order) :
          /\ Stands(T, at[j - 1], Field(BodyOf(order[j])))
          /\ at[j] = at[j - 1] + 4 + Len(BodyOf(order[j]))

\* Where the size or the body that is being read begins.
ReadPos(at) == at[Len(inbox)] + IF rpc = "body" THEN 4 ELSE 0

\* What was read and what is in the connection are the next bytes.
Reader(T, at) ==
    /\ Stands(T, ReadPos(at), buffer)
    /\ Stands(T, ReadPos(at) + Len(buffer), wire)
    /\ rpc = "size" => need = 4
    /\ rpc = "body" => /\ Len(inbox) < Len(order)
                       /\ need = Len(BodyOf(order[Len(inbox) + 1]))

\* What the last call has still to hand over.
Rest == IF order = <<>> THEN <<>> ELSE pending[order[Len(order)]]

\* Only the last call has bytes left, and they are the last of all.
Sender(T, at) ==
    /\ rpc # "closed"
    /\ Stands(T, ReadPos(at) + Len(buffer) + Len(wire), Rest)
    /\ ReadPos(at) + Len(buffer) + Len(wire) + Len(Rest) = Len(T)
    /\ \A s \in Calls :
          pending[s] # <<>> => /\ order # <<>> /\ s = order[Len(order)]
                               /\ pc[s] \in {"write", "timeout"}

Bytes(T, at) ==
    /\ Stream(T, at)
    /\ rpc # "closed" => Reader(T, at)
    /\ ~shut => Sender(T, at)

Places == {"idle", "lock", "write", "timeout", "done", "failed"}

Types ==
    /\ lib \in {"cs", "cpp"}
    /\ pc \in [Calls -> Places]
    /\ pending \in [Calls -> Seq(Byte)]
    /\ wire \in Seq(Byte) /\ buffer \in Seq(Byte)
    /\ order \in Seq(Calls)
    /\ need \in Nat
    /\ rpc \in {"size", "body", "busy", "closed"}

Results ==
    /\ inbox \in Seq({Message(s) : s \in Calls})
    /\ Len(inbox) <= Len(order)
    /\ \A i \in 1..Len(inbox) : inbox[i] = Message(order[i])

\* Holds until a frame is begun behind an unfinished one.
Intact == Types /\ Results /\ \E T, at : Bytes(T, at)

-----------------------------------------------------------------------------
(* Facts about the bytes.                                                  *)

\* What stands in one place, and is as long, is the same.
LEMMA StandSame ==
    ASSUME NEW q \in Seq(Byte), NEW p, NEW x \in Seq(Byte), NEW y \in Seq(Byte),
           Stands(q, p, x), Stands(q, p, y), Len(x) = Len(y)
    PROVE  x = y
  <1>1. \A i \in 1..Len(x) : x[i] = y[i]
    BY DEF Stands
  <1> QED
    BY <1>1, SeqEqual

\* The first bytes of c are moved behind a.
LEMMA StandsMove ==
    ASSUME NEW q \in Seq(Byte), NEW p, NEW a \in Seq(Byte), NEW c \in Seq(Byte),
           NEW n \in Nat, n <= Len(c), Stands(q, p, a), Stands(q, p + Len(a), c)
    PROVE  /\ a \o SubSeq(c, 1, n) \in Seq(Byte)
           /\ Len(a \o SubSeq(c, 1, n)) = Len(a) + n
           /\ Stands(q, p, a \o SubSeq(c, 1, n))
           /\ SubSeq(c, n + 1, Len(c)) \in Seq(Byte)
           /\ Len(SubSeq(c, n + 1, Len(c))) = Len(c) - n
           /\ Stands(q, p + Len(a) + n, SubSeq(c, n + 1, Len(c)))
  <1>1. Len(q) \in Nat /\ Len(a) \in Nat /\ Len(c) \in Nat /\ p \in Nat
    BY LenProperties DEF Stands
  <1>2. \A i \in 1..Len(c) : c[i] \in Byte
    BY ElementOfSeq
  <1> DEFINE f == SubSeq(c, 1, n)
             g == SubSeq(c, n + 1, Len(c))
             h == a \o f
  <1>3. f \in Seq(Byte) /\ Len(f) = n /\ \A i \in 1..n : f[i] = c[i]
    <2>1. \A i \in 1..n : c[i] \in Byte
      BY <1>1, <1>2
    <2>2. /\ f \in Seq(Byte)
          /\ Len(f) = IF 1 <= n THEN n - 1 + 1 ELSE 0
          /\ \A i \in 1..(n - 1 + 1) : f[i] = c[1 + i - 1]
      BY <2>1, SubSeqProperties
    <2> QED
      BY <2>2
  <1>4. g \in Seq(Byte) /\ Len(g) = Len(c) - n /\ \A i \in 1..(Len(c) - n) : g[i] = c[n + i]
    <2>1. \A i \in (n + 1)..Len(c) : c[i] \in Byte
      BY <1>1, <1>2
    <2>2. n + 1 \in Int /\ Len(c) \in Int
      BY <1>1
    <2>3. /\ g \in Seq(Byte)
          /\ Len(g) = IF n + 1 <= Len(c) THEN Len(c) - (n + 1) + 1 ELSE 0
          /\ \A i \in 1..(Len(c) - (n + 1) + 1) : g[i] = c[(n + 1) + i - 1]
      BY <2>1, <2>2, SubSeqProperties
    <2>4. Len(g) = Len(c) - n
      BY <1>1, <2>3
    <2>5. ASSUME NEW i \in 1..(Len(c) - n) PROVE g[i] = c[n + i]
      <3>1. i \in 1..(Len(c) - (n + 1) + 1) /\ (n + 1) + i - 1 = n + i
        BY <1>1
      <3> QED
        BY <2>3, <3>1
    <2> QED
      BY <2>3, <2>4, <2>5
  <1> HIDE DEF f, g
  <1>5. /\ h \in Seq(Byte) /\ Len(h) = Len(a) + n
        /\ \A i \in 1..(Len(a) + n) : h[i] = IF i <= Len(a) THEN a[i] ELSE f[i - Len(a)]
    BY <1>1, <1>3, ConcatProperties
  <1> HIDE DEF h
  <1>6. Stands(q, p, h)
    <2>1. p + Len(h) <= Len(q)
      BY <1>1, <1>5 DEF Stands
    <2>2. ASSUME NEW i \in 1..Len(h) PROVE q[p + i] = h[i]
      <3>1. CASE i <= Len(a)
        <4>1. i \in 1..Len(a)
          BY <1>1, <1>5, <3>1
        <4>2. q[p + i] = a[i]
          BY <4>1 DEF Stands
        <4> QED
          BY <1>5, <3>1, <4>2
      <3>2. CASE i > Len(a)
        <4>1. i - Len(a) \in 1..n
          BY <1>1, <1>5, <3>2
        <4>2. h[i] = c[i - Len(a)]
          BY <1>1, <1>3, <1>5, <3>2, <4>1
        <4>3. q[(p + Len(a)) + (i - Len(a))] = c[i - Len(a)]
          BY <1>1, <4>1 DEF Stands
        <4>4. (p + Len(a)) + (i - Len(a)) = p + i
          BY <1>1, <1>5
        <4> QED
          BY <4>2, <4>3, <4>4
      <3> QED
        BY <1>1, <1>5, <3>1, <3>2
    <2> QED
      BY <1>1, <2>1, <2>2 DEF Stands
  <1>7. Stands(q, p + Len(a) + n, g)
    <2>1. (p + Len(a) + n) + Len(g) <= Len(q)
      BY <1>1, <1>4 DEF Stands
    <2>2. ASSUME NEW i \in 1..Len(g) PROVE q[(p + Len(a) + n) + i] = g[i]
      <3>1. n + i \in 1..Len(c) /\ g[i] = c[n + i]
        BY <1>1, <1>4
      <3>2. q[(p + Len(a)) + (n + i)] = c[n + i]
        BY <3>1 DEF Stands
      <3>3. (p + Len(a)) + (n + i) = (p + Len(a) + n) + i
        BY <1>1, <1>4
      <3> QED
        BY <3>1, <3>2, <3>3
    <2> QED
      BY <1>1, <2>1, <2>2 DEF Stands
  <1> QED
    BY <1>4, <1>5, <1>6, <1>7 DEF f, g, h

LEMMA NothingStands ==
    ASSUME NEW q \in Seq(Byte), NEW p \in Nat, p <= Len(q)
    PROVE  Stands(q, p, <<>>) /\ <<>> \in Seq(Byte) /\ Len(<<>>) = 0
  <1>1. <<>> \in Seq(Byte) /\ Len(<<>>) = 0
    BY EmptySeq
  <1> QED
    BY <1>1 DEF Stands

-----------------------------------------------------------------------------
(* What does not change.                                                   *)

LEMMA MessagesStay ==
    ASSUME lib' = lib
    PROVE  \A s : BodyOf(s)' = BodyOf(s) /\ Message(s)' = Message(s)
  BY DEF BodyOf, Message, ReadAs

LEMMA StreamStays ==
    ASSUME NEW T, NEW at, Stream(T, at), lib' = lib, order' = order
    PROVE  Stream(T, at)'
  BY MessagesStay DEF Stream

LEMMA ResultsStay ==
    ASSUME Results, lib' = lib, order' = order, inbox' = inbox
    PROVE  Results'
  <1>1. \A s : Message(s)' = Message(s)
    BY MessagesStay
  <1>2. {Message(s) : s \in Calls}' = {Message(s) : s \in Calls}
    BY <1>1
  <1> QED
    BY <1>1, <1>2 DEF Results

\* The positions are numbers.
LEMMA Positions ==
    ASSUME Types, Results, NEW T, NEW at, Stream(T, at)
    PROVE  /\ T \in Seq(Byte) /\ Len(T) \in Nat
           /\ Len(order) \in Nat /\ Len(inbox) \in Nat /\ Len(inbox) <= Len(order)
           /\ at[Len(inbox)] \in Nat /\ ReadPos(at) \in Nat
           /\ Len(buffer) \in Nat /\ Len(wire) \in Nat
  <1>1. /\ T \in Seq(Byte) /\ Len(T) \in Nat
        /\ Len(order) \in Nat /\ Len(inbox) \in Nat /\ Len(inbox) <= Len(order)
        /\ Len(buffer) \in Nat /\ Len(wire) \in Nat
    BY LenProperties DEF Types, Results, Stream
  <1>2. at[Len(inbox)] \in Nat
    BY <1>1 DEF Stream
  <1>3. ReadPos(at) \in Nat
    BY <1>2 DEF ReadPos
  <1> QED
    BY <1>1, <1>2, <1>3

\* A step of a caller that leaves the bytes alone.
LEMMA CallerMoves ==
    ASSUME Intact, UNCHANGED <<lib, pending, wire, shut, order, readerVars>>,
           pc' \in [Calls -> Places],
           \A s \in Calls : ~shut /\ pending[s] # <<>> /\ pc[s] \in {"write", "timeout"}
                              => pc'[s] \in {"write", "timeout"}
    PROVE  Intact'
  <1> USE DEF readerVars
  <1>1. Types /\ Results
    BY DEF Intact
  <1>2. Types' /\ Results'
    BY <1>1, ResultsStay DEF Types
  <1>3. PICK T, at : Bytes(T, at)
    BY DEF Intact
  <1>4. Stream(T, at)'
    BY <1>3, StreamStays DEF Bytes
  <1>5. ReadPos(at)' = ReadPos(at) /\ Rest' = Rest
    BY DEF ReadPos, Rest
  <1>6. (rpc # "closed" => Reader(T, at))'
    BY <1>3, <1>5, MessagesStay DEF Bytes, Reader
  <1>7. (~shut => Sender(T, at))'
    BY <1>3, <1>5 DEF Bytes, Sender
  <1> QED
    BY <1>2, <1>4, <1>6, <1>7 DEF Intact, Bytes

-----------------------------------------------------------------------------
(* The steps.                                                              *)

LEMMA InitIntact == Init => Intact
  <1> SUFFICES ASSUME Init PROVE Intact
    OBVIOUS
  <1> USE DEF Init
  <1> DEFINE T == <<>>
             at == [j \in Nat |-> 0]
  <1>1. T \in Seq(Byte) /\ Len(T) = 0 /\ Stands(T, 0, <<>>)
    <2>1. T \in Seq(Byte) /\ Len(T) = 0
      BY EmptySeq
    <2> QED
      BY <2>1 DEF Stands
  <1>2. at \in [Nat -> Nat] /\ at[0] = 0
    OBVIOUS
  <1>3. Types
    <2>1. lib \in {"cs", "cpp"}
      BY FramesAssumption
    <2>2. order \in Seq(Calls)
      BY EmptySeq
    <2>3. <<>> \in Seq(Byte)
      BY EmptySeq
    <2>4. pc \in [Calls -> Places] /\ pending \in [Calls -> Seq(Byte)]
      BY <2>3 DEF Places
    <2> QED
      BY <2>1, <2>2, <2>3, <2>4 DEF Types
  <1>4. Results
    BY EmptySeq DEF Results
  <1>5. Len(order) = 0 /\ Len(inbox) = 0 /\ Len(buffer) = 0 /\ Len(wire) = 0
    BY EmptySeq
  <1> HIDE DEF at, T
  <1>6. Stream(T, at)
    BY <1>1, <1>2, <1>5 DEF Stream
  <1>7. ReadPos(at) = 0 /\ Rest = <<>>
    BY <1>2, <1>5 DEF ReadPos, Rest
  <1>8. Reader(T, at)
    BY <1>1, <1>5, <1>7 DEF Reader
  <1>9. Sender(T, at)
    BY <1>1, <1>5, <1>7 DEF Sender
  <1> QED
    BY <1>3, <1>4, <1>6, <1>8, <1>9 DEF Intact, Bytes

LEMMA CallIntact ==
    ASSUME Intact, NEW s \in Calls, Call(s) PROVE Intact'
  <1>1. pc' \in [Calls -> Places]
    BY DEF Call, Intact, Types, Places
  <1>2. \A t \in Calls : pc[t] \in {"write", "timeout"} => pc'[t] \in {"write", "timeout"}
    BY DEF Call, Intact, Types
  <1> QED
    BY <1>1, <1>2, CallerMoves DEF Call, readerVars

LEMMA WriteEndsIntact ==
    ASSUME Intact, NEW s \in Calls, WriteEnds(s) PROVE Intact'
  <1>1. pc' \in [Calls -> Places]
    BY DEF WriteEnds, Intact, Types, Places
  <1>2. \A t \in Calls : ~shut /\ pending[t] # <<>> /\ pc[t] \in {"write", "timeout"}
                            => pc'[t] \in {"write", "timeout"}
    BY DEF WriteEnds, Intact, Types
  <1> QED
    BY <1>1, <1>2, CallerMoves DEF WriteEnds, readerVars

LEMMA GiveUpIntact ==
    ASSUME Intact, NEW s \in Calls, GiveUp(s) PROVE Intact'
  <1>1. pc' \in [Calls -> Places]
    BY DEF GiveUp, Intact, Types, Places
  <1>2. \A t \in Calls : pc[t] \in {"write", "timeout"} => pc'[t] \in {"write", "timeout"}
    BY DEF GiveUp, Intact, Types
  <1> QED
    BY <1>1, <1>2, CallerMoves DEF GiveUp, readerVars

\* The connection takes bytes of the last call, for no other has any left.
LEMMA TransmitIntact ==
    ASSUME Intact, NEW s \in Calls, Transmit(s) PROVE Intact'
  <1>1. Types /\ Results
    BY DEF Intact
  <1>2. PICK T, at : Bytes(T, at)
    BY DEF Intact
  <1>3. /\ pending[s] # <<>> /\ ~shut
        /\ UNCHANGED <<lib, pc, shut, order, rpc, buffer, need, inbox>>
    BY DEF Transmit, readerVars
  <1>4. PICK n \in Chunks \union {Len(pending[s])} :
           /\ n <= Len(pending[s])
           /\ wire' = wire \o SubSeq(pending[s], 1, n)
           /\ pending' = [pending EXCEPT ![s] = SubSeq(@, n + 1, Len(@))]
    BY DEF Transmit
  <1>5. Stream(T, at) /\ Reader(T, at) /\ Sender(T, at)
    BY <1>2, <1>3 DEF Bytes, Sender
  <1>6. order # <<>> /\ s = order[Len(order)] /\ Rest = pending[s]
    BY <1>3, <1>5 DEF Sender, Rest
  <1>7. /\ T \in Seq(Byte) /\ Len(T) \in Nat /\ ReadPos(at) \in Nat
        /\ Len(buffer) \in Nat /\ Len(wire) \in Nat
    BY <1>1, <1>5, Positions
  <1>8. pending[s] \in Seq(Byte) /\ Len(pending[s]) \in Nat /\ wire \in Seq(Byte)
    BY <1>1, LenProperties DEF Types
  <1>9. n \in Nat
    BY <1>8, FramesAssumption
  <1> DEFINE p == ReadPos(at) + Len(buffer)
  <1>10. p \in Nat /\ Stands(T, p, wire) /\ Stands(T, p + Len(wire), pending[s])
         /\ p + Len(wire) + Len(pending[s]) = Len(T)
    BY <1>5, <1>6, <1>7 DEF Reader, Sender
  <1> HIDE DEF p
  <1>11. /\ wire' \in Seq(Byte) /\ Len(wire') = Len(wire) + n
         /\ Stands(T, p, wire')
         /\ pending'[s] \in Seq(Byte)
         /\ Len(pending'[s]) = Len(pending[s]) - n
         /\ Stands(T, p + Len(wire) + n, pending'[s])
    <2>1. pending'[s] = SubSeq(pending[s], n + 1, Len(pending[s]))
      BY <1>1, <1>4 DEF Types
    <2> DEFINE c == pending[s]
    <2> HIDE DEF c
    <2>2. /\ c \in Seq(Byte) /\ n \in Nat /\ n <= Len(c)
          /\ Stands(T, p, wire) /\ Stands(T, p + Len(wire), c)
      BY <1>4, <1>8, <1>9, <1>10 DEF c
    <2>3. /\ wire \o SubSeq(c, 1, n) \in Seq(Byte)
          /\ Len(wire \o SubSeq(c, 1, n)) = Len(wire) + n
          /\ Stands(T, p, wire \o SubSeq(c, 1, n))
          /\ SubSeq(c, n + 1, Len(c)) \in Seq(Byte)
          /\ Len(SubSeq(c, n + 1, Len(c))) = Len(c) - n
          /\ Stands(T, p + Len(wire) + n, SubSeq(c, n + 1, Len(c)))
      BY <1>7, <1>8, <2>2, StandsMove
    <2> QED
      BY <1>4, <2>1, <2>3 DEF c
  <1>12. pending' \in [Calls -> Seq(Byte)]
    BY <1>1, <1>4, <1>11 DEF Types
  <1>13. Types' /\ Results'
    BY <1>1, <1>3, <1>11, <1>12, ResultsStay DEF Types
  <1>14. Stream(T, at)'
    BY <1>3, <1>5, StreamStays
  <1>15. ReadPos(at)' = ReadPos(at) /\ Rest' = pending'[s]
    BY <1>3, <1>6 DEF ReadPos, Rest
  <1>16. p' = p
    BY <1>3, <1>15 DEF p
  <1>17. Reader(T, at)'
    <2>1. Stands(T, ReadPos(at), buffer)' /\ Stands(T, ReadPos(at) + Len(buffer), wire)'
      BY <1>3, <1>5, <1>11, <1>15 DEF Reader, p
    <2> QED
      BY <1>3, <1>5, <2>1, MessagesStay DEF Reader
  <1>18. Sender(T, at)'
    <2>1. ReadPos(at)' + Len(buffer') + Len(wire') = p + Len(wire) + n
      BY <1>3, <1>7, <1>9, <1>11, <1>15 DEF p
    <2>2. Stands(T, ReadPos(at)' + Len(buffer') + Len(wire'), Rest')
      BY <1>11, <1>15, <2>1
    <2>3. (p + Len(wire) + n) + Len(Rest') = Len(T)
      <3>1. Len(Rest') = Len(pending[s]) - n
        BY <1>11, <1>15
      <3> DEFINE w == Len(wire)  c == Len(pending[s])  l == Len(T)
      <3>2. /\ p \in Nat /\ w \in Nat /\ c \in Nat /\ n \in Nat /\ l \in Nat
            /\ p + w + c = l
        BY <1>7, <1>8, <1>9, <1>10
      <3> HIDE DEF w, c, l
      <3>3. (p + w + n) + (c - n) = l
        BY <3>2
      <3> QED
        BY <3>1, <3>3 DEF w, c, l
    <2>4. ASSUME NEW t \in Calls, pending'[t] # <<>>
          PROVE  order # <<>> /\ t = order[Len(order)] /\ pc[t] \in {"write", "timeout"}
      <3>1. CASE t = s
        BY <1>3, <1>5, <1>6, <3>1 DEF Sender
      <3>2. CASE t # s
        BY <1>1, <1>4, <1>5, <2>4, <3>2 DEF Sender, Types
      <3> QED
        BY <3>1, <3>2
    <2> QED
      BY <1>3, <1>5, <2>1, <2>2, <2>3, <2>4 DEF Sender
  <1> QED
    BY <1>13, <1>14, <1>17, <1>18 DEF Intact, Bytes

\* A frame is begun behind all that was sent before, which is then handed over:
\* nobody is in the lock, and nobody's write was left unfinished.
LEMMA WriteIntact ==
    ASSUME Intact, NEW s \in Calls, Write(s), ~mixed' PROVE Intact'
  <1>1. Types /\ Results
    BY DEF Intact
  <1>2. pc[s] = "lock" /\ Unlocked /\ UNCHANGED <<lib, wire, shut, rpc, buffer, need, inbox>>
    BY DEF Write, readerVars
  <1>3. CASE shut
    <2>1. /\ pc' = [pc EXCEPT ![s] = "failed"]
          /\ UNCHANGED <<lib, pending, wire, shut, order, readerVars>>
      BY <1>2, <1>3 DEF Write, readerVars
    <2>2. pc' \in [Calls -> Places]
      BY <1>1, <2>1 DEF Types, Places
    <2> QED
      BY <1>3, <2>1, <2>2, CallerMoves
  <1>4. CASE ~shut
    <2>1. /\ pc' = [pc EXCEPT ![s] = "write"]
          /\ pending' = [pending EXCEPT ![s] = FrameOf(s)]
          /\ order' = Append(order, s)
          /\ ~ \E t \in Calls : pc[t] = "timeout" /\ pending[t] # <<>>
      BY <1>4 DEF Write
    <2>2. PICK T, at : Bytes(T, at)
      BY DEF Intact
    <2>3. Stream(T, at) /\ Sender(T, at) /\ Reader(T, at)
      BY <1>4, <2>2 DEF Bytes, Sender
    <2>4. \A t \in Calls : pending[t] = <<>>
      BY <1>2, <2>1, <2>3 DEF Sender, Unlocked
    <2>5. /\ T \in Seq(Byte) /\ Len(T) \in Nat /\ ReadPos(at) \in Nat
          /\ Len(order) \in Nat /\ Len(inbox) \in Nat /\ Len(inbox) <= Len(order)
          /\ Len(buffer) \in Nat /\ Len(wire) \in Nat
      BY <1>1, <2>3, Positions
    <2>6. order \in Seq(Calls) /\ (order # <<>> => order[Len(order)] \in Calls)
      BY <1>1, <2>5, EmptySeq, ElementOfSeq DEF Types
    <2>7. Rest = <<>> /\ Len(Rest) = 0
      BY <2>4, <2>6, EmptySeq DEF Rest
    <2>8. ReadPos(at) + Len(buffer) + Len(wire) = Len(T)
      BY <2>3, <2>5, <2>7 DEF Sender
    <2> DEFINE b == BodyOf(s)
               f == Field(BodyOf(s))
               k == Len(order) + 1
    <2>9. /\ b \in Seq(Byte) /\ Len(b) \in Nat /\ f \in Seq(Byte) /\ Len(f) = 4 + Len(b)
          /\ FrameOf(s) = f
      BY <1>1, FrameFacts, MaxIntBelow, InRange DEF Types
    <2>10. /\ order' \in Seq(Calls) /\ Len(order') = k
           /\ order'[k] = s /\ \A j \in 1..Len(order) : order'[j] = order[j]
           /\ order' # <<>>
      BY <2>1, <2>5, <2>6, AppendProperties, EmptySeq
    <2> HIDE DEF b, f
    <2>T1. PICK T1 : T1 = T \o f
      OBVIOUS
    <2>at1. PICK at1 : at1 = [at EXCEPT ![k] = Len(T) + 4 + Len(b)]
      OBVIOUS
    <2>11. /\ T1 \in Seq(Byte) /\ Len(T1) = Len(T) + 4 + Len(b)
           /\ Stands(T1, Len(T), f)
      <3>1. /\ T \o f \in Seq(Byte) /\ Len(T \o f) = Len(T) + Len(f)
            /\ Stands(T \o f, Len(T), f)
        BY <2>5, <2>9, StandsConcat
      <3> QED
        BY <2>5, <2>9, <2>T1, <3>1
    <2>12. ASSUME NEW p, NEW x \in Seq(Byte), Stands(T, p, x) PROVE Stands(T1, p, x)
      BY <2>5, <2>9, <2>12, <2>T1, StandsGrown
    <2>13. /\ at1 \in [Nat -> Nat] /\ at1[k] = Len(T1)
           /\ \A j \in 0..Len(order) : at1[j] = at[j]
           /\ at[Len(order)] = Len(T) /\ at[0] = 0
      <3>1. at \in [Nat -> Nat] /\ at[Len(order)] = Len(T) /\ at[0] = 0
        BY <2>3 DEF Stream
      <3>2. k \in Nat /\ Len(T) + 4 + Len(b) \in Nat
        BY <2>5, <2>9
      <3>3. at1 \in [Nat -> Nat] /\ at1[k] = Len(T1)
        BY <2>11, <2>at1, <3>1, <3>2
      <3>4. ASSUME NEW j \in 0..Len(order) PROVE at1[j] = at[j]
        <4>1. j \in Nat /\ j # k
          BY <2>5
        <4> QED
          BY <2>at1, <3>1, <4>1
      <3> QED
        BY <3>1, <3>3, <3>4
    <2>14. Types'
      <3>1. pc' \in [Calls -> Places] /\ pending' \in [Calls -> Seq(Byte)]
        BY <1>1, <2>1, <2>9 DEF Types, Places
      <3> QED
        BY <1>1, <1>2, <2>10, <3>1 DEF Types
    <2>15. Results'
      <3>1. \A t : Message(t)' = Message(t)
        BY <1>2, MessagesStay
      <3>2. {Message(t) : t \in Calls}' = {Message(t) : t \in Calls}
        BY <3>1
      <3>3. Len(inbox) <= k
        BY <2>5
      <3>4. ASSUME NEW i \in 1..Len(inbox) PROVE inbox[i] = Message(order'[i])
        <4>1. i \in 1..Len(order)
          BY <2>5
        <4>2. order'[i] = order[i]
          BY <2>10, <4>1
        <4> QED
          BY <1>1, <4>2 DEF Results
      <3> QED
        BY <1>1, <1>2, <2>10, <3>1, <3>2, <3>3, <3>4 DEF Results
    <2>16. Stream(T1, at1)'
      <3>1. \A t : BodyOf(t)' = BodyOf(t)
        BY <1>2, MessagesStay
      <3>2. at1[0] = 0 /\ at1[k] = Len(T1)
        BY <2>3, <2>5, <2>13 DEF Stream
      <3>3. ASSUME NEW j \in 1..k
            PROVE  /\ Stands(T1, at1[j - 1], Field(BodyOf(order'[j])))
                   /\ at1[j] = at1[j - 1] + 4 + Len(BodyOf(order'[j]))
        <4>1. CASE j = k
          <5>1. j - 1 = Len(order) /\ at1[j - 1] = Len(T)
            <6>1. j - 1 = Len(order) /\ Len(order) \in 0..Len(order)
              BY <2>5, <4>1
            <6> QED
              BY <2>13, <6>1
          <5>2. BodyOf(order'[j]) = b /\ Field(BodyOf(order'[j])) = f
            BY <2>10, <4>1 DEF b, f
          <5> QED
            BY <2>11, <2>13, <4>1, <5>1, <5>2
        <4>2. CASE j # k
          <5>1. j \in 1..Len(order) /\ j \in 0..Len(order) /\ j - 1 \in 0..Len(order)
            BY <2>5, <4>2
          <5>2. order'[j] = order[j] /\ at1[j] = at[j] /\ at1[j - 1] = at[j - 1]
            BY <2>10, <2>13, <5>1
          <5>3. order[j] \in Calls
            BY <2>6, <5>1, ElementOfSeq
          <5>4. Field(BodyOf(order[j])) \in Seq(Byte)
            BY <1>1, <5>3, FrameFacts DEF Types
          <5>5. /\ Stands(T, at[j - 1], Field(BodyOf(order[j])))
                /\ at[j] = at[j - 1] + 4 + Len(BodyOf(order[j]))
            BY <2>3, <5>1 DEF Stream
          <5> QED
            BY <2>12, <5>2, <5>4, <5>5
        <4> QED
          BY <4>1, <4>2
      <3> QED
        BY <2>10, <2>11, <2>13, <3>1, <3>2, <3>3 DEF Stream
    <2>17. ReadPos(at1)' = ReadPos(at)
      <3>1. Len(inbox) \in 0..Len(order)
        BY <2>5
      <3>2. at1[Len(inbox)] = at[Len(inbox)]
        BY <2>13, <3>1
      <3> QED
        BY <1>2, <3>2 DEF ReadPos
    <2>18. Reader(T1, at1)'
      <3>1. Stands(T1, ReadPos(at), buffer) /\ Stands(T1, ReadPos(at) + Len(buffer), wire)
        BY <1>1, <2>3, <2>12 DEF Reader, Types
      <3>2. rpc = "body" => /\ Len(inbox) < k
                            /\ need = Len(BodyOf(order'[Len(inbox) + 1]))
        BY <2>3, <2>5, <2>10 DEF Reader
      <3> QED
        BY <1>2, <2>3, <2>10, <2>17, <3>1, <3>2, MessagesStay DEF Reader
    <2>19. Sender(T1, at1)'
      <3>1. Rest' = f
        BY <1>1, <2>1, <2>9, <2>10 DEF Rest, Types
      <3>2. \A t \in Calls : pending'[t] # <<>> => t = s /\ pc'[t] = "write"
        BY <1>1, <2>1, <2>4 DEF Types
      <3>3. (ReadPos(at) + Len(buffer) + Len(wire)) + Len(f) = Len(T1)
        <4>1. Len(T) + Len(f) = Len(T1)
          BY <2>5, <2>9, <2>11
        <4> QED
          BY <2>8, <4>1
      <3> QED
        BY <1>2, <2>3, <2>8, <2>10, <2>11, <2>17, <3>1, <3>2, <3>3 DEF Sender
    <2> QED
      BY <2>14, <2>15, <2>16, <2>18, <2>19 DEF Intact, Bytes
  <1> QED
    BY <1>3, <1>4

\* The receive loop takes bytes from the connection.
LEMMA ReadIntact ==
    ASSUME Intact, Read PROVE Intact'
  <1>1. Types /\ Results
    BY DEF Intact
  <1>2. PICK T, at : Bytes(T, at)
    BY DEF Intact
  <1>3. /\ rpc \in {"size", "body"} /\ Len(buffer) < need
        /\ UNCHANGED <<lib, pc, pending, order, shut, rpc, need, inbox>>
    BY DEF Read, Reading, senderVars
  <1>4. PICK n \in Chunks \union {Len(wire), need - Len(buffer)} :
           /\ n <= Len(wire)
           /\ buffer' = buffer \o SubSeq(wire, 1, n)
           /\ wire' = SubSeq(wire, n + 1, Len(wire))
    BY DEF Read
  <1>5. Stream(T, at) /\ Reader(T, at)
    BY <1>2, <1>3 DEF Bytes
  <1>6. /\ T \in Seq(Byte) /\ Len(T) \in Nat /\ ReadPos(at) \in Nat
        /\ Len(buffer) \in Nat /\ Len(wire) \in Nat
    BY <1>1, <1>5, Positions
  <1>7. n \in Nat
    BY <1>1, <1>3, <1>6, FramesAssumption DEF Types
  <1>8. /\ buffer' \in Seq(Byte) /\ Len(buffer') = Len(buffer) + n
        /\ Stands(T, ReadPos(at), buffer')
        /\ wire' \in Seq(Byte) /\ Len(wire') = Len(wire) - n
        /\ Stands(T, ReadPos(at) + Len(buffer) + n, wire')
    <2>1. buffer \in Seq(Byte) /\ wire \in Seq(Byte)
      BY <1>1 DEF Types
    <2>2. Stands(T, ReadPos(at), buffer) /\ Stands(T, ReadPos(at) + Len(buffer), wire)
      BY <1>5 DEF Reader
    <2>3. /\ buffer \o SubSeq(wire, 1, n) \in Seq(Byte)
          /\ Len(buffer \o SubSeq(wire, 1, n)) = Len(buffer) + n
          /\ Stands(T, ReadPos(at), buffer \o SubSeq(wire, 1, n))
          /\ SubSeq(wire, n + 1, Len(wire)) \in Seq(Byte)
          /\ Len(SubSeq(wire, n + 1, Len(wire))) = Len(wire) - n
          /\ Stands(T, ReadPos(at) + Len(buffer) + n, SubSeq(wire, n + 1, Len(wire)))
      BY <1>4, <1>6, <1>7, <2>1, <2>2, StandsMove
    <2> QED
      BY <1>4, <2>3
  <1>9. Types' /\ Results'
    BY <1>1, <1>3, <1>8, ResultsStay DEF Types
  <1>10. Stream(T, at)'
    BY <1>3, <1>5, StreamStays
  <1>11. ReadPos(at)' = ReadPos(at) /\ Rest' = Rest
    BY <1>3 DEF ReadPos, Rest
  <1>12. Reader(T, at)'
    <2>1. ReadPos(at)' + Len(buffer') = ReadPos(at) + Len(buffer) + n
      BY <1>6, <1>7, <1>8, <1>11
    <2>2. Stands(T, ReadPos(at)', buffer') /\ Stands(T, ReadPos(at)' + Len(buffer'), wire')
      BY <1>8, <1>11, <2>1
    <2> QED
      BY <1>3, <1>5, <2>2, MessagesStay DEF Reader
  <1>13. (~shut => Sender(T, at))'
    <2>1. ReadPos(at)' + Len(buffer') + Len(wire') = ReadPos(at) + Len(buffer) + Len(wire)
      BY <1>6, <1>7, <1>8, <1>11
    <2> QED
      BY <1>2, <1>3, <1>11, <2>1 DEF Bytes, Sender
  <1> QED
    BY <1>9, <1>10, <1>12, <1>13 DEF Intact, Bytes

\* The receive loop has ended; callers may go on to write.
Closed == rpc = "closed" /\ order \in Seq(Calls) /\ Results

\* The receive loop ends.
LEMMA AbandonCloses ==
    ASSUME Intact, Abandon, UNCHANGED <<lib, order>> PROVE Closed'
  <1>1. Types /\ Results
    BY DEF Intact
  <1>2. inbox' = inbox /\ rpc' = "closed"
    BY DEF Abandon
  <1>3. Results'
    BY <1>1, <1>2, ResultsStay
  <1> QED
    BY <1>1, <1>2, <1>3 DEF Closed, Types

\* What it has read stays, whatever is written then.
LEMMA ClosedStays ==
    ASSUME Closed, [Next]_vars PROVE Closed'
  <1>1. /\ UNCHANGED <<lib, rpc, inbox>>
        /\ order' = order \/ \E s \in Calls : order' = Append(order, s)
    BY DEF Closed, Next, SendAsync, Call, Write, WriteEnds, GiveUp, Transmit, RecieveMessages,
           Read, SizeRead, BodyRead, BodyTimeout, ReadEnd, Reading, Break, senderVars,
           readerVars, vars
  <1>2. CASE order' = order
    BY <1>1, <1>2, ResultsStay DEF Closed
  <1>3. ASSUME NEW s \in Calls, order' = Append(order, s) PROVE Closed'
    <2>1. /\ order' \in Seq(Calls) /\ Len(order) \in Nat /\ Len(order') = Len(order) + 1
          /\ \A i \in 1..Len(order) : order'[i] = order[i]
      BY <1>3, AppendProperties DEF Closed
    <2>2. /\ inbox \in Seq({Message(c) : c \in Calls}) /\ Len(inbox) <= Len(order)
          /\ \A i \in 1..Len(inbox) : inbox[i] = Message(order[i])
      BY DEF Closed, Results
    <2>3. Len(inbox) \in Nat
      BY <2>2, LenProperties
    <2>4. \A c : Message(c)' = Message(c)
      BY <1>1, MessagesStay
    <2>5. \A i \in 1..Len(inbox) : inbox[i] = Message(order'[i])
      BY <2>1, <2>2, <2>3
    <2> QED
      BY <1>1, <2>1, <2>2, <2>3, <2>4, <2>5 DEF Closed, Results
  <1> QED
    BY <1>1, <1>2, <1>3

\* The frame that is being read is the next one in the order of _writeLock.
LEMMA NextFrame ==
    ASSUME Types, Results, NEW T, NEW at, Stream(T, at), Len(inbox) < Len(order)
    PROVE  LET k == Len(inbox)
               s == order[k + 1]
               b == BodyOf(s)
           IN  /\ s \in Calls /\ k + 1 \in 1..Len(order)
               /\ b \in Seq(Byte) /\ Len(b) \in Nat
               /\ IsBody(b) /\ Parsed(b) = Message(s)
               /\ GetBytes(Len(b)) \in Seq(Byte) /\ Len(GetBytes(Len(b))) = 4
               /\ ToInt32[GetBytes(Len(b))] = Len(b)
               /\ Stands(T, at[k], GetBytes(Len(b)))
               /\ Stands(T, at[k] + 4, b)
               /\ at[k + 1] = at[k] + 4 + Len(b)
  <1> DEFINE k == Len(inbox)
             s == order[k + 1]
             b == BodyOf(s)
  <1>1. /\ T \in Seq(Byte) /\ k \in Nat /\ at[k] \in Nat
        /\ k + 1 \in 1..Len(order) /\ (k + 1) - 1 = k
    BY Positions
  <1>2. s \in Calls
    BY <1>1, ElementOfSeq DEF Types
  <1>3. /\ b \in Seq(Byte) /\ Len(b) \in 0..MaxInt
        /\ IsBody(b) /\ Parsed(b) = Message(s)
        /\ Field(b) \in Seq(Byte)
        /\ GetBytes(Len(b)) \in Seq(Byte) /\ Len(GetBytes(Len(b))) = 4
        /\ ToInt32[GetBytes(Len(b))] = Len(b)
        /\ Stands(Field(b), 0, GetBytes(Len(b)))
        /\ Stands(Field(b), 4, b)
    BY <1>2, FrameFacts DEF Types
  <1>4. Stands(T, at[k], Field(b)) /\ at[k + 1] = at[k] + 4 + Len(b)
    BY <1>1 DEF Stream
  <1> HIDE DEF k, s, b
  <1>5. Stands(T, at[k] + 0, GetBytes(Len(b))) /\ Stands(T, at[k] + 4, b)
    BY <1>1, <1>3, <1>4, StandsPart
  <1>6. at[k] + 0 = at[k] /\ Len(b) \in Nat
    BY <1>1, <1>3, LenProperties
  <1>7. Stands(T, at[k], GetBytes(Len(b)))
    BY <1>5, <1>6
  <1>8. /\ s \in Calls /\ k + 1 \in 1..Len(order)
        /\ b \in Seq(Byte) /\ Len(b) \in Nat
        /\ IsBody(b) /\ Parsed(b) = Message(s)
        /\ GetBytes(Len(b)) \in Seq(Byte) /\ Len(GetBytes(Len(b))) = 4
        /\ ToInt32[GetBytes(Len(b))] = Len(b)
        /\ Stands(T, at[k], GetBytes(Len(b)))
        /\ Stands(T, at[k] + 4, b)
        /\ at[k + 1] = at[k] + 4 + Len(b)
    BY <1>1, <1>2, <1>3, <1>4, <1>5, <1>6, <1>7
  <1> QED
    BY <1>8, Zenon DEF k, s, b

\* The receive loop has used what it read and goes on behind it.
LEMMA BytesTaken ==
    ASSUME Types, Results, NEW T, NEW at, Bytes(T, at), rpc # "closed",
           UNCHANGED <<lib, pc, pending, order, wire, shut>>,
           buffer' = <<>>, rpc' # "closed", ReadPos(at)' = ReadPos(at) + Len(buffer)
    PROVE  /\ Stream(T, at)'
           /\ Stands(T, ReadPos(at)', buffer')
           /\ Stands(T, ReadPos(at)' + Len(buffer'), wire')
           /\ (~shut => Sender(T, at))'
  <1>1. Stream(T, at) /\ Reader(T, at)
    BY DEF Bytes
  <1>2. /\ T \in Seq(Byte) /\ Len(T) \in Nat /\ ReadPos(at) \in Nat
        /\ Len(buffer) \in Nat /\ Len(wire) \in Nat
    BY <1>1, Positions
  <1>3. Len(buffer') = 0
    BY EmptySeq
  <1>4. /\ ReadPos(at)' + Len(buffer') = ReadPos(at) + Len(buffer)
        /\ ReadPos(at)' + Len(buffer') + Len(wire') = ReadPos(at) + Len(buffer) + Len(wire)
    BY <1>2, <1>3
  <1>5. Stands(T, ReadPos(at) + Len(buffer), wire)
    BY <1>1 DEF Reader
  <1>6. Stands(T, ReadPos(at)' + Len(buffer'), wire')
    BY <1>4, <1>5
  <1>7. Stands(T, ReadPos(at)', buffer')
    <2>1. ReadPos(at) + Len(buffer) \in Nat /\ ReadPos(at) + Len(buffer) <= Len(T)
      BY <1>2, <1>5 DEF Stands
    <2>2. Stands(T, ReadPos(at) + Len(buffer), <<>>)
      BY <1>2, <2>1, NothingStands
    <2> QED
      BY <2>2
  <1>8. Stream(T, at)'
    BY <1>1, StreamStays
  <1>9. Rest' = Rest
    BY DEF Rest
  <1>10. (~shut => Sender(T, at))'
    BY <1>4, <1>9 DEF Bytes, Sender
  <1> QED
    BY <1>6, <1>7, <1>8, <1>10

\* Four bytes read for a size are the size of the next frame.
LEMMA SizeReadIntact ==
    ASSUME Intact, SizeRead PROVE Intact' \/ Closed'
  <1>1. Types /\ Results
    BY DEF Intact
  <1>2. PICK T, at : Bytes(T, at)
    BY DEF Intact
  <1>3. rpc = "size" /\ Len(buffer) = 4 /\ UNCHANGED <<lib, pc, pending, order>>
    BY DEF SizeRead, senderVars
  <1>4. CASE ToInt32[buffer] < 0
    BY <1>3, <1>4, AbandonCloses DEF SizeRead
  <1>5. CASE ~(ToInt32[buffer] < 0)
    <2>1. /\ rpc' = "body" /\ need' = ToInt32[buffer] /\ buffer' = <<>>
          /\ UNCHANGED <<wire, shut, inbox>>
      BY <1>5 DEF SizeRead
    <2>2. Stream(T, at) /\ Reader(T, at)
      BY <1>2, <1>3 DEF Bytes
    <2>3. /\ T \in Seq(Byte) /\ Len(T) \in Nat
          /\ Len(order) \in Nat /\ Len(inbox) \in Nat /\ Len(inbox) <= Len(order)
          /\ at[Len(inbox)] \in Nat
      BY <1>1, <2>2, Positions
    <2>4. ReadPos(at) = at[Len(inbox)] /\ ReadPos(at)' = at[Len(inbox)] + 4
      BY <1>3, <2>1, <2>3 DEF ReadPos
    <2>5. Stands(T, at[Len(inbox)], buffer)
      BY <2>2, <2>4 DEF Reader
    <2>6. Len(inbox) < Len(order)
      <3>1. at[Len(inbox)] + 4 <= Len(T)
        BY <1>3, <2>5 DEF Stands
      <3>2. at[Len(order)] = Len(T)
        BY <2>2 DEF Stream
      <3>3. Len(inbox) # Len(order)
        BY <2>3, <3>1, <3>2
      <3> QED
        BY <2>3, <3>3
    <2> DEFINE b == BodyOf(order[Len(inbox) + 1])
    <2>7. /\ Len(b) \in Nat
          /\ GetBytes(Len(b)) \in Seq(Byte) /\ Len(GetBytes(Len(b))) = 4
          /\ ToInt32[GetBytes(Len(b))] = Len(b)
          /\ Stands(T, at[Len(inbox)], GetBytes(Len(b)))
      BY <1>1, <2>2, <2>6, NextFrame
    <2>8. b' = b
      BY <1>3, <2>1, MessagesStay
    <2> HIDE DEF b
    <2>9. buffer = GetBytes(Len(b))
      BY <1>1, <1>3, <2>3, <2>5, <2>7, StandSame DEF Types
    <2>10. need' = Len(b)
      BY <2>1, <2>7, <2>9
    <2>11. Types' /\ Results'
      BY <1>1, <1>3, <2>1, <2>7, <2>10, EmptySeq, ResultsStay DEF Types
    <2>12. /\ Stream(T, at)'
           /\ Stands(T, ReadPos(at)', buffer')
           /\ Stands(T, ReadPos(at)' + Len(buffer'), wire')
           /\ (~shut => Sender(T, at))'
      BY <1>1, <1>2, <1>3, <2>1, <2>4, BytesTaken
    <2>13. Reader(T, at)'
      <3>1. need' = Len(BodyOf(order[Len(inbox) + 1])')
        BY <2>8, <2>10 DEF b
      <3> QED
        BY <1>3, <2>1, <2>6, <2>12, <3>1 DEF Reader
    <2> QED
      BY <2>11, <2>12, <2>13 DEF Intact, Bytes
  <1> QED
    BY <1>4, <1>5

\* As many bytes as the size said are the fields of the next message.
LEMMA BodyReadIntact ==
    ASSUME Intact, BodyRead PROVE Intact'
  <1>1. Types /\ Results
    BY DEF Intact
  <1>2. PICK T, at : Bytes(T, at)
    BY DEF Intact
  <1>3. rpc = "body" /\ Len(buffer) = need /\ UNCHANGED <<lib, pc, pending, order>>
    BY DEF BodyRead, senderVars
  <1>4. Stream(T, at) /\ Reader(T, at)
    BY <1>2, <1>3 DEF Bytes
  <1>5. /\ T \in Seq(Byte) /\ Len(order) \in Nat /\ Len(inbox) \in Nat
        /\ at[Len(inbox)] \in Nat
    BY <1>1, <1>4, Positions
  <1>6. Len(inbox) < Len(order) /\ need = Len(BodyOf(order[Len(inbox) + 1]))
    BY <1>3, <1>4 DEF Reader
  <1>7. ReadPos(at) = at[Len(inbox)] + 4
    BY <1>3 DEF ReadPos
  <1> DEFINE k == Len(inbox)
             s == order[k + 1]
             b == BodyOf(s)
  <1>8. /\ s \in Calls /\ k + 1 \in 1..Len(order)
        /\ b \in Seq(Byte) /\ Len(b) \in Nat
        /\ IsBody(b) /\ Parsed(b) = Message(s)
        /\ Stands(T, at[k] + 4, b)
        /\ at[k + 1] = at[k] + 4 + Len(b)
    BY <1>1, <1>4, <1>6, NextFrame
  <1>9. need = Len(b)
    BY <1>6
  <1> HIDE DEF s, b
  <1>10. buffer = b
    <2>1. Stands(T, at[k] + 4, buffer)
      BY <1>4, <1>7 DEF Reader
    <2>2. buffer \in Seq(Byte)
      BY <1>1 DEF Types
    <2> QED
      BY <1>3, <1>5, <1>8, <1>9, <2>1, <2>2, StandSame
  <1>11. Hand(Message(s))
    BY <1>8, <1>10 DEF BodyRead
  <1>12. /\ inbox' = Append(inbox, Message(s)) /\ rpc' \in {"size", "busy"}
         /\ need' = 4 /\ buffer' = <<>> /\ UNCHANGED <<wire, shut>>
    BY <1>11 DEF Hand
  <1>13. /\ Len(inbox') = k + 1 /\ inbox'[k + 1] = Message(s)
         /\ \A i \in 1..k : inbox'[i] = inbox[i]
         /\ inbox' \in Seq({Message(t) : t \in Calls})
    <2>1. Message(s) \in {Message(t) : t \in Calls}
      BY <1>8
    <2>2. inbox \in Seq({Message(t) : t \in Calls})
      BY <1>1 DEF Results
    <2> HIDE DEF k
    <2>3. Len(inbox) = k
      BY DEF k
    <2> QED
      BY <1>12, <2>1, <2>2, <2>3, AppendProperties
  <1>14. Types'
    BY <1>1, <1>3, <1>12, EmptySeq DEF Types
  <1>15. Results'
    <2>1. \A t : Message(t)' = Message(t)
      BY <1>3, MessagesStay
    <2>2. {Message(t) : t \in Calls}' = {Message(t) : t \in Calls}
      BY <2>1
    <2>3. ASSUME NEW i \in 1..(k + 1) PROVE inbox'[i] = Message(order[i])
      <3>1. CASE i = k + 1
        BY <1>13, <3>1 DEF s
      <3>2. CASE i # k + 1
        <4>1. i \in 1..k
          BY <1>5, <3>2
        <4> QED
          BY <1>1, <1>13, <4>1 DEF Results
      <3> QED
        BY <3>1, <3>2
    <2>4. k + 1 <= Len(order)
      BY <1>5, <1>6
    <2> QED
      BY <1>3, <1>13, <2>1, <2>2, <2>3, <2>4 DEF Results
  <1>16. ReadPos(at)' = ReadPos(at) + Len(buffer)
    <2>1. ReadPos(at)' = at[k + 1] + 0
      BY <1>12, <1>13 DEF ReadPos
    <2> QED
      BY <1>5, <1>7, <1>8, <1>10, <2>1
  <1>17. /\ Stream(T, at)'
         /\ Stands(T, ReadPos(at)', buffer')
         /\ Stands(T, ReadPos(at)' + Len(buffer'), wire')
         /\ (~shut => Sender(T, at))'
    BY <1>1, <1>2, <1>3, <1>12, <1>16, BytesTaken
  <1>18. Reader(T, at)'
    BY <1>12, <1>17 DEF Reader
  <1> QED
    BY <1>14, <1>15, <1>17, <1>18 DEF Intact, Bytes

\* The connection ends; what was in it arrives or not.
LEMMA BreakIntact ==
    ASSUME Intact, Break PROVE Intact'
  <1>1. Types /\ Results
    BY DEF Intact
  <1>2. PICK T, at : Bytes(T, at)
    BY DEF Intact
  <1>3. /\ shut' = TRUE /\ wire' \in {wire, <<>>}
        /\ UNCHANGED <<lib, pc, pending, order, rpc, buffer, need, inbox>>
    BY DEF Break, senderVars, readerVars
  <1>4. Types' /\ Results'
    BY <1>1, <1>3, EmptySeq, ResultsStay DEF Types
  <1>5. Stream(T, at) /\ Stream(T, at)'
    BY <1>2, <1>3, StreamStays DEF Bytes
  <1>6. /\ T \in Seq(Byte) /\ Len(T) \in Nat /\ ReadPos(at) \in Nat
        /\ Len(buffer) \in Nat /\ Len(wire) \in Nat
    BY <1>1, <1>5, Positions
  <1>7. ReadPos(at)' = ReadPos(at)
    BY <1>3 DEF ReadPos
  <1>8. ASSUME rpc # "closed" PROVE Reader(T, at)'
    <2>1. Reader(T, at)
      BY <1>2, <1>8 DEF Bytes
    <2>2. /\ Stands(T, ReadPos(at), buffer)
          /\ Stands(T, ReadPos(at) + Len(buffer), wire)
      BY <2>1 DEF Reader
    <2>3. Stands(T, ReadPos(at) + Len(buffer), <<>>)
      <3>1. ReadPos(at) + Len(buffer) \in Nat /\ ReadPos(at) + Len(buffer) <= Len(T)
        BY <1>6, <2>2 DEF Stands
      <3> QED
        BY <1>6, <3>1, NothingStands
    <2>4. Stands(T, ReadPos(at) + Len(buffer), wire')
      BY <1>3, <2>2, <2>3
    <2> QED
      BY <1>3, <1>7, <2>1, <2>2, <2>4, MessagesStay DEF Reader
  <1> QED
    BY <1>3, <1>4, <1>5, <1>8 DEF Intact, Bytes

-----------------------------------------------------------------------------
(* The theorem.                                                            *)

Inv == ~mixed => Intact \/ Closed

\* Frames that were mixed once stay so.
LEMMA MixedStays ==
    ASSUME [Next]_vars, mixed PROVE mixed'
  BY DEF Next, SendAsync, Call, Write, WriteEnds, GiveUp, Transmit, RecieveMessages,
         Read, SizeRead, BodyRead, BodyTimeout, ReadEnd, Break, senderVars, vars

LEMMA StepIntact ==
    ASSUME Intact, [Next]_vars, ~mixed' PROVE Intact' \/ Closed'
  <1>1. ASSUME NEW s \in Calls, SendAsync(s) PROVE Intact'
    BY <1>1, CallIntact, WriteIntact, WriteEndsIntact, GiveUpIntact DEF SendAsync
  <1>2. ASSUME NEW s \in Calls, Transmit(s) PROVE Intact'
    BY <1>2, TransmitIntact
  <1>3. CASE Read
    BY <1>3, ReadIntact
  <1>4. CASE SizeRead
    BY <1>4, SizeReadIntact
  <1>5. CASE BodyRead
    BY <1>5, BodyReadIntact
  <1>6. CASE BodyTimeout \/ ReadEnd
    BY <1>6, AbandonCloses DEF BodyTimeout, ReadEnd, senderVars
  <1>7. CASE Break
    BY <1>7, BreakIntact
  <1>8. CASE UNCHANGED vars
    <2>1. UNCHANGED <<lib, pc, pending, wire, shut, order, readerVars>>
      BY <1>8 DEF vars, readerVars
    <2>2. pc' \in [Calls -> Places]
      BY <2>1 DEF Intact, Types
    <2> QED
      BY <2>1, <2>2, CallerMoves
  <1> QED
    BY <1>1, <1>2, <1>3, <1>4, <1>5, <1>6, <1>7, <1>8 DEF Next, RecieveMessages

\* Whatever the messages, the pieces in which their bytes are moved and the
\* moments at which callers give up, the connection breaks or the receive loop
\* ends: the loop reads the messages of SendAsync whole, and in the order in
\* which the callers took _writeLock, until a frame is begun behind one that a
\* timeout abandoned (InternalHubNetworkClient.SendAsync, RecieveMessages).
THEOREM FramesAreIntact == Spec => []FramesIntact
  <1>1. Init => Inv
    BY InitIntact DEF Inv
  <1>2. Inv /\ [Next]_vars => Inv'
    BY StepIntact, ClosedStays, MixedStays DEF Inv
  <1>3. Inv => FramesIntact
    <2> SUFFICES ASSUME Inv, ~mixed
                 PROVE  /\ Len(inbox) <= Len(order)
                        /\ \A i \in 1..Len(inbox) : inbox[i] = ReadAs(MessageOf[order[i]])
      BY DEF FramesIntact
    <2> QED
      BY DEF Inv, Intact, Closed, Results, Message
  <1> QED
    BY <1>1, <1>2, <1>3, PTL DEF Spec

=============================================================================
