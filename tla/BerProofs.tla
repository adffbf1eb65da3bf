----------------------------- MODULE BerProofs -----------------------------
(***************************************************************************)
(* The encoders and the parsers of a read over SNMP are exact: what one    *)
(* side encodes the other side reads, for every id of at most four bytes   *)
(* and every state of the agent.  An element (IsTlv) is read wherever a    *)
(* buffer holds it (Holds); a packet is elements within elements, and all  *)
(* of them are short enough for a length of one or two bytes.              *)
(***************************************************************************)
EXTENDS Snmp, SequenceTheorems, WellFoundedInduction, TLAPS

\* The order on the natural numbers.
Below == {ss \in Nat \X Nat : ss[1] < ss[2]}

\* A set of natural numbers has a least element.
LEMMA Least ==
  ASSUME NEW S \in SUBSET Nat, S # {}
  PROVE  \E n \in S : \A m \in S : n <= m
<1>1. IsWellFoundedOn(Below, Nat)
  BY NatLessThanWellFounded DEF OpToRel, Below
<1>2. PICK n \in S : \A m \in S : <<m, n>> \notin Below
  BY <1>1, WFMin
<1>3. \A m \in S : ~(m < n)
  BY <1>2 DEF Below
<1> QED
  BY <1>3

\* A function whose value at k rests on its value at a smaller number exists.
Recurrence(n, S, stop, base, prior, step) ==
  /\ n \in Nat /\ stop \in SUBSET (0 .. n)
  /\ base \in [0 .. n -> S] /\ prior \in [0 .. n -> 0 .. n]
  /\ step \in [0 .. n -> [S -> S]]
  /\ \A k \in (0 .. n) \ stop : prior[k] < k

\* Such a function.
Solution(f, n, S, stop, base, prior, step) ==
  /\ f \in [0 .. n -> S]
  /\ \A k \in 0 .. n : f[k] = IF k \in stop THEN base[k] ELSE step[k][f[prior[k]]]

\* There is a function that satisfies such a recurrence.
LEMMA Recursion ==
  ASSUME NEW n, NEW S, NEW stop, NEW base, NEW prior, NEW step,
         Recurrence(n, S, stop, base, prior, step)
  PROVE  \E f : Solution(f, n, S, stop, base, prior, step)
<1> USE DEF Recurrence
<1> DEFINE Solves(f, m) ==
             /\ f \in [0 .. m -> S]
             /\ \A k \in 0 .. m :
                  f[k] = IF k \in stop THEN base[k] ELSE step[k][f[prior[k]]]
           Unsolved == {m \in 0 .. n : ~ \E f : Solves(f, m)}
<1>1. ASSUME Unsolved # {} PROVE FALSE
  <2>1. PICK m \in Unsolved : \A k \in Unsolved : m <= k
    <3>1. Unsolved \in SUBSET Nat
      OBVIOUS
    <3> HIDE DEF Unsolved
    <3> QED
      BY <1>1, <3>1, Least
  <2>2. m \in 0 .. n
    OBVIOUS
  <2>3. CASE m = 0
    <3>1. 0 \in stop
      BY <2>2, <2>3
    <3> DEFINE f == [k \in 0 .. 0 |-> base[0]]
    <3>2. Solves(f, 0)
      BY <3>1
    <3> QED
      BY <2>1, <2>3, <3>2
  <2>4. CASE m # 0
    <3>1. m - 1 \in 0 .. n /\ m - 1 \notin Unsolved
      <4>1. m - 1 \in 0 .. n /\ ~(m <= m - 1)
        BY <2>2, <2>4
      <4> HIDE DEF Unsolved
      <4> QED
        BY <2>1, <4>1
    <3>2. PICK f : Solves(f, m - 1)
      BY <3>1
    <3> DEFINE g == [k \in 0 .. m |->
                       IF k < m THEN f[k]
                       ELSE IF m \in stop THEN base[m] ELSE step[m][f[prior[m]]]]
    <3>3. /\ \A k \in 0 .. m - 1 : k \in 0 .. m /\ k < m /\ k \in 0 .. n
          /\ \A k \in 0 .. m : k = m \/ k \in 0 .. m - 1
          /\ \A k \in (0 .. m) \ stop : prior[k] \in 0 .. m - 1
      BY <2>2, <2>4
    <3>4. m \notin stop => prior[m] \in 0 .. m - 1
      BY <2>2, <3>3
    <3>5. g \in [0 .. m -> S]
      BY <2>2, <3>2, <3>3, <3>4
    <3>6. \A k \in 0 .. m - 1 : g[k] = f[k]
      BY <3>3
    <3>7. g[m] = IF m \in stop THEN base[m] ELSE step[m][f[prior[m]]]
      BY <2>2
    <3> HIDE DEF g
    <3>8. \A k \in 0 .. m - 1 :
            g[k] = IF k \in stop THEN base[k] ELSE step[k][g[prior[k]]]
      BY <3>2, <3>3, <3>6
    <3>9. g[m] = IF m \in stop THEN base[m] ELSE step[m][g[prior[m]]]
      BY <3>4, <3>6, <3>7
    <3>10. Solves(g, m)
      BY <3>3, <3>5, <3>8, <3>9
    <3> QED
      BY <2>1, <3>10
  <2> QED
    BY <2>3, <2>4
<1>2. \E f : Solves(f, n)
  <2>1. n \in 0 .. n
    OBVIOUS
  <2> QED
    BY <1>1, <2>1
<1> QED
  BY <1>2 DEF Solution

-----------------------------------------------------------------------------
\* The bytes of a buffer are numbers.
LEMMA ByteAt ==
  ASSUME NEW bytes \in Seq(Byte)
  PROVE  /\ Len(bytes) \in Nat /\ DOMAIN bytes = 1 .. Len(bytes)
         /\ \A i \in 1 .. Len(bytes) : bytes[i] \in Byte /\ bytes[i] \in Nat
<1>1. Byte \subseteq Nat
  BY DEF Byte
<1>2. \A i \in 1 .. Len(bytes) : bytes[i] \in Byte
  OBVIOUS
<1>3. Len(bytes) \in Nat
  OBVIOUS
<1>4. DOMAIN bytes = 1 .. Len(bytes)
  OBVIOUS
<1> QED
  BY <1>1, <1>2, <1>3, <1>4

\* upTo[i] is the number that the first i bytes stand for.
Shift(bytes, upTo) ==
  /\ upTo \in [0 .. Len(bytes) -> Nat]
  /\ \A i \in 0 .. Len(bytes) :
       upTo[i] = IF i = 0 THEN 0 ELSE 256 * upTo[i - 1] + bytes[i]

\* What BigEndian computes from byte to byte.
LEMMA BigEndianUpTo ==
  ASSUME NEW bytes \in Seq(Byte)
  PROVE  \E upTo : Shift(bytes, upTo) /\ BigEndian(bytes) = upTo[Len(bytes)]
<1> DEFINE n == Len(bytes)
           stop == {0}
           base == [k \in 0 .. n |-> 0]
           prior == [k \in 0 .. n |-> IF k = 0 THEN 0 ELSE k - 1]
           step == [k \in 0 .. n |-> [x \in Nat |-> IF k = 0 THEN 0 ELSE 256 * x + bytes[k]]]
<1>1. n \in Nat /\ \A k \in 1 .. n : bytes[k] \in Nat
  BY ByteAt
<1>2. /\ stop \in SUBSET (0 .. n) /\ base \in [0 .. n -> Nat] /\ prior \in [0 .. n -> 0 .. n]
      /\ \A k \in (0 .. n) \ stop : prior[k] < k
  BY <1>1
<1>3. step \in [0 .. n -> [Nat -> Nat]]
  <2>1. \A k \in 0 .. n, x \in Nat : (IF k = 0 THEN 0 ELSE 256 * x + bytes[k]) \in Nat
    BY <1>1
  <2> QED
    BY <2>1
<1>4. Recurrence(n, Nat, stop, base, prior, step)
  BY <1>1, <1>2, <1>3 DEF Recurrence
<1>5. PICK f : Solution(f, n, Nat, stop, base, prior, step)
  <2> HIDE DEF n, stop, base, prior, step
  <2> QED
    BY <1>4, Recursion
<1>6. \A k \in 0 .. n : f[k] = IF k = 0 THEN 0 ELSE 256 * f[k - 1] + bytes[k]
  <2> TAKE k \in 0 .. n
  <2>1. CASE k = 0
    BY <1>5, <2>1 DEF Solution
  <2>2. CASE k # 0
    <3>1. k - 1 \in 0 .. n /\ prior[k] = k - 1
      BY <1>1, <2>2
    <3>3. f[k - 1] \in Nat
      <4> HIDE DEF n
      <4> QED
        BY <1>5, <3>1 DEF Solution
    <3>2. f[k] = step[k][f[k - 1]]
      BY <1>5, <2>2, <3>1 DEF Solution
    <3> QED
      BY <2>2, <3>1, <3>2, <3>3
  <2> QED
    BY <2>1, <2>2
<1> DEFINE IsUpTo(g) == g = [i \in 0 .. n |-> IF i = 0 THEN 0 ELSE 256 * g[i - 1] + bytes[i]]
<1>7. IsUpTo(f)
  BY <1>5, <1>6 DEF Solution
<1> DEFINE upTo == CHOOSE g : IsUpTo(g)
<1>8. IsUpTo(upTo)
  BY <1>7
<1>9. BigEndian(bytes) = upTo[n]
  BY DEF BigEndian
<1> HIDE DEF upTo
<1>10. \A i \in 0 .. n : upTo[i] = IF i = 0 THEN 0 ELSE 256 * upTo[i - 1] + bytes[i]
  BY <1>8
<1> DEFINE Bad == {i \in 0 .. n : upTo[i] \notin Nat}
<1>11. ASSUME Bad # {} PROVE FALSE
  <2>1. PICK i \in Bad : \A j \in Bad : i <= j
    <3>1. Bad \in SUBSET Nat
      BY <1>1
    <3> HIDE DEF Bad
    <3> QED
      BY <1>11, <3>1, Least
  <2>2. i # 0
    BY <1>1, <1>10
  <2>3. i - 1 \in 0 .. n /\ i - 1 \notin Bad
    BY <1>1, <2>1, <2>2
  <2>4. upTo[i - 1] \in Nat
    BY <2>3
  <2>5. i \in 1 .. n /\ bytes[i] \in Nat
    BY <1>1, <2>1, <2>2
  <2>6. upTo[i] = 256 * upTo[i - 1] + bytes[i]
    BY <1>10, <2>2, <2>5
  <2>7. upTo[i] \in Nat
    BY <2>4, <2>5, <2>6
  <2> QED
    BY <2>1, <2>7
<1>12. Shift(bytes, upTo)
  BY <1>8, <1>10, <1>11 DEF Shift
<1> QED
  BY <1>9, <1>12

\* The value of up to five bytes, one after the other.
LEMMA BigEndianOf ==
  ASSUME NEW bytes \in Seq(Byte)
  PROVE  /\ BigEndian(bytes) \in Nat
         /\ Len(bytes) = 0 => BigEndian(bytes) = 0
         /\ Len(bytes) = 1 => BigEndian(bytes) = bytes[1]
         /\ Len(bytes) = 2 => BigEndian(bytes) = 256 * bytes[1] + bytes[2]
         /\ Len(bytes) = 3 => BigEndian(bytes) = 256 * (256 * bytes[1] + bytes[2]) + bytes[3]
<1>1. PICK upTo : Shift(bytes, upTo) /\ BigEndian(bytes) = upTo[Len(bytes)]
  BY BigEndianUpTo
<1>2. Len(bytes) \in Nat /\ \A i \in 1 .. Len(bytes) : bytes[i] \in Nat
  BY ByteAt
<1>3. /\ upTo[0] = 0
      /\ \A i \in 1 .. Len(bytes) : upTo[i] = 256 * upTo[i - 1] + bytes[i]
  BY <1>1 DEF Shift
<1>4. Len(bytes) >= 1 => upTo[1] = bytes[1]
  BY <1>2, <1>3
<1>5. Len(bytes) >= 2 => upTo[2] = 256 * bytes[1] + bytes[2]
  BY <1>3, <1>4
<1>6. Len(bytes) >= 3 => upTo[3] = 256 * (256 * bytes[1] + bytes[2]) + bytes[3]
  BY <1>3, <1>5
<1>7. BigEndian(bytes) \in Nat
  BY <1>1, <1>2 DEF Shift
<1> QED
  BY <1>1, <1>3, <1>4, <1>5, <1>6, <1>7

-----------------------------------------------------------------------------
(* A buffer that holds an element at a position.                           *)

\* t is in the buffer, from position off on.
Holds(buf, off, t) ==
  /\ off \in Nat \ {0} /\ off + Len(t) <= Len(buf) + 1
  /\ \A j \in 1 .. Len(t) : buf[off + (j - 1)] = t[j]

\* One or two bytes of a buffer.
LEMMA SubSeqBytes ==
  ASSUME NEW buf \in Seq(Byte), NEW m \in 1 .. Len(buf)
  PROVE  /\ /\ SubSeq(buf, m, m) \in Seq(Byte) /\ Len(SubSeq(buf, m, m)) = 1
            /\ SubSeq(buf, m, m)[1] = buf[m]
         /\ m < Len(buf) =>
              /\ SubSeq(buf, m, m + 1) \in Seq(Byte) /\ Len(SubSeq(buf, m, m + 1)) = 2
              /\ SubSeq(buf, m, m + 1)[1] = buf[m] /\ SubSeq(buf, m, m + 1)[2] = buf[m + 1]
<1>1. m \in Int /\ m + 1 \in Int /\ Len(buf) \in Nat /\ m >= 1 /\ m <= Len(buf)
  OBVIOUS
<1>2. ASSUME NEW k \in m .. Len(buf)
      PROVE  /\ SubSeq(buf, m, k) \in Seq(Byte) /\ Len(SubSeq(buf, m, k)) = k - m + 1
             /\ \A i \in 1 .. k - m + 1 : SubSeq(buf, m, k)[i] = buf[m + i - 1]
  <2>1. k \in Int /\ m <= k
    BY <1>1
  <2>2. \A i \in m .. k : buf[i] \in Byte
    BY <1>1, ByteAt
  <2> QED
    BY <1>1, <2>1, <2>2, SubSeqProperties
<1>3. /\ SubSeq(buf, m, m) \in Seq(Byte) /\ Len(SubSeq(buf, m, m)) = 1
      /\ SubSeq(buf, m, m)[1] = buf[m]
  <2>1. m \in m .. Len(buf) /\ m - m + 1 = 1 /\ 1 \in 1 .. m - m + 1 /\ m + 1 - 1 = m
    BY <1>1
  <2>2. /\ SubSeq(buf, m, m) \in Seq(Byte) /\ Len(SubSeq(buf, m, m)) = m - m + 1
        /\ \A i \in 1 .. m - m + 1 : SubSeq(buf, m, m)[i] = buf[m + i - 1]
    BY <1>2, <2>1
  <2> QED
    BY <2>1, <2>2
<1>4. ASSUME m < Len(buf)
      PROVE  /\ SubSeq(buf, m, m + 1) \in Seq(Byte) /\ Len(SubSeq(buf, m, m + 1)) = 2
             /\ SubSeq(buf, m, m + 1)[1] = buf[m] /\ SubSeq(buf, m, m + 1)[2] = buf[m + 1]
  <2> DEFINE k == m + 1
  <2>1. k \in m .. Len(buf) /\ k - m + 1 = 2 /\ m + 1 - 1 = m /\ m + 2 - 1 = k
    BY <1>1, <1>4
  <2> HIDE DEF k
  <2>2. /\ SubSeq(buf, m, k) \in Seq(Byte) /\ Len(SubSeq(buf, m, k)) = k - m + 1
        /\ \A i \in 1 .. k - m + 1 : SubSeq(buf, m, k)[i] = buf[m + i - 1]
    BY <1>2, <2>1
  <2>3. /\ SubSeq(buf, m, k) \in Seq(Byte) /\ Len(SubSeq(buf, m, k)) = 2
        /\ SubSeq(buf, m, k)[1] = buf[m] /\ SubSeq(buf, m, k)[2] = buf[k]
    BY <2>1, <2>2
  <2> QED
    BY <2>3 DEF k
<1> QED
  BY <1>3, <1>4

\* What is held is cut out unchanged.
LEMMA SubSeqHeld ==
  ASSUME NEW buf \in Seq(Byte), NEW off, NEW t \in Seq(Byte), Holds(buf, off, t)
  PROVE  SubSeq(buf, off, off + Len(t) - 1) = t
<1>1. /\ Len(t) \in Nat /\ off \in Nat \ {0} /\ off + Len(t) <= Len(buf) + 1
      /\ Len(buf) \in Nat
  BY ByteAt DEF Holds
<1> DEFINE u == SubSeq(buf, off, off + Len(t) - 1)
<1>2. u \in Seq(Byte) /\ Len(u) = Len(t)
  BY <1>1, SubSeqProperties
<1>3. \A j \in 1 .. Len(t) : u[j] = buf[off + j - 1]
  BY <1>1, SubSeqProperties
<1>4. \A j \in 1 .. Len(t) : u[j] = t[j]
  BY <1>1, <1>3 DEF Holds
<1> HIDE DEF u
<1>5. u = t
  BY <1>2, <1>4, SeqEqual
<1> QED
  BY <1>5 DEF u

\* The parts of what is held.
LEMMA HeldParts ==
  ASSUME NEW buf \in Seq(Byte), NEW off, NEW t \in Seq(Byte), NEW u \in Seq(Byte),
         Holds(buf, off, t \o u)
  PROVE  /\ Holds(buf, off, t)
         /\ Holds(buf, off + Len(t), u)
<1>1. /\ Len(t) \in Nat /\ Len(u) \in Nat /\ Len(t \o u) = Len(t) + Len(u)
      /\ off \in Nat \ {0} /\ off + Len(t) + Len(u) <= Len(buf) + 1 /\ Len(buf) \in Nat
  BY ByteAt DEF Holds
<1>2. \A j \in 1 .. Len(t) : (t \o u)[j] = t[j]
  OBVIOUS
<1>3. \A j \in 1 .. Len(u) : (t \o u)[Len(t) + j] = u[j]
  OBVIOUS
<1>4. \A j \in 1 .. Len(t) + Len(u) : buf[off + (j - 1)] = (t \o u)[j]
  BY <1>1 DEF Holds
<1>5. Holds(buf, off, t)
  BY <1>1, <1>2, <1>4 DEF Holds
<1>6. ASSUME NEW j \in 1 .. Len(u) PROVE buf[off + Len(t) + (j - 1)] = u[j]
  <2>1. Len(t) + j \in 1 .. Len(t) + Len(u)
    BY <1>1
  <2>2. off + ((Len(t) + j) - 1) = off + Len(t) + (j - 1)
    BY <1>1
  <2> QED
    BY <1>3, <1>4, <2>1, <2>2
<1>7. Holds(buf, off + Len(t), u)
  BY <1>1, <1>6 DEF Holds
<1> QED
  BY <1>5, <1>7

\* A buffer holds itself.
LEMMA HoldsItself ==
  ASSUME NEW buf \in Seq(Byte)
  PROVE  Holds(buf, 1, buf)
  BY ByteAt DEF Holds

\* What is held in something held.
LEMMA HeldInHeld ==
  ASSUME NEW buf \in Seq(Byte), NEW off, NEW t \in Seq(Byte), NEW at, NEW u \in Seq(Byte),
         Holds(buf, off, t), Holds(t, at, u)
  PROVE  Holds(buf, off + (at - 1), u)
<1>1. /\ Len(t) \in Nat /\ Len(u) \in Nat /\ Len(buf) \in Nat
      /\ off \in Nat \ {0} /\ off + Len(t) <= Len(buf) + 1
      /\ at \in Nat \ {0} /\ at + Len(u) <= Len(t) + 1
  BY ByteAt DEF Holds
<1>2. ASSUME NEW j \in 1 .. Len(u) PROVE buf[off + (at - 1) + (j - 1)] = u[j]
  <2>1. at + (j - 1) \in 1 .. Len(t) /\ t[at + (j - 1)] = u[j]
    BY <1>1 DEF Holds
  <2>2. buf[off + ((at + (j - 1)) - 1)] = t[at + (j - 1)]
    BY <2>1 DEF Holds
  <2>3. off + ((at + (j - 1)) - 1) = off + (at - 1) + (j - 1)
    BY <1>1
  <2> QED
    BY <2>1, <2>2, <2>3
<1> QED
  BY <1>1, <1>2 DEF Holds

\* e encodes the length n, which is below 256.
IsLength(e, n) ==
  /\ e \in Seq(Byte)
  /\ \/ Len(e) = 1 /\ e[1] = n /\ n < 128
     \/ Len(e) = 2 /\ e[1] = 129 /\ e[2] = n /\ n >= 128

\* A length that is held is read back, with the bytes it takes.
LEMMA ReadLenHeld ==
  ASSUME NEW buf \in Seq(Byte), NEW off, NEW n \in Nat, NEW e, IsLength(e, n),
         Holds(buf, off, e)
  PROVE  ReadLen(buf, off) = [len |-> n, consumed |-> Len(e)]
<1>1. /\ e \in Seq(Byte) /\ off \in Nat \ {0} /\ off + Len(e) <= Len(buf) + 1
      /\ Len(buf) \in Nat /\ Len(e) \in 1 .. 2
  BY ByteAt DEF IsLength, Holds
<1>2. buf[off] = e[1]
  BY <1>1 DEF Holds
<1>3. CASE Len(e) = 1 /\ e[1] = n /\ n < 128
  BY <1>2, <1>3 DEF ReadLen
<1>4. CASE Len(e) = 2 /\ e[1] = 129 /\ e[2] = n
  <2> DEFINE b == SubSeq(buf, off + 1, off + 1)
  <2>1. buf[off + 1] = e[2]
    <3>1. buf[off + (2 - 1)] = e[2]
      BY <1>1, <1>4 DEF Holds
    <3> QED
      BY <3>1
  <2>2. b \in Seq(Byte) /\ Len(b) = 1 /\ b[1] = buf[off + 1]
    <3> DEFINE m == off + 1
    <3>1. m \in 1 .. Len(buf)
      BY <1>1, <1>4
    <3>2. /\ SubSeq(buf, m, m) \in Seq(Byte) /\ Len(SubSeq(buf, m, m)) = 1
          /\ SubSeq(buf, m, m)[1] = buf[m]
      <4> HIDE DEF m
      <4> QED
        BY <3>1, SubSeqBytes
    <3> QED
      BY <3>2
  <2>3. BigEndian(b) = n
    BY <1>4, <2>1, <2>2, BigEndianOf
  <2>4. e[1] % 128 = 1 /\ ~(e[1] < 128)
    BY <1>4
  <2> HIDE DEF b
  <2> QED
    BY <1>2, <1>4, <2>3, <2>4 DEF ReadLen, b
<1> QED
  BY <1>3, <1>4 DEF IsLength

\* t is a tag, a length and a value.
IsTlv(t, tag, value) ==
  /\ tag \in Byte /\ value \in Seq(Byte)
  /\ \E e : IsLength(e, Len(value)) /\ t = <<tag>> \o e \o value

\* The bytes of a tag, a length and a value.
LEMMA Framed ==
  ASSUME NEW tag \in Byte, NEW e \in Seq(Byte), NEW value \in Seq(Byte)
  PROVE  /\ <<tag>> \in Seq(Byte) /\ Len(<<tag>>) = 1
         /\ <<tag>> \o e \in Seq(Byte) /\ Len(<<tag>> \o e) = 1 + Len(e)
         /\ <<tag>> \o e \o value \in Seq(Byte)
         /\ Len(<<tag>> \o e \o value) = 1 + Len(e) + Len(value)
         /\ Len(e) \in Nat /\ Len(value) \in Nat
<1>1. <<tag>> \in Seq(Byte) /\ Len(<<tag>>) = 1
  OBVIOUS
<1> DEFINE h == <<tag>> \o e
<1>2. h \in Seq(Byte) /\ Len(h) = 1 + Len(e)
  BY <1>1
<1> HIDE DEF h
<1>3. h \o value \in Seq(Byte) /\ Len(h \o value) = Len(h) + Len(value)
  BY <1>2
<1>4. Len(e) \in Nat /\ Len(value) \in Nat
  OBVIOUS
<1> QED
  BY <1>1, <1>2, <1>3, <1>4 DEF h

\* Tag and length take two bytes, or three.
LEMMA TlvSize ==
  ASSUME NEW t, NEW tag, NEW value, IsTlv(t, tag, value)
  PROVE  /\ t \in Seq(Byte)
         /\ Len(value) + 2 <= Len(t) /\ Len(t) <= Len(value) + 3
         /\ Len(value) < 128 => Len(t) = Len(value) + 2
         /\ tag \in Byte /\ value \in Seq(Byte) /\ Len(value) \in Nat
<1>1. PICK e : IsLength(e, Len(value)) /\ t = <<tag>> \o e \o value
  BY DEF IsTlv
<1>2. tag \in Byte /\ e \in Seq(Byte) /\ value \in Seq(Byte)
  BY <1>1 DEF IsLength, IsTlv
<1>3. t \in Seq(Byte) /\ Len(t) = 1 + Len(e) + Len(value)
  BY <1>1, <1>2, Framed
<1>4. Len(value) \in Nat /\ Len(e) \in Nat
  BY <1>2
<1> DEFINE n == Len(value)
           k == Len(e)
<1>5. n \in Nat /\ k \in Nat /\ k >= 1 /\ k <= 2 /\ (n < 128 => k = 1)
  <2>1. IsLength(e, n)
    BY <1>1
  <2>2. n \in Nat
    BY <1>4
  <2>3. \/ k = 1 /\ n < 128
        \/ k = 2 /\ n >= 128
    BY <2>1 DEF IsLength
  <2> HIDE DEF n, k
  <2> QED
    BY <2>2, <2>3
<1>6. Len(value) + 2 <= Len(t) /\ Len(t) <= Len(value) + 3
  BY <1>3, <1>4, <1>5
<1>7. n < 128 => Len(t) = n + 2
  <2>1. Len(t) = 1 + k + n
    BY <1>3
  <2> HIDE DEF n, k
  <2> QED
    BY <1>5, <2>1
<1> QED
  BY <1>2, <1>3, <1>4, <1>6, <1>7

\* What ReadTLV reads, without its abbreviations.
LEMMA ReadTLVIs ==
  ASSUME NEW buf, NEW off, NEW l, l = ReadLen(buf, off + 1)
  PROVE  ReadTLV(buf, off) =
           [tag   |-> buf[off],
            value |-> SubSeq(buf, off + 1 + l.consumed, off + 1 + l.consumed + l.len - 1),
            total |-> 1 + l.consumed + l.len]
  BY DEF ReadTLV

\* An element is read wherever it is held.
LEMMA TlvRead ==
  ASSUME NEW buf \in Seq(Byte), NEW off, NEW t, NEW tag, NEW value,
         IsTlv(t, tag, value), Holds(buf, off, t)
  PROVE  /\ ReadTLV(buf, off) = [tag |-> tag, value |-> value, total |-> Len(t)]
         /\ After(buf, off) = off + Len(t)
<1>1. PICK e : IsLength(e, Len(value)) /\ t = <<tag>> \o e \o value
  BY DEF IsTlv
<1>0. tag \in Byte /\ e \in Seq(Byte) /\ value \in Seq(Byte)
  BY <1>1 DEF IsLength, IsTlv
<1>2. /\ e \in Seq(Byte) /\ value \in Seq(Byte) /\ <<tag>> \in Seq(Byte)
      /\ <<tag>> \o e \in Seq(Byte) /\ Len(<<tag>> \o e) = 1 + Len(e)
      /\ Len(<<tag>>) = 1 /\ Len(value) \in Nat /\ Len(e) \in Nat
      /\ Len(t) = 1 + Len(e) + Len(value)
  BY <1>0, <1>1, Framed
<1>3. Holds(buf, off, <<tag>> \o e) /\ Holds(buf, off + (1 + Len(e)), value)
  BY <1>1, <1>2, HeldParts
<1>4. Holds(buf, off, <<tag>>) /\ Holds(buf, off + 1, e)
  BY <1>2, <1>3, HeldParts
<1>5. off \in Nat
  BY DEF Holds
<1>6. buf[off] = tag
  <2>1. buf[off + (1 - 1)] = <<tag>>[1]
    BY <1>2, <1>4 DEF Holds
  <2> QED
    BY <1>5, <2>1
<1>7. ReadLen(buf, off + 1) = [len |-> Len(value), consumed |-> Len(e)]
  BY <1>1, <1>2, <1>4, ReadLenHeld
<1> DEFINE from == off + 1 + Len(e)
<1>8. SubSeq(buf, from, from + Len(value) - 1) = value
  <2>1. from = off + (1 + Len(e))
    BY <1>2, <1>5
  <2> HIDE DEF from
  <2> QED
    BY <1>2, <1>3, <2>1, SubSeqHeld
<1>9. ReadTLV(buf, off) = [tag |-> tag, value |-> value, total |-> Len(t)]
  <2> DEFINE l == ReadLen(buf, off + 1)
  <2>1. l.len = Len(value) /\ l.consumed = Len(e)
    BY <1>7
  <2> HIDE DEF l
  <2>2. SubSeq(buf, off + 1 + l.consumed, off + 1 + l.consumed + l.len - 1) = value
    BY <1>8, <2>1
  <2>3. 1 + l.consumed + l.len = Len(t)
    BY <1>2, <2>1
  <2>4. ReadTLV(buf, off) =
          [tag   |-> buf[off],
           value |-> SubSeq(buf, off + 1 + l.consumed, off + 1 + l.consumed + l.len - 1),
           total |-> 1 + l.consumed + l.len]
    BY ReadTLVIs DEF l
  <2> QED
    BY <1>6, <2>2, <2>3, <2>4
<1> QED
  BY <1>9 DEF After
-----------------------------------------------------------------------------
(* Sequences of elements.                                                  *)

\* f[i] is the first i parts, one after the other.
Flattened(list, f) ==
  /\ f \in [1 .. Len(list) -> Seq(Byte)] /\ f[1] = list[1]
  /\ \A i \in 2 .. Len(list) : f[i] = f[i - 1] \o list[i]

\* Flattening appends one part after the other.
LEMMA FlattenUpTo ==
  ASSUME NEW list \in Seq(Seq(Byte)), Len(list) # 0
  PROVE  \E f : Flattened(list, f) /\ FlattenSeq(list) = f[Len(list)]
<1> DEFINE n == Len(list)
           S == Seq(Byte)
           stop == {0, 1}
           base == [k \in 0 .. n |-> IF k = 0 THEN <<>> ELSE list[k]]
           prior == [k \in 0 .. n |-> IF k = 0 THEN 0 ELSE k - 1]
           step == [k \in 0 .. n |-> [x \in S |-> IF k = 0 THEN x ELSE x \o list[k]]]
<1>1. n \in Nat \ {0} /\ \A k \in 1 .. n : list[k] \in S
  OBVIOUS
<1>2. stop \in SUBSET (0 .. n) /\ prior \in [0 .. n -> 0 .. n]
  BY <1>1
<1>3. \A k \in (0 .. n) \ stop : prior[k] < k
  BY <1>1
<1>4. base \in [0 .. n -> S]
  <2>1. <<>> \in S
    OBVIOUS
  <2> HIDE DEF S, n
  <2> QED
    BY <1>1, <2>1
<1>5. step \in [0 .. n -> [S -> S]]
  <2>1. ASSUME NEW k \in 0 .. n, NEW x \in S PROVE (IF k = 0 THEN x ELSE x \o list[k]) \in S
    <3>1. k # 0 => list[k] \in S
      BY <1>1
    <3> QED
      BY <3>1
  <2> HIDE DEF S, n
  <2> QED
    BY <2>1
<1>6. Recurrence(n, S, stop, base, prior, step)
  BY <1>1, <1>2, <1>3, <1>4, <1>5 DEF Recurrence
<1>7. PICK g : Solution(g, n, S, stop, base, prior, step)
  <2> HIDE DEF n, S, stop, base, prior, step
  <2> QED
    BY <1>6, Recursion
<1>8. \A i \in 1 .. n : g[i] = IF i = 1 THEN list[i] ELSE g[i - 1] \o list[i]
  <2> TAKE i \in 1 .. n
  <2>0. i \in 0 .. n
    OBVIOUS
  <2>1. CASE i = 1
    <3>1. g[i] = base[i]
      BY <1>7, <2>0, <2>1 DEF Solution
    <3> QED
      BY <2>0, <2>1, <3>1
  <2>2. CASE i # 1
    <3>1. i - 1 \in 0 .. n /\ prior[i] = i - 1 /\ i \notin stop
      BY <1>1, <2>2
    <3>2. g[i - 1] \in S
      <4> HIDE DEF n, S
      <4> QED
        BY <1>7, <3>1 DEF Solution
    <3>3. g[i] = step[i][g[i - 1]]
      <4> HIDE DEF n, S, step, stop, prior, base
      <4> QED
        BY <1>7, <2>0, <3>1 DEF Solution
    <3>4. step[i][g[i - 1]] = g[i - 1] \o list[i]
      <4>1. i # 0
        OBVIOUS
      <4>2. step[i] = [x \in S |-> x \o list[i]]
        <5> HIDE DEF S, n
        <5> QED
          BY <2>0, <4>1
      <4> HIDE DEF S, n, step
      <4> QED
        BY <3>2, <4>2
    <3> QED
      BY <2>2, <3>3, <3>4
  <2> QED
    BY <2>1, <2>2
<1> DEFINE IsUpTo(f) ==
             f = [i \in 1 .. n |-> IF i = 1 THEN list[i] ELSE f[i - 1] \o list[i]]
<1>9. \E f : IsUpTo(f)
  <2> DEFINE h == [i \in 1 .. n |-> g[i]]
  <2>1. \A i \in 1 .. n : h[i] = IF i = 1 THEN list[i] ELSE h[i - 1] \o list[i]
    <3> TAKE i \in 1 .. n
    <3>1. i # 1 => i - 1 \in 1 .. n
      OBVIOUS
    <3>2. h[i] = g[i] /\ (i # 1 => h[i - 1] = g[i - 1])
      BY <3>1
    <3> QED
      BY <1>8, <3>2
  <2>2. h = [i \in 1 .. n |-> h[i]]
    OBVIOUS
  <2>3. IsUpTo(h)
    <3> HIDE DEF h
    <3> QED
      BY <2>1, <2>2
  <2> QED
    BY <2>3
<1> DEFINE f == CHOOSE h : IsUpTo(h)
<1>10. IsUpTo(f)
  BY <1>9
<1>11. FlattenSeq(list) = f[n]
  BY DEF FlattenSeq
<1> HIDE DEF f
<1>12. DOMAIN f = 1 .. n /\ \A i \in 1 .. n : f[i] = IF i = 1 THEN list[i] ELSE f[i - 1] \o list[i]
  BY <1>10
<1>13. f = [i \in 1 .. n |-> f[i]]
  BY <1>10
<1> DEFINE Bad == {i \in 1 .. n : f[i] \notin S}
<1>14. ASSUME Bad # {} PROVE FALSE
  <2>1. PICK i \in Bad : \A j \in Bad : i <= j
    <3>1. Bad \in SUBSET Nat
      BY <1>1
    <3> HIDE DEF Bad
    <3> QED
      BY <1>14, <3>1, Least
  <2>2. i \in 1 .. n /\ f[i] \notin S
    BY <2>1
  <2>3. i # 1
    BY <1>1, <1>12, <2>2
  <2>4. i - 1 \in 1 .. n /\ ~(i <= i - 1)
    BY <2>2, <2>3
  <2>5. f[i - 1] \in S
    BY <2>1, <2>4
  <2>6. f[i] = f[i - 1] \o list[i] /\ list[i] \in S
    BY <1>1, <1>12, <2>2, <2>3
  <2>7. f[i] \in S
    BY <2>5, <2>6
  <2> QED
    BY <2>2, <2>7
<1>15. f \in [1 .. n -> S]
  <2>1. \A i \in 1 .. n : f[i] \in S
    BY <1>14
  <2> HIDE DEF S, n
  <2> QED
    BY <1>13, <2>1
<1>16. Flattened(list, f)
  <2>1. f[1] = list[1]
    <3>1. 1 \in 1 .. n
      BY <1>1
    <3> QED
      BY <1>12, <3>1
  <2>2. \A i \in 2 .. n : f[i] = f[i - 1] \o list[i]
    <3>1. \A i \in 2 .. n : i \in 1 .. n /\ i # 1
      BY <1>1
    <3> QED
      BY <1>12, <3>1
  <2> QED
    BY <1>15, <2>1, <2>2 DEF Flattened
<1> QED
  BY <1>11, <1>16

\* Induction over the numbers up to n, for a set.
LEMMA UpTo ==
  ASSUME NEW n \in Nat, NEW S \in SUBSET (0 .. n), 0 \in S, \A k \in S : k < n => k + 1 \in S
  PROVE  \A k \in 0 .. n : k \in S
<1> DEFINE Bad == (0 .. n) \ S
<1>1. ASSUME Bad # {} PROVE FALSE
  <2>1. PICK k \in Bad : \A j \in Bad : k <= j
    <3>1. Bad \in SUBSET Nat
      OBVIOUS
    <3> HIDE DEF Bad
    <3> QED
      BY <1>1, <3>1, Least
  <2>2. k \in 0 .. n /\ k \notin S /\ k # 0
    BY <2>1
  <2>3. k - 1 \in 0 .. n /\ ~(k <= k - 1) /\ k - 1 < n /\ (k - 1) + 1 = k
    BY <2>2
  <2>4. k - 1 \in S
    BY <2>1, <2>3
  <2>5. k \in S
    BY <2>3, <2>4
  <2> QED
    BY <2>2, <2>5
<1> QED
  BY <1>1

\* Where the elements of a flattened sequence are.
StartAt(f, i) == IF i = 1 THEN 1 ELSE 1 + Len(f[i - 1])

\* As far as a part, the flattened sequence ends with that part.
LEMMA FlattenedAt ==
  ASSUME NEW list \in Seq(Seq(Byte)), NEW f, Flattened(list, f), Len(list) # 0
  PROVE  \A i \in 1 .. Len(list) :
           /\ f[i] \in Seq(Byte) /\ list[i] \in Seq(Byte)
           /\ StartAt(f, i) \in Nat \ {0} /\ Len(list[i]) \in Nat
           /\ Len(f[i]) = StartAt(f, i) - 1 + Len(list[i])
           /\ Holds(f[i], StartAt(f, i), list[i])
<1> TAKE i \in 1 .. Len(list)
<1>1. f[i] \in Seq(Byte) /\ list[i] \in Seq(Byte)
  BY DEF Flattened
<1>2. Len(f[i]) \in Nat /\ Len(list[i]) \in Nat
  BY <1>1
<1>3. CASE i = 1
  <2>1. f[i] = list[i] /\ StartAt(f, i) = 1
    BY <1>3 DEF Flattened, StartAt
  <2>2. Holds(f[i], 1, list[i])
    BY <1>1, <2>1, HoldsItself
  <2> QED
    BY <1>1, <1>2, <2>1, <2>2
<1>4. CASE i # 1
  <2>1. i - 1 \in 1 .. Len(list) /\ i \in 2 .. Len(list)
    BY <1>4
  <2>2. f[i - 1] \in Seq(Byte) /\ f[i] = f[i - 1] \o list[i]
    BY <2>1 DEF Flattened
  <2>3. StartAt(f, i) = 1 + Len(f[i - 1])
    BY <1>4 DEF StartAt
  <2>4. Len(f[i - 1]) \in Nat /\ Len(f[i]) = Len(f[i - 1]) + Len(list[i])
    BY <1>1, <2>2, ConcatProperties
  <2>5. Holds(f[i], 1, f[i - 1] \o list[i])
    BY <1>1, <2>2, HoldsItself
  <2>6. Holds(f[i], 1 + Len(f[i - 1]), list[i])
    BY <1>1, <2>2, <2>5, HeldParts
  <2> QED
    BY <1>1, <1>2, <2>3, <2>4, <2>6
<1> QED
  BY <1>3, <1>4

\* A flattened sequence holds all of its parts.
LEMMA FlattenedHeld ==
  ASSUME NEW list \in Seq(Seq(Byte)), NEW f, Flattened(list, f), Len(list) # 0
  PROVE  \A i \in 1 .. Len(list) : Holds(f[Len(list)], StartAt(f, i), list[i])
<1> DEFINE n == Len(list)
           S == {d \in 0 .. n - 1 : Holds(f[n], 1, f[n - d])}
<1>1. n \in Nat \ {0} /\ n - 1 \in Nat
  OBVIOUS
<1>2. \A i \in 1 .. n : f[i] \in Seq(Byte) /\ list[i] \in Seq(Byte)
  BY FlattenedAt
<1>3. 0 \in S
  <2>1. n \in 1 .. n /\ n - 0 = n /\ 0 \in 0 .. n - 1
    BY <1>1
  <2>2. Holds(f[n], 1, f[n])
    BY <1>2, <2>1, HoldsItself
  <2> QED
    BY <2>1, <2>2
<1>4. ASSUME NEW d \in S, d < n - 1 PROVE d + 1 \in S
  <2>1. /\ n - d \in 2 .. n /\ n - (d + 1) \in 1 .. n /\ n - (d + 1) = (n - d) - 1
        /\ d + 1 \in 0 .. n - 1 /\ n - d \in 1 .. n /\ n \in 1 .. n
    BY <1>1, <1>4
  <2>2. Holds(f[n], 1, f[(n - d) - 1] \o list[n - d])
    BY <2>1 DEF Flattened
  <2>3. Holds(f[n], 1, f[(n - d) - 1])
    <3>1. f[(n - d) - 1] \in Seq(Byte) /\ list[n - d] \in Seq(Byte) /\ f[n] \in Seq(Byte)
      BY <1>2, <2>1
    <3> QED
      BY <2>2, <3>1, HeldParts
  <2> QED
    BY <2>1, <2>3
<1>5. \A d \in 0 .. n - 1 : d \in S
  <2>1. S \in SUBSET (0 .. n - 1)
    OBVIOUS
  <2> DEFINE m == n - 1
  <2>2. m \in Nat /\ S \in SUBSET (0 .. m) /\ \A d \in S : d < m => d + 1 \in S
    BY <1>1, <1>4, <2>1
  <2> HIDE DEF S, m
  <2>3. \A d \in 0 .. m : d \in S
    BY <1>3, <2>2, UpTo
  <2> QED
    BY <2>3 DEF m
<1> TAKE i \in 1 .. n
<1>6. n - i \in 0 .. n - 1 /\ n - (n - i) = i /\ n \in 1 .. n
  BY <1>1
<1>7. Holds(f[n], 1, f[i])
  <2>1. n - i \in S
    BY <1>5, <1>6
  <2> QED
    BY <1>6, <2>1
<1>8. /\ Holds(f[i], StartAt(f, i), list[i]) /\ StartAt(f, i) \in Nat
      /\ f[n] \in Seq(Byte) /\ f[i] \in Seq(Byte) /\ list[i] \in Seq(Byte)
  BY <1>6, FlattenedAt
<1>9. Holds(f[n], 1 + (StartAt(f, i) - 1), list[i])
  BY <1>7, <1>8, HeldInHeld
<1> QED
  BY <1>8, <1>9

\* What ReadAll reads from a position on.
ReadsFrom(buf, from) ==
  \A off \in 1 .. Len(buf) + 1 :
    from[off] = IF off > Len(buf) THEN <<>>
                ELSE <<ReadTLV(buf, off)>> \o
                     (IF After(buf, off) \in off + 1 .. Len(buf) + 1
                        THEN from[After(buf, off)] ELSE <<>>)

\* What ReadAll computes from position to position.
LEMMA ReadAllFrom ==
  ASSUME NEW buf \in Seq(Byte)
  PROVE  \E from : ReadsFrom(buf, from) /\ ReadAll(buf) = from[1]
<1> DEFINE n == Len(buf)
           At(k) == n + 1 - k
           Goes(k) == After(buf, At(k)) \in At(k) + 1 .. n + 1
           S == Seq({ReadTLV(buf, off) : off \in 1 .. n + 1})
           stop == {k \in 0 .. n : k = 0 \/ ~Goes(k)}
           base == [k \in 0 .. n |-> IF k = 0 THEN <<>> ELSE <<ReadTLV(buf, At(k))>> \o <<>>]
           prior == [k \in 0 .. n |-> IF k \in stop THEN 0 ELSE n + 1 - After(buf, At(k))]
           step == [k \in 0 .. n |-> [x \in S |-> <<ReadTLV(buf, At(k))>> \o x]]
<1>1. n \in Nat
  OBVIOUS
<1>2. \A k \in 0 .. n : At(k) \in 1 .. n + 1 /\ n + 1 - At(k) = k /\ (k # 0 <=> ~(At(k) > n))
  BY <1>1
<1>3. \A k \in 0 .. n : <<ReadTLV(buf, At(k))>> \in S
  BY <1>2
<1>4. \A k \in (0 .. n) \ stop :
        n + 1 - After(buf, At(k)) \in 0 .. n /\ n + 1 - After(buf, At(k)) < k
  <2> TAKE k \in (0 .. n) \ stop
  <2>1. Goes(k) /\ k \in 0 .. n
    OBVIOUS
  <2> DEFINE a == After(buf, At(k))
  <2>2. a \in n + 1 - k + 1 .. n + 1
    BY <2>1
  <2> HIDE DEF a, n
  <2>3. n + 1 - a \in 0 .. n /\ n + 1 - a < k
    BY <1>1, <2>1, <2>2
  <2> QED
    BY <2>3 DEF a
<1>5. stop \in SUBSET (0 .. n)
  OBVIOUS
<1>6. prior \in [0 .. n -> 0 .. n]
  <2>1. \A k \in 0 .. n : (IF k \in stop THEN 0 ELSE n + 1 - After(buf, At(k))) \in 0 .. n
    <3> HIDE DEF stop, n, At
    <3> QED
      BY <1>1, <1>4
  <2> HIDE DEF stop, n, At
  <2> QED
    BY <2>1
<1>7. \A k \in (0 .. n) \ stop : prior[k] < k
  <2> HIDE DEF stop, n, At
  <2> QED
    BY <1>4
<1>8. base \in [0 .. n -> S] /\ step \in [0 .. n -> [S -> S]]
  <2>1. <<>> \in S
    OBVIOUS
  <2>2. \A k \in 0 .. n, x \in S : <<ReadTLV(buf, At(k))>> \o x \in S
    BY <1>3
  <2> HIDE DEF S, n, At
  <2> QED
    BY <2>1, <2>2
<1>9. Recurrence(n, S, stop, base, prior, step)
  <2> HIDE DEF S, n, stop, base, prior, step
  <2> QED
    BY <1>1, <1>5, <1>6, <1>7, <1>8 DEF Recurrence
<1>10. PICK g : Solution(g, n, S, stop, base, prior, step)
  <2> HIDE DEF S, n, stop, base, prior, step
  <2> QED
    BY <1>9, Recursion
<1> DEFINE Value(h, off) ==
             IF off > n THEN <<>>
             ELSE <<ReadTLV(buf, off)>> \o
                  (IF After(buf, off) \in off + 1 .. n + 1 THEN h[After(buf, off)] ELSE <<>>)
           from0 == [off \in 1 .. n + 1 |-> g[n + 1 - off]]
<1>11. \A off \in 1 .. n + 1 : from0[off] = Value(from0, off)
  <2> TAKE off \in 1 .. n + 1
  <2> DEFINE k == n + 1 - off
  <2>1. k \in 0 .. n /\ At(k) = off /\ (k = 0 <=> off > n)
    BY <1>1
  <2>2. from0[off] = g[k]
    OBVIOUS
  <2>3. g[k] = IF k \in stop THEN base[k] ELSE step[k][g[prior[k]]]
    <3> HIDE DEF k, S, n, stop, base, prior, step
    <3> QED
      BY <1>10, <2>1 DEF Solution
  <2>4. CASE off > n
    <3>1. k \in stop /\ base[k] = <<>>
      BY <2>1, <2>4
    <3> HIDE DEF k, stop, base
    <3> QED
      BY <2>2, <2>3, <2>4, <3>1
  <2>5. CASE ~(off > n) /\ ~(After(buf, off) \in off + 1 .. n + 1)
    <3>1. k \in stop /\ base[k] = <<ReadTLV(buf, off)>> \o <<>>
      BY <2>1, <2>5
    <3> HIDE DEF k, stop, base
    <3> QED
      BY <2>2, <2>3, <2>5, <3>1
  <2>6. CASE ~(off > n) /\ After(buf, off) \in off + 1 .. n + 1
    <3>1. k \notin stop
      BY <2>1, <2>6
    <3>2. prior[k] = n + 1 - After(buf, off)
      <4> HIDE DEF k, stop, At
      <4> QED
        BY <2>1, <3>1
    <3>3. g[prior[k]] \in S
      <4>1. prior[k] \in 0 .. n
        <5> HIDE DEF k, prior, n
        <5> QED
          BY <1>6, <2>1
      <4> HIDE DEF k, S, n, stop, base, prior, step
      <4> QED
        BY <1>10, <4>1 DEF Solution
    <3>4. step[k][g[prior[k]]] = <<ReadTLV(buf, off)>> \o g[prior[k]]
      <4>1. step[k] = [x \in S |-> <<ReadTLV(buf, off)>> \o x]
        <5> HIDE DEF k, S, At, n
        <5> QED
          BY <2>1
      <4> HIDE DEF k, S, prior, step
      <4> QED
        BY <3>3, <4>1
    <3>5. from0[After(buf, off)] = g[n + 1 - After(buf, off)]
      <4>1. After(buf, off) \in 1 .. n + 1
        BY <1>1, <2>6
      <4> QED
        BY <4>1
    <3> HIDE DEF k, S, stop, base, prior, step, from0, n
    <3> QED
      BY <2>2, <2>3, <2>6, <3>1, <3>2, <3>4, <3>5
  <2> QED
    BY <2>4, <2>5, <2>6
<1> DEFINE IsFrom(h) == h = [off \in 1 .. n + 1 |-> Value(h, off)]
<1>12. \E h : IsFrom(h)
  <2>1. from0 = [off \in 1 .. n + 1 |-> from0[off]]
    OBVIOUS
  <2>2. IsFrom(from0)
    <3> HIDE DEF from0, Value
    <3> QED
      BY <1>11, <2>1
  <2> HIDE DEF IsFrom, from0
  <2> QED
    BY <2>2
<1> DEFINE from == CHOOSE h : IsFrom(h)
<1>13. IsFrom(from)
  <2> HIDE DEF IsFrom
  <2> QED
    BY <1>12
<1>14. ReadAll(buf) = from[1]
  BY DEF ReadAll, After
<1>15. ReadsFrom(buf, from)
  <2> HIDE DEF from
  <2>1. \A off \in 1 .. n + 1 : from[off] = Value(from, off)
    <3> HIDE DEF Value
    <3> QED
      BY <1>13
  <2> QED
    BY <2>1 DEF ReadsFrom
<1> QED
  BY <1>14, <1>15

\* What ReadTLV returns of an element.
Read(tag, value, t) == [tag |-> tag, value |-> value, total |-> Len(t)]

\* list is a sequence of elements.
Elements(list, tag, value) ==
  /\ list \in Seq(Seq(Byte)) /\ Len(list) # 0
  /\ \A v \in 1 .. Len(list) : IsTlv(list[v], tag[v], value[v])

\* A sequence of elements is read back.
LEMMA ReadAllOf ==
  ASSUME NEW list, NEW tag, NEW value, Elements(list, tag, value)
  PROVE  ReadAll(FlattenSeq(list))
           = [v \in 1 .. Len(list) |-> Read(tag[v], value[v], list[v])]
<1> DEFINE n == Len(list)
           items == [v \in 1 .. n |-> Read(tag[v], value[v], list[v])]
           T == {items[v] : v \in 1 .. n}
<1>0. /\ list \in Seq(Seq(Byte)) /\ Len(list) # 0
      /\ \A v \in 1 .. Len(list) : IsTlv(list[v], tag[v], value[v])
  BY DEF Elements
<1> USE <1>0
<1>1. n \in Nat \ {0}
  OBVIOUS
<1>2. PICK f : Flattened(list, f) /\ FlattenSeq(list) = f[n]
  BY FlattenUpTo
<1> DEFINE buf == f[n]
<1>3. \A i \in 1 .. n :
        /\ f[i] \in Seq(Byte) /\ StartAt(f, i) \in Nat \ {0} /\ Len(list[i]) \in Nat
        /\ Len(f[i]) = StartAt(f, i) - 1 + Len(list[i])
  BY <1>2, FlattenedAt
<1>4. n \in 1 .. n /\ buf \in Seq(Byte) /\ Len(buf) \in Nat
  <2>1. n \in 1 .. n
    BY <1>1
  <2>2. buf \in Seq(Byte)
    BY <1>3, <2>1
  <2> QED
    BY <2>1, <2>2
<1>5. PICK from : ReadsFrom(buf, from) /\ ReadAll(buf) = from[1]
  <2> HIDE DEF buf
  <2> QED
    BY <1>4, ReadAllFrom
<1>6. items \in Seq(T) /\ Len(items) = n
  <2>1. items \in [1 .. n -> T]
    OBVIOUS
  <2> HIDE DEF items, T, n
  <2> QED
    BY <1>1, <2>1
\* From the start of element n - d on, the last d + 1 elements are read.
<1> DEFINE S == {d \in 0 .. n - 1 : from[StartAt(f, n - d)] = SubSeq(items, n - d, n)}
<1>7. ASSUME NEW i \in 1 .. n
      PROVE  /\ StartAt(f, i) \in 1 .. Len(buf) /\ StartAt(f, i) \in 1 .. Len(buf) + 1
             /\ ReadTLV(buf, StartAt(f, i)) = items[i]
             /\ After(buf, StartAt(f, i)) = StartAt(f, i) + Len(list[i])
             /\ After(buf, StartAt(f, i)) \in StartAt(f, i) + 1 .. Len(buf) + 1
  <2>1. Holds(buf, StartAt(f, i), list[i]) /\ IsTlv(list[i], tag[i], value[i])
    BY <1>2, FlattenedHeld
  <2>2. /\ ReadTLV(buf, StartAt(f, i)) = items[i]
        /\ After(buf, StartAt(f, i)) = StartAt(f, i) + Len(list[i])
    <3> HIDE DEF buf
    <3> QED
      BY <1>4, <2>1, TlvRead DEF Read
  <2>3. Len(list[i]) >= 2
    <3>1. Len(value[i]) + 2 <= Len(list[i]) /\ Len(value[i]) \in Nat
      BY <2>1, TlvSize
    <3> QED
      BY <1>3, <3>1
  <2>4. StartAt(f, i) + Len(list[i]) <= Len(buf) + 1
    BY <2>1 DEF Holds
  <2> DEFINE p == StartAt(f, i)
             l == Len(list[i])
             m == Len(buf)
  <2>5. p \in Nat \ {0} /\ l \in Nat /\ m \in Nat /\ l >= 2 /\ p + l <= m + 1
    BY <1>3, <1>4, <2>3, <2>4
  <2>6. p \in 1 .. m /\ p \in 1 .. m + 1 /\ p + l \in p + 1 .. m + 1
    <3> HIDE DEF p, l, m
    <3> QED
      BY <2>5
  <2> QED
    BY <2>2, <2>6
<1>8. ASSUME NEW i \in 1 .. n
      PROVE  from[StartAt(f, i)] = <<items[i]>> \o from[After(buf, StartAt(f, i))]
  <2> DEFINE p == StartAt(f, i)
  <2>1. p \in 1 .. Len(buf) + 1 /\ ~(p > Len(buf))
    BY <1>4, <1>7
  <2>2. After(buf, p) \in p + 1 .. Len(buf) + 1 /\ ReadTLV(buf, p) = items[i]
    BY <1>7
  <2> HIDE DEF p, buf, items
  <2>3. from[p] = <<ReadTLV(buf, p)>> \o from[After(buf, p)]
    BY <1>5, <2>1, <2>2 DEF ReadsFrom
  <2> QED
    BY <2>2, <2>3 DEF p
<1>9. \A i \in 1 .. n : SubSeq(items, i, n) = <<items[i]>> \o SubSeq(items, i + 1, n)
  <2> TAKE i \in 1 .. n
  <2>1. i \in 1 .. Len(items) /\ n \in i .. Len(items)
    BY <1>1, <1>6
  <2> HIDE DEF items, n, T
  <2> QED
    BY <1>6, <2>1, SubSeqRecursiveFirst
<1>10. 0 \in S
  <2>1. After(buf, StartAt(f, n)) = Len(buf) + 1
    <3>1. /\ After(buf, StartAt(f, n)) = StartAt(f, n) + Len(list[n])
          /\ StartAt(f, n) \in Nat /\ Len(list[n]) \in Nat
          /\ Len(buf) = StartAt(f, n) - 1 + Len(list[n])
      <4> HIDE DEF n
      <4> QED
        BY <1>3, <1>4, <1>7
    <3> HIDE DEF buf, n
    <3> QED
      BY <3>1
  <2>2. from[Len(buf) + 1] = <<>>
    <3>1. Len(buf) + 1 \in 1 .. Len(buf) + 1 /\ Len(buf) + 1 > Len(buf)
      BY <1>4
    <3> HIDE DEF buf
    <3> QED
      BY <1>5, <3>1 DEF ReadsFrom
  <2>3. SubSeq(items, n + 1, n) = <<>>
    <3>1. n + 1 \in Int /\ n \in Int /\ n < n + 1
      BY <1>1
    <3> HIDE DEF items, n
    <3> QED
      BY <3>1, SubSeqEmpty
  <2>4. from[StartAt(f, n)] = SubSeq(items, n, n)
    <3> HIDE DEF buf, items, n
    <3> QED
      BY <1>4, <1>8, <1>9, <2>1, <2>2, <2>3
  <2>5. 0 \in 0 .. n - 1 /\ n - 0 = n
    BY <1>1
  <2> QED
    BY <2>4, <2>5
<1>11. ASSUME NEW d \in S, d < n - 1 PROVE d + 1 \in S
  <2> DEFINE i == n - (d + 1)
  <2>1. i \in 1 .. n /\ i + 1 = n - d /\ i + 1 \in 1 .. n /\ i + 1 # 1 /\ d + 1 \in 0 .. n - 1
    BY <1>1, <1>11
  <2>2. from[StartAt(f, i + 1)] = SubSeq(items, i + 1, n)
    BY <2>1
  <2> HIDE DEF i
  <2>3. After(buf, StartAt(f, i)) = StartAt(f, i + 1)
    <3>1. StartAt(f, i + 1) = 1 + Len(f[i])
      <4>1. (i + 1) - 1 = i
        BY <2>1
      <4> QED
        BY <2>1, <4>1 DEF StartAt
    <3>2. After(buf, StartAt(f, i)) = StartAt(f, i) + Len(list[i])
      BY <1>7, <2>1
    <3>3. /\ StartAt(f, i) \in Nat /\ Len(list[i]) \in Nat
          /\ Len(f[i]) = StartAt(f, i) - 1 + Len(list[i])
      BY <1>3, <2>1
    <3> DEFINE p == StartAt(f, i)
               q == Len(list[i])
               l == Len(f[i])
    <3>4. p \in Nat /\ q \in Nat /\ l = p - 1 + q
      BY <3>3
    <3> HIDE DEF buf, p, q, l
    <3>5. 1 + l = p + q
      BY <3>4
    <3> QED
      BY <3>1, <3>2, <3>5 DEF p, q, l
  <2>4. from[StartAt(f, i)] = SubSeq(items, i, n)
    <3> HIDE DEF buf, items, n
    <3> QED
      BY <1>8, <1>9, <2>1, <2>2, <2>3
  <2> QED
    BY <2>1, <2>4 DEF i
<1>12. \A d \in 0 .. n - 1 : d \in S
  <2> DEFINE m == n - 1
  <2>1. m \in Nat
    BY <1>1
  <2>3. \A d \in S : d < m => d + 1 \in S
    BY <1>11
  <2>4. S \in SUBSET (0 .. m)
    OBVIOUS
  <2> HIDE DEF S, m
  <2>2. \A d \in 0 .. m : d \in S
    BY <1>10, <2>3, <2>4, <2>1, UpTo
  <2> QED
    BY <2>2 DEF m
<1>13. from[1] = items
  <2>1. n - 1 \in 0 .. n - 1 /\ n - (n - 1) = 1
    BY <1>1
  <2>2. from[StartAt(f, 1)] = SubSeq(items, 1, n)
    <3>1. n - 1 \in S
      BY <1>12, <2>1
    <3> QED
      BY <2>1, <3>1
  <2>3. StartAt(f, 1) = 1
    BY DEF StartAt
  <2>4. SubSeq(items, 1, n) = items
    <3> HIDE DEF items, n, T
    <3> QED
      BY <1>6, SubSeqFull
  <2> QED
    BY <2>2, <2>3, <2>4
<1> QED
  BY <1>2, <1>5, <1>13

\* Parts of at most 22 bytes; no OID with its value takes more.
LEMMA FlattenSize ==
  ASSUME NEW list \in Seq(Seq(Byte)), Len(list) # 0,
         \A v \in 1 .. Len(list) : Len(list[v]) <= 22
  PROVE  /\ FlattenSeq(list) \in Seq(Byte)
         /\ Len(FlattenSeq(list)) \in Nat /\ Len(FlattenSeq(list)) <= 22 * Len(list)
<1> DEFINE n == Len(list)
<1>1. n \in Nat \ {0} /\ n - 1 \in Nat
  OBVIOUS
<1>2. PICK f : Flattened(list, f) /\ FlattenSeq(list) = f[n]
  BY FlattenUpTo
<1>3. \A i \in 1 .. n :
        /\ f[i] \in Seq(Byte) /\ StartAt(f, i) \in Nat \ {0} /\ Len(list[i]) \in Nat
        /\ Len(f[i]) = StartAt(f, i) - 1 + Len(list[i])
  BY <1>2, FlattenedAt
<1> DEFINE S == {d \in 0 .. n - 1 : Len(f[d + 1]) <= 22 * (d + 1)}
<1>4. 0 \in S
  <2>1. 1 \in 1 .. n /\ 0 \in 0 .. n - 1 /\ 0 + 1 = 1
    BY <1>1
  <2>2. f[1] = list[1] /\ Len(list[1]) <= 22
    BY <1>2, <2>1 DEF Flattened
  <2> QED
    BY <2>1, <2>2
<1>5. ASSUME NEW d \in S, d < n - 1 PROVE d + 1 \in S
  <2> DEFINE i == (d + 1) + 1
  <2>1. i \in 1 .. n /\ i # 1 /\ i - 1 = d + 1 /\ d + 1 \in 1 .. n /\ d + 1 \in 0 .. n - 1
        /\ d \in Nat
    BY <1>1, <1>5
  <2>2. Len(f[d + 1]) <= 22 * (d + 1)
    OBVIOUS
  <2>3. f[d + 1] \in Seq(Byte)
    BY <1>3, <2>1
  <2>4. Len(f[d + 1]) \in Nat
    BY <2>3
  <2> HIDE DEF i
  <2>5. StartAt(f, i) = 1 + Len(f[d + 1])
    BY <2>1 DEF StartAt
  <2>6. Len(f[i]) = StartAt(f, i) - 1 + Len(list[i]) /\ Len(list[i]) \in Nat /\ Len(list[i]) <= 22
    BY <1>3, <2>1
  <2>7. Len(f[i]) <= 22 * (d + 1) + 22
    <3> DEFINE a == Len(f[d + 1])
               b == Len(list[i])
               c == 22 * (d + 1)
    <3>1. Len(f[i]) = a + b
      <4>1. a \in Nat /\ b \in Nat /\ Len(f[i]) = (1 + a) - 1 + b
        BY <2>4, <2>5, <2>6
      <4> HIDE DEF a, b
      <4> QED
        BY <4>1
    <3>2. a \in Nat /\ b \in Nat /\ c \in Nat /\ a <= c /\ b <= 22
      BY <2>1, <2>2, <2>4, <2>6
    <3> HIDE DEF a, b, c
    <3>3. a + b <= c + 22
      BY <3>2
    <3> QED
      BY <3>1, <3>3 DEF c
  <2>8. 22 * (d + 1) + 22 = 22 * ((d + 1) + 1)
    BY <2>1
  <2> QED
    BY <2>1, <2>7, <2>8 DEF i
<1>6. \A d \in 0 .. n - 1 : d \in S
  <2> DEFINE m == n - 1
  <2>1. m \in Nat
    BY <1>1
  <2>2. \A d \in S : d < m => d + 1 \in S
    BY <1>5
  <2>3. S \in SUBSET (0 .. m)
    OBVIOUS
  <2> HIDE DEF S, m
  <2>4. \A d \in 0 .. m : d \in S
    BY <1>4, <2>1, <2>2, <2>3, UpTo
  <2> QED
    BY <2>4 DEF m
<1>7. n - 1 \in 0 .. n - 1 /\ (n - 1) + 1 = n /\ n \in 1 .. n
  BY <1>1
<1>8. Len(f[n]) <= 22 * n
  <2>1. n - 1 \in S
    BY <1>6, <1>7
  <2> QED
    BY <1>7, <2>1
<1>9. f[n] \in Seq(Byte)
  BY <1>3, <1>7
<1>10. Len(f[n]) \in Nat
  BY <1>9
<1> QED
  BY <1>2, <1>8, <1>9, <1>10

\* Bytes that are flattened one by one.
LEMMA FlattenSingles ==
  ASSUME NEW bytes \in Seq(Byte), Len(bytes) # 0
  PROVE  FlattenSeq([i \in 1 .. Len(bytes) |-> <<bytes[i]>>]) = bytes
<1> DEFINE n == Len(bytes)
           list == [i \in 1 .. n |-> <<bytes[i]>>]
<1>1. n \in Nat \ {0} /\ n - 1 \in Nat
  OBVIOUS
<1>2. list \in Seq(Seq(Byte)) /\ Len(list) = n /\ \A i \in 1 .. n : list[i] = <<bytes[i]>>
  <2>1. \A i \in 1 .. n : <<bytes[i]>> \in Seq(Byte)
    OBVIOUS
  <2>2. list \in [1 .. n -> Seq(Byte)]
    BY <2>1
  <2>3. \A i \in 1 .. n : list[i] = <<bytes[i]>>
    OBVIOUS
  <2> HIDE DEF list, n
  <2> QED
    BY <1>1, <2>2, <2>3
<1>3. PICK f : Flattened(list, f) /\ FlattenSeq(list) = f[n]
  <2> HIDE DEF list, n
  <2> QED
    BY <1>1, <1>2, FlattenUpTo
<1> HIDE DEF list
<1> DEFINE S == {d \in 0 .. n - 1 : f[d + 1] = SubSeq(bytes, 1, d + 1)}
<1>4. 0 \in S
  <2>1. 0 \in 0 .. n - 1 /\ 0 + 1 = 1 /\ 1 \in 1 .. n
    BY <1>1
  <2>2. f[1] = <<bytes[1]>>
    BY <1>2, <1>3, <2>1 DEF Flattened
  <2> DEFINE b == SubSeq(bytes, 1, 1)
  <2>3. b \in Seq(Byte) /\ Len(b) = 1 /\ b[1] = bytes[1]
    BY <2>1, SubSeqBytes
  <2> HIDE DEF b
  <2>4. b = <<bytes[1]>>
    BY <2>3
  <2> QED
    BY <2>1, <2>2, <2>4 DEF b
<1>5. ASSUME NEW d \in S, d < n - 1 PROVE d + 1 \in S
  <2> DEFINE i == (d + 1) + 1
  <2>1. i \in 2 .. n /\ i \in 1 .. n /\ i - 1 = d + 1 /\ d + 1 \in 0 .. n - 1
    BY <1>1, <1>5
  <2>2. f[d + 1] = SubSeq(bytes, 1, d + 1)
    OBVIOUS
  <2> HIDE DEF i
  <2>3. f[i] = SubSeq(bytes, 1, i - 1) \o <<bytes[i]>>
    BY <1>2, <1>3, <2>1, <2>2 DEF Flattened
  <2>4. SubSeq(bytes, 1, i) = SubSeq(bytes, 1, i - 1) \o <<bytes[i]>>
    <3>1. 1 \in 1 .. n /\ i \in 1 .. n
      BY <1>1, <2>1
    <3> QED
      BY <3>1, SubSeqRecursiveSecond
  <2> QED
    BY <2>1, <2>3, <2>4 DEF i
<1>6. \A d \in 0 .. n - 1 : d \in S
  <2> DEFINE m == n - 1
  <2>1. m \in Nat
    BY <1>1
  <2>2. \A d \in S : d < m => d + 1 \in S
    BY <1>5
  <2>3. S \in SUBSET (0 .. m)
    OBVIOUS
  <2> HIDE DEF S, m
  <2>4. \A d \in 0 .. m : d \in S
    BY <1>4, <2>1, <2>2, <2>3, UpTo
  <2> QED
    BY <2>4 DEF m
<1>7. f[n] = SubSeq(bytes, 1, n)
  <2>1. n - 1 \in 0 .. n - 1 /\ (n - 1) + 1 = n
    BY <1>1
  <2>2. n - 1 \in S
    BY <1>6, <2>1
  <2> QED
    BY <2>1, <2>2
<1>8. SubSeq(bytes, 1, n) = bytes
  BY SubSeqFull
<1> QED
  BY <1>3, <1>7, <1>8 DEF list
-----------------------------------------------------------------------------
(* Object identifiers.                                                     *)

\* The ones the collectors ask for: arcs of seven bits that begin with 1.3.
IsOID(oid) ==
  /\ oid \in Seq(0 .. 127) /\ Len(oid) >= 3 /\ Len(oid) <= 12
  /\ oid[1] = 1 /\ oid[2] = 3

\* The bytes of such an OID: its first two arcs share one.
Content(oid) == [i \in 1 .. Len(oid) - 1 |-> IF i = 1 THEN 43 ELSE oid[i + 1]]

\* The content of an OID is bytes below 128.
LEMMA ContentBytes ==
  ASSUME NEW oid, IsOID(oid)
  PROVE  /\ Content(oid) \in Seq(Byte) /\ Len(Content(oid)) = Len(oid) - 1
         /\ Len(oid) \in 3 .. 12 /\ Len(oid) - 1 \in 2 .. 11
         /\ DOMAIN oid = 1 .. Len(oid) /\ \A i \in 1 .. Len(oid) : oid[i] \in 0 .. 127
         /\ \A i \in 1 .. Len(oid) - 1 : Content(oid)[i] = IF i = 1 THEN 43 ELSE oid[i + 1]
         /\ \A i \in 1 .. Len(oid) - 1 : Content(oid)[i] \in 0 .. 127
<1> DEFINE n == Len(oid)
           m == n - 1
<1>1. n \in Nat /\ DOMAIN oid = 1 .. n /\ \A i \in 1 .. n : oid[i] \in 0 .. 127
  <2>1. oid \in Seq(0 .. 127)
    BY DEF IsOID
  <2> DEFINE S == 0 .. 127
  <2> HIDE DEF S
  <2>2. oid \in Seq(S)
    BY <2>1 DEF S
  <2>3. n \in Nat /\ DOMAIN oid = 1 .. n
    BY <2>2, LenProperties
  <2>4. \A i \in 1 .. n : oid[i] \in S
    BY <2>2, ElementOfSeq
  <2> QED
    BY <2>3, <2>4 DEF S
<1>2. n \in 3 .. 12 /\ m \in 2 .. 11 /\ m \in Nat /\ \A i \in 1 .. m : i + 1 \in 1 .. n
  <2>1. n >= 3 /\ n <= 12
    BY DEF IsOID
  <2> HIDE DEF n
  <2> QED
    BY <1>1, <2>1
<1>3. \A i \in 1 .. m : (IF i = 1 THEN 43 ELSE oid[i + 1]) \in 0 .. 127
  BY <1>1, <1>2
<1>4. Content(oid) = [i \in 1 .. m |-> IF i = 1 THEN 43 ELSE oid[i + 1]]
  BY DEF Content
<1> HIDE DEF m, n
<1>5. \A i \in 1 .. m : Content(oid)[i] = IF i = 1 THEN 43 ELSE oid[i + 1]
  BY <1>4
<1>8. \A i \in 1 .. m : Content(oid)[i] \in 0 .. 127
  BY <1>3, <1>5
<1>6. Content(oid) \in [1 .. m -> Byte]
  BY <1>3, <1>4 DEF Byte
<1>7. Content(oid) \in Seq(Byte) /\ Len(Content(oid)) = m
  BY <1>2, <1>6
<1> USE DEF m, n
<1>10. Len(Content(oid)) = Len(oid) - 1
  BY <1>7
<1>11. Len(oid) \in 3 .. 12 /\ Len(oid) - 1 \in 2 .. 11
  BY <1>2
<1> QED
  BY <1>1, <1>5, <1>7, <1>8, <1>10, <1>11

\* An arc of seven bits is one byte.
LEMMA ShortArc ==
  ASSUME NEW n \in 0 .. 127
  PROVE  EncArc(n) = <<n>>
<1>1. Septets(n) = <<0, 0, 0, 0, n>>
  <2>1. /\ n \div 268435456 = 0 /\ n \div 2097152 = 0 /\ n \div 16384 = 0
        /\ n \div 128 = 0 /\ n % 128 = n /\ 0 % 128 = 0
    OBVIOUS
  <2> QED
    BY <2>1 DEF Septets
<1> DEFINE d == <<0, 0, 0, 0, n>>
           First(i) == /\ d[i] # 0 \/ i = Len(d)
                       /\ \A j \in 1 .. i - 1 : d[j] = 0
<1>2. /\ Len(d) = 5 /\ d[1] = 0 /\ d[2] = 0 /\ d[3] = 0 /\ d[4] = 0 /\ d[5] = n
      /\ d \in Seq(Nat)
  OBVIOUS
<1> DEFINE k == CHOOSE i \in 1 .. Len(d) : First(i)
<1>3. k = 5
  <2>1. 5 \in 1 .. Len(d) /\ First(5)
    <3>1. \A j \in 1 .. 5 - 1 : j = 1 \/ j = 2 \/ j = 3 \/ j = 4
      OBVIOUS
    <3> HIDE DEF d
    <3> QED
      BY <1>2, <3>1
  <2>2. k \in 1 .. Len(d) /\ First(k)
    <3> HIDE DEF First, d
    <3> QED
      BY <2>1
  <2> HIDE DEF k
  <2>3. k = 1 \/ k = 2 \/ k = 3 \/ k = 4 \/ k = 5
    BY <1>2, <2>2
  <2> HIDE DEF d
  <2> QED
    BY <1>2, <2>2, <2>3
<1>4. Significant(d) = SubSeq(d, 5, 5)
  BY <1>2, <1>3 DEF Significant
<1> DEFINE b == SubSeq(d, 5, 5)
<1>5. b \in Seq(Nat) /\ Len(b) = 1 /\ b[1] = n
  <2> HIDE DEF d
  <2>1. \A i \in 5 .. 5 : d[i] \in Nat
    BY <1>2
  <2>2. \A i \in 1 .. 5 - 5 + 1 : SubSeq(d, 5, 5)[i] = d[5 + i - 1]
    BY <2>1, SubSeqProperties
  <2>3. 1 \in 1 .. 5 - 5 + 1 /\ 5 + 1 - 1 = 5
    OBVIOUS
  <2>4. SubSeq(d, 5, 5)[1] = d[5]
    BY <2>2, <2>3
  <2> QED
    BY <1>2, <2>1, <2>4, SubSeqProperties
<1> HIDE DEF d, b
<1>6. EncArc(n) = [i \in 1 .. Len(b) |-> IF i < Len(b) THEN 128 + b[i] ELSE b[i]]
  BY <1>1, <1>4 DEF EncArc, d, b
<1>7. \A i \in 1 .. 1 : ~(i < 1) /\ i = 1
  OBVIOUS
<1> DEFINE c == [i \in 1 .. 1 |-> n]
<1>8. EncArc(n) = c
  BY <1>5, <1>6, <1>7
<1>9. c = <<n>>
  OBVIOUS
<1> QED
  BY <1>8, <1>9

\* The elements that the agent's encoder makes.
LEMMA TlvIs ==
  ASSUME NEW tag \in Byte, NEW value \in Seq(Byte), Len(value) < 256
  PROVE  IsTlv(Tlv(tag, value), tag, value)
<1> DEFINE n == Len(value)
           e == EncLen(n)
<1>1. n \in Nat /\ n < 256
  OBVIOUS
<1>2. IsLength(e, n)
  <2> HIDE DEF n
  <2>1. CASE n < 128
    <3>1. e = <<n>> /\ n \in Byte
      BY <1>1, <2>1 DEF EncLen, Byte
    <3> HIDE DEF e
    <3>2. e \in Seq(Byte) /\ Len(e) = 1 /\ e[1] = n
      BY <3>1
    <3> QED
      BY <2>1, <3>2 DEF IsLength
  <2>2. CASE n >= 128
    <3>1. e = <<129, n>> /\ n \in Byte /\ 129 \in Byte
      BY <1>1, <2>2 DEF EncLen, Byte
    <3> HIDE DEF e
    <3>2. e \in Seq(Byte) /\ Len(e) = 2 /\ e[1] = 129 /\ e[2] = n
      BY <3>1
    <3> QED
      BY <2>2, <3>2 DEF IsLength
  <2> QED
    BY <1>1, <2>1, <2>2
<1>3. Tlv(tag, value) = <<tag>> \o e \o value
  BY DEF Tlv
<1> HIDE DEF e
<1> QED
  BY <1>2, <1>3 DEF IsTlv

\* What EncOID makes of an OID.
LEMMA EncOIDIs ==
  ASSUME NEW oid, IsOID(oid)
  PROVE  IsTlv(EncOID(oid), 6, Content(oid))
<1> DEFINE n == Len(oid)
           m == n - 2
           rest == [i \in 1 .. m |-> oid[i + 2]]
           c == Content(oid)
<1>1. /\ n \in 3 .. 12 /\ n - 1 \in 2 .. 11 /\ \A i \in 1 .. n : oid[i] \in 0 .. 127
      /\ c \in Seq(Byte) /\ Len(c) = n - 1
      /\ \A i \in 1 .. n - 1 : c[i] = IF i = 1 THEN 43 ELSE oid[i + 1]
  BY ContentBytes
<1> HIDE DEF n, c
<1>2. m \in 1 .. 10 /\ m \in Nat \ {0} /\ \A i \in 1 .. m : i + 2 \in 1 .. n
  BY <1>1
<1> HIDE DEF m
<1>3. \A i \in 1 .. m : oid[i + 2] \in 0 .. 127
  BY <1>1, <1>2
<1>4. rest \in Seq(Byte) /\ Len(rest) = m /\ \A i \in 1 .. m : rest[i] = oid[i + 2]
  <2>1. rest \in [1 .. m -> Byte]
    BY <1>3 DEF Byte
  <2>2. \A i \in 1 .. m : rest[i] = oid[i + 2]
    OBVIOUS
  <2> HIDE DEF rest
  <2> QED
    BY <1>2, <2>1, <2>2
<1>5. \A i \in 1 .. m : EncArc(oid[i + 2]) = <<rest[i]>>
  BY <1>3, <1>4, ShortArc
<1>6. [i \in 1 .. m |-> EncArc(oid[i + 2])] = [i \in 1 .. m |-> <<rest[i]>>]
  BY <1>5
<1> HIDE DEF rest
<1>7. FlattenSeq([i \in 1 .. m |-> <<rest[i]>>]) = rest
  <2>1. FlattenSeq([i \in 1 .. Len(rest) |-> <<rest[i]>>]) = rest
    BY <1>2, <1>4, FlattenSingles
  <2> QED
    BY <1>4, <2>1
<1>8. <<43>> \o rest = c
  <2> DEFINE h == <<43>>
  <2>1. h \in Seq(Byte) /\ Len(h) = 1 /\ h[1] = 43
    BY DEF Byte
  <2> HIDE DEF h
  <2>2. /\ h \o rest \in Seq(Byte) /\ Len(h \o rest) = 1 + m
        /\ \A i \in 1 .. 1 + m : (h \o rest)[i] = IF i <= 1 THEN h[i] ELSE rest[i - 1]
    <3>1. /\ h \o rest \in Seq(Byte) /\ Len(h \o rest) = Len(h) + Len(rest)
          /\ \A i \in 1 .. Len(h) + Len(rest) :
               (h \o rest)[i] = IF i <= Len(h) THEN h[i] ELSE rest[i - Len(h)]
      <4>1. rest \in Seq(Byte)
        BY <1>4
      <4>2. h \in Seq(Byte)
        BY <2>1
      <4> QED
        BY <4>1, <4>2, ConcatProperties
    <3>2. Len(h) = 1 /\ Len(rest) = m
      BY <1>4, <2>1
    <3> QED
      BY <3>1, <3>2
  <2>3. Len(c) = 1 + m
    BY <1>1, <1>2 DEF m
  <2>4. ASSUME NEW i \in 1 .. 1 + m PROVE (h \o rest)[i] = c[i]
    <3>1. i \in 1 .. n - 1
      BY <1>1 DEF m
    <3>2. CASE i = 1
      BY <1>1, <2>1, <2>2, <3>1, <3>2
    <3>3. CASE i # 1
      <4>1. i - 1 \in 1 .. m /\ (i - 1) + 2 = i + 1 /\ ~(i <= 1)
        BY <1>2, <3>3
      <4>2. (h \o rest)[i] = oid[i + 1]
        BY <1>4, <2>2, <4>1
      <4> QED
        BY <1>1, <3>1, <3>3, <4>2
    <3> QED
      BY <3>2, <3>3
  <2>5. h \o rest = c
    BY <1>1, <2>2, <2>3, <2>4, SeqEqual
  <2> QED
    BY <2>5 DEF h
<1>9. EncOID(oid) = Tlv(6, c)
  <2>1. 40 * oid[1] + oid[2] = 43
    BY DEF IsOID
  <2>2. EncOID(oid) = Tlv(6, <<40 * oid[1] + oid[2]>>
                              \o FlattenSeq([i \in 1 .. m |-> EncArc(oid[i + 2])]))
    BY DEF EncOID, m, n
  <2> QED
    BY <1>6, <1>7, <1>8, <2>1, <2>2
<1>10. IsTlv(Tlv(6, c), 6, c)
  <2>1. Len(c) < 256 /\ 6 \in Byte
    BY <1>1 DEF Byte
  <2> QED
    BY <1>1, <2>1, TlvIs
<1> QED
  BY <1>9, <1>10 DEF c

\* Two sequences of one.
LEMMA Pairing ==
  ASSUME NEW a \in Nat, NEW b \in Nat
  PROVE  <<a>> \o <<b>> = <<a, b>>
<1> DEFINE x == <<a>>
           y == <<b>>
           z == <<a, b>>
<1>1. x \in Seq(Nat) /\ Len(x) = 1 /\ x[1] = a
  OBVIOUS
<1>2. y \in Seq(Nat) /\ Len(y) = 1 /\ y[1] = b
  OBVIOUS
<1>3. z \in Seq(Nat) /\ Len(z) = 2 /\ z[1] = a /\ z[2] = b
  OBVIOUS
<1> HIDE DEF x, y, z
<1>4. /\ x \o y \in Seq(Nat) /\ Len(x \o y) = Len(x) + Len(y)
      /\ \A i \in 1 .. Len(x) + Len(y) : (x \o y)[i] = IF i <= Len(x) THEN x[i] ELSE y[i - Len(x)]
  BY <1>1, <1>2, ConcatProperties
<1>5. /\ Len(x \o y) = 2
      /\ \A i \in 1 .. 2 : (x \o y)[i] = IF i <= 1 THEN x[i] ELSE y[i - 1]
  BY <1>1, <1>2, <1>4
<1>6. (x \o y)[1] = a /\ (x \o y)[2] = b
  BY <1>1, <1>2, <1>5
<1>7. \A i \in 1 .. 2 : i = 1 \/ i = 2
  OBVIOUS
<1>8. \A i \in 1 .. Len(x \o y) : (x \o y)[i] = z[i]
  BY <1>3, <1>5, <1>6, <1>7
<1>9. x \o y = z
  BY <1>3, <1>4, <1>5, <1>8, SeqEqual
<1> QED
  BY <1>9 DEF x, y, z

\* An OID is read back.
LEMMA ParseOIDOf ==
  ASSUME NEW oid, IsOID(oid)
  PROVE  ParseOID(Content(oid)) = oid
<1> DEFINE buf == Content(oid)
           n == Len(buf)
           T == 0 .. 127
<1>1. /\ n \in 2 .. 11 /\ Len(oid) = n + 1 /\ buf[1] = 43
      /\ \A i \in 1 .. n : buf[i] \in 0 .. 127
      /\ \A i \in 2 .. n : buf[i] = oid[i + 1]
  <2>1. n = Len(oid) - 1 /\ Len(oid) \in 3 .. 12 /\ Len(oid) - 1 \in 2 .. 11
    BY ContentBytes
  <2>2. /\ \A i \in 1 .. Len(oid) - 1 : buf[i] = IF i = 1 THEN 43 ELSE oid[i + 1]
        /\ \A i \in 1 .. Len(oid) - 1 : buf[i] \in 0 .. 127
    BY ContentBytes
  <2> HIDE DEF buf
  <2>3. n \in 2 .. 11
    BY <2>1
  <2>4. Len(oid) = n + 1
    BY <2>1
  <2> HIDE DEF n
  <2>5. 1 \in 1 .. n /\ \A i \in 2 .. n : i \in 1 .. n /\ i # 1
    BY <2>3
  <2> QED
    BY <2>1, <2>2, <2>3, <2>4, <2>5
<1> HIDE DEF buf, n
<1>2. oid \in Seq(T) /\ oid[1] = 1 /\ oid[2] = 3
  BY DEF IsOID
<1> HIDE DEF T
<1>16. ASSUME NEW i \in 1 .. n
       PROVE  /\ buf[i] < 128 /\ ~(buf[i] >= 128) /\ buf[i] % 128 = buf[i]
              /\ (buf[i] % 128) + 0 = buf[i]
  <2> DEFINE b == buf[i]
  <2>1. b \in 0 .. 127
    BY <1>1
  <2> HIDE DEF b
  <2>2. b < 128 /\ ~(b >= 128) /\ b % 128 = b /\ (b % 128) + 0 = b
    BY <2>1
  <2> QED
    BY <2>2 DEF b
<1> DEFINE IsArc(g) ==
             g = [i \in 1 .. n |->
                    (buf[i] % 128) + (IF i > 2 /\ buf[i - 1] >= 128 THEN 128 * g[i - 1] ELSE 0)]
           arc == CHOOSE g : IsArc(g)
<1>3. IsArc(arc) /\ \A i \in 1 .. n : arc[i] = buf[i]
  <2>1. \A i \in 1 .. n : i > 2 => ~(buf[i - 1] >= 128)
    <3>1. \A i \in 1 .. n : i > 2 => i - 1 \in 1 .. n
      BY <1>1
    <3>2. \A i \in 1 .. n : ~(buf[i] >= 128)
      BY <1>16
    <3> QED
      BY <3>1, <3>2
  <2>2. \A i \in 1 .. n : (buf[i] % 128) + 0 = buf[i]
    BY <1>16
  <2>3. \A g : [i \in 1 .. n |->
                    (buf[i] % 128) + (IF i > 2 /\ buf[i - 1] >= 128 THEN 128 * g[i - 1] ELSE 0)]
                = [i \in 1 .. n |-> buf[i]]
    BY <2>1, <2>2
  <2>4. IsArc([i \in 1 .. n |-> buf[i]])
    BY <2>3
  <2>5. IsArc(arc)
    <3> HIDE DEF IsArc
    <3> QED
      BY <2>4
  <2> HIDE DEF arc
  <2>6. arc = [i \in 1 .. n |-> buf[i]]
    BY <2>3, <2>5
  <2> QED
    BY <2>5, <2>6
<1> DEFINE Value(g, i) ==
             IF i = 1 THEN <<buf[1] \div 40, buf[1] % 40>>
             ELSE g[i - 1] \o (IF buf[i] < 128 THEN <<arc[i]>> ELSE <<>>)
           IsParts(g) == g = [i \in 1 .. n |-> Value(g, i)]
           parts == CHOOSE g : IsParts(g)
<1>4. ParseOID(buf) = parts[n]
  BY DEF ParseOID, n
<1> HIDE DEF arc
<1>5. \A g : \A i \in 2 .. n : Value(g, i) = g[i - 1] \o <<oid[i + 1]>>
  <2>1. \A i \in 2 .. n : i \in 1 .. n /\ i # 1
    BY <1>1
  <2>2. \A i \in 2 .. n : buf[i] < 128 /\ arc[i] = oid[i + 1]
    <3>1. \A i \in 2 .. n : buf[i] < 128
      BY <1>16, <2>1
    <3>2. \A i \in 2 .. n : arc[i] = oid[i + 1]
      BY <1>1, <1>3, <2>1
    <3> QED
      BY <3>1, <3>2
  <2> QED
    BY <2>1, <2>2
<1>6. /\ \A i \in 1 .. n : SubSeq(oid, 1, i + 1) = SubSeq(oid, 1, (i + 1) - 1) \o <<oid[i + 1]>>
      /\ SubSeq(oid, 1, 1) = <<oid[1]>>
  <2>1. ASSUME NEW i \in 1 .. n + 1
        PROVE  SubSeq(oid, 1, i) = SubSeq(oid, 1, i - 1) \o <<oid[i]>>
    <3>1. 1 \in 1 .. Len(oid) /\ i \in 1 .. Len(oid)
      BY <1>1
    <3> QED
      BY <1>2, <3>1, SubSeqRecursiveSecond
  <2>2. \A i \in 1 .. n : i + 1 \in 1 .. n + 1
    BY <1>1
  <2>3. SubSeq(oid, 1, 1 - 1) = <<>>
    BY SubSeqEmpty
  <2>4. 1 \in 1 .. n + 1
    BY <1>1
  <2>5. SubSeq(oid, 1, 1) = <<>> \o <<oid[1]>>
    BY <2>1, <2>3, <2>4
  <2>6. <<>> \o <<oid[1]>> = <<oid[1]>>
    <3>1. <<oid[1]>> \in Seq(Nat)
      BY <1>2
    <3> QED
      BY <3>1, ConcatEmptySeq
  <2> QED
    BY <2>1, <2>2, <2>5, <2>6
<1>7. SubSeq(oid, 1, 2) = <<buf[1] \div 40, buf[1] % 40>>
  <2>1. SubSeq(oid, 1, 1 + 1) = SubSeq(oid, 1, (1 + 1) - 1) \o <<oid[1 + 1]>>
    <3>1. 1 \in 1 .. n
      BY <1>1
    <3> QED
      BY <1>6, <3>1
  <2>2. SubSeq(oid, 1, 2) = <<1>> \o <<3>>
    BY <1>2, <1>6, <2>1
  <2>3. <<1>> \o <<3>> = <<1, 3>>
    BY Pairing
  <2>4. 43 \div 40 = 1 /\ 43 % 40 = 3
    OBVIOUS
  <2> QED
    BY <1>1, <2>2, <2>3, <2>4
<1> DEFINE goal == [i \in 1 .. n |-> SubSeq(oid, 1, i + 1)]
<1>8. IsParts(goal)
  <2>1. ASSUME NEW i \in 1 .. n PROVE goal[i] = Value(goal, i)
    <3>1. CASE i = 1
      BY <1>7, <3>1
    <3>2. CASE i # 1
      <4>1. i \in 2 .. n /\ i - 1 \in 1 .. n /\ (i - 1) + 1 = (i + 1) - 1
        BY <1>1, <3>2
      <4>2. goal[i - 1] = SubSeq(oid, 1, (i + 1) - 1)
        BY <4>1
      <4>3. goal[i] = goal[i - 1] \o <<oid[i + 1]>>
        BY <1>6, <4>2
      <4> HIDE DEF goal, Value
      <4> QED
        BY <1>5, <4>1, <4>3
    <3> QED
      BY <3>1, <3>2
  <2>2. goal = [i \in 1 .. n |-> goal[i]]
    OBVIOUS
  <2> HIDE DEF goal, Value
  <2> QED
    BY <2>1, <2>2
<1>9. IsParts(parts)
  <2> HIDE DEF IsParts, goal
  <2> QED
    BY <1>8
<1> HIDE DEF parts
<1>10. \A i \in 1 .. n : parts[i] = Value(parts, i)
  <2> HIDE DEF Value
  <2> QED
    BY <1>9
<1> DEFINE S == {d \in 0 .. n - 1 : parts[d + 1] = SubSeq(oid, 1, (d + 1) + 1)}
<1>11. 0 \in S
  <2>1. 0 \in 0 .. n - 1 /\ 0 + 1 = 1 /\ 1 + 1 = 2 /\ 1 \in 1 .. n
    BY <1>1
  <2>2. parts[1] = SubSeq(oid, 1, 2)
    BY <1>7, <1>10, <2>1
  <2> QED
    BY <2>1, <2>2
<1>12. ASSUME NEW d \in S, d < n - 1 PROVE d + 1 \in S
  <2> DEFINE i == (d + 1) + 1
  <2>1. i \in 2 .. n /\ i \in 1 .. n /\ i - 1 = d + 1 /\ (i + 1) - 1 = i /\ d + 1 \in 0 .. n - 1
    BY <1>1, <1>12
  <2>2. parts[d + 1] = SubSeq(oid, 1, i)
    OBVIOUS
  <2> HIDE DEF i, Value
  <2>3. parts[i] = SubSeq(oid, 1, i) \o <<oid[i + 1]>>
    BY <1>5, <1>10, <2>1, <2>2
  <2>4. parts[i] = SubSeq(oid, 1, i + 1)
    BY <1>6, <2>1, <2>3
  <2> QED
    BY <2>1, <2>4 DEF i
<1>13. \A d \in 0 .. n - 1 : d \in S
  <2> DEFINE m == n - 1
  <2>1. m \in Nat
    BY <1>1
  <2>2. \A d \in S : d < m => d + 1 \in S
    BY <1>12
  <2>3. S \in SUBSET (0 .. m)
    OBVIOUS
  <2> HIDE DEF S, m
  <2>4. \A d \in 0 .. m : d \in S
    BY <1>11, <2>1, <2>2, <2>3, UpTo
  <2> QED
    BY <2>4 DEF m
<1>14. parts[n] = SubSeq(oid, 1, n + 1)
  <2>1. n - 1 \in 0 .. n - 1 /\ (n - 1) + 1 = n
    BY <1>1
  <2>2. n - 1 \in S
    BY <1>13, <2>1
  <2> QED
    BY <2>1, <2>2
<1>15. SubSeq(oid, 1, n + 1) = oid
  BY <1>1, <1>2, SubSeqFull
<1> QED
  BY <1>4, <1>14, <1>15 DEF buf
-----------------------------------------------------------------------------
(* Numbers.                                                                *)

\* At most three zeros are dropped, and no other digit.
LEMMA SignificantOf ==
  ASSUME NEW d \in Seq(Byte), Len(d) = 4
  PROVE  \E k \in 1 .. 4 :
           /\ Significant(d) \in Seq(Byte) /\ Len(Significant(d)) = 5 - k
           /\ \A j \in 1 .. 5 - k : Significant(d)[j] = d[k + j - 1]
           /\ \A j \in 1 .. k - 1 : d[j] = 0
           /\ d[k] # 0 \/ k = 4
<1> DEFINE First(i) == /\ d[i] # 0 \/ i = Len(d)
                       /\ \A j \in 1 .. i - 1 : d[j] = 0
           k == CHOOSE i \in 1 .. Len(d) : First(i)
<1>1. \E i \in 1 .. Len(d) : First(i)
  <2>1. \A i \in {1, 2, 3, 4} : i \in 1 .. Len(d)
    OBVIOUS
  <2>2. /\ \A j \in 1 .. 1 - 1 : FALSE
        /\ \A j \in 1 .. 2 - 1 : j = 1
        /\ \A j \in 1 .. 3 - 1 : j = 1 \/ j = 2
        /\ \A j \in 1 .. 4 - 1 : j = 1 \/ j = 2 \/ j = 3
    OBVIOUS
  <2>3. CASE d[1] # 0
    <3>1. First(1)
      BY <2>2, <2>3
    <3> HIDE DEF First
    <3> QED
      BY <2>1, <3>1
  <2>4. CASE d[1] = 0 /\ d[2] # 0
    <3>1. First(2)
      BY <2>2, <2>4
    <3> HIDE DEF First
    <3> QED
      BY <2>1, <3>1
  <2>5. CASE d[1] = 0 /\ d[2] = 0 /\ d[3] # 0
    <3>1. First(3)
      BY <2>2, <2>5
    <3> HIDE DEF First
    <3> QED
      BY <2>1, <3>1
  <2>6. CASE d[1] = 0 /\ d[2] = 0 /\ d[3] = 0
    <3>1. First(4)
      BY <2>2, <2>6
    <3> HIDE DEF First
    <3> QED
      BY <2>1, <3>1
  <2> QED
    BY <2>3, <2>4, <2>5, <2>6
<1>2. k \in 1 .. Len(d) /\ First(k)
  <2> HIDE DEF First
  <2> QED
    BY <1>1
<1>3. Significant(d) = SubSeq(d, k, 4)
  BY DEF Significant
<1> HIDE DEF k
<1>4. k \in 1 .. 4
  BY <1>2
<1> DEFINE g == SubSeq(d, k, 4)
<1>5. g \in Seq(Byte) /\ Len(g) = 5 - k /\ \A j \in 1 .. 5 - k : g[j] = d[k + j - 1]
  <2>1. \A i \in k .. 4 : d[i] \in Byte
    BY <1>4, ByteAt
  <2>2. g \in Seq(Byte) /\ Len(g) = (IF k <= 4 THEN 4 - k + 1 ELSE 0)
    BY <1>4, <2>1, SubSeqProperties
  <2>3. \A j \in 1 .. 4 - k + 1 : g[j] = d[k + j - 1]
    BY <1>4, <2>1, SubSeqProperties
  <2>4. k <= 4 /\ 4 - k + 1 = 5 - k
    BY <1>4
  <2> HIDE DEF g
  <2> QED
    BY <2>2, <2>3, <2>4
<1> HIDE DEF g
<1>6. Significant(d) = g
  BY <1>3 DEF g
<1> QED
  BY <1>2, <1>4, <1>5, <1>6

\* The two halves of a number in at most five bytes that is not negative.
LEMMA NumberOf ==
  ASSUME NEW v \in Seq(Byte), Len(v) \in 1 .. 5, v[1] < 128
  PROVE  /\ Len(v) = 1 => Number(v) = <<0, v[1]>>
         /\ Len(v) = 2 => Number(v) = <<0, 256 * v[1] + v[2]>>
         /\ Len(v) = 3 => Number(v) = <<v[1], 256 * v[2] + v[3]>>
         /\ Len(v) = 4 => Number(v) = <<256 * v[1] + v[2], 256 * v[3] + v[4]>>
         /\ Len(v) = 5 => Number(v) = <<256 * (256 * v[1] + v[2]) + v[3], 256 * v[4] + v[5]>>
<1> DEFINE n == Len(v)
           u == SubSeq(v, 1, n - 2)
           w == SubSeq(v, n - 1, n)
<1>1. n \in 1 .. 5 /\ \A i \in 1 .. n : v[i] \in Nat /\ v[i] < 256
  <2>1. \A i \in 1 .. n : v[i] \in Byte
    BY ByteAt
  <2>2. \A x \in Byte : x \in Nat /\ x < 256
    BY DEF Byte
  <2>3. n \in 1 .. 5
    OBVIOUS
  <2> HIDE DEF n
  <2> QED
    BY <2>1, <2>2, <2>3
<1>2. [v EXCEPT ![1] = IF @ >= 128 THEN @ - 256 ELSE @] = v
  <2>1. 1 \in 1 .. n /\ ~(v[1] >= 128)
    BY <1>1
  <2>2. v = [i \in 1 .. n |-> v[i]]
    OBVIOUS
  <2> HIDE DEF n
  <2> QED
    BY <2>1, <2>2
<1>3. Number(v) = IF n <= 2 THEN <<BigEndian(v) \div 65536, BigEndian(v) % 65536>>
                  ELSE <<BigEndian(u), BigEndian(w)>>
  BY <1>2 DEF Number
<1>4. CASE n = 1
  <2>1. BigEndian(v) = v[1] /\ v[1] \in Nat /\ v[1] < 256
    BY <1>1, <1>4, BigEndianOf
  <2>2. v[1] \div 65536 = 0 /\ v[1] % 65536 = v[1]
    BY <2>1
  <2> QED
    BY <1>3, <1>4, <2>1, <2>2
<1>5. CASE n = 2
  <2> DEFINE b == 256 * v[1] + v[2]
  <2>1. BigEndian(v) = b /\ v[1] \in Nat /\ v[2] \in Nat /\ v[2] < 256
    BY <1>1, <1>5, BigEndianOf
  <2>2. b \in Nat /\ b < 65536
    BY <2>1
  <2> HIDE DEF b
  <2>3. b \div 65536 = 0 /\ b % 65536 = b
    BY <2>2
  <2>4. Number(v) = <<0, b>>
    BY <1>3, <1>5, <2>1, <2>3
  <2> QED
    BY <1>5, <2>4 DEF b
<1>6. ASSUME n >= 3
      PROVE  /\ BigEndian(w) = 256 * v[n - 1] + v[n]
             /\ Number(v) = <<BigEndian(u), BigEndian(w)>>
  <2> DEFINE m == n - 1
             b == SubSeq(v, m, m + 1)
  <2>1. m \in 1 .. n /\ m < n /\ m + 1 = n
    BY <1>1, <1>6
  <2>2. b \in Seq(Byte) /\ Len(b) = 2 /\ b[1] = v[m] /\ b[2] = v[m + 1]
    <3> HIDE DEF m
    <3> QED
      BY <2>1, SubSeqBytes
  <2>3. b = w
    BY <2>1
  <2> HIDE DEF b
  <2>4. BigEndian(b) = 256 * b[1] + b[2]
    BY <2>2, BigEndianOf
  <2>5. ~(n <= 2)
    BY <1>1, <1>6
  <2> QED
    BY <1>3, <2>1, <2>2, <2>3, <2>4, <2>5
<1>7. ASSUME n >= 3
      PROVE  /\ u \in Seq(Byte) /\ Len(u) = n - 2 /\ \A i \in 1 .. n - 2 : u[i] = v[i]
             /\ \A i \in 1 .. n - 2 : i \in 1 .. n
  <2>1. n - 2 \in Int /\ 1 <= n - 2 /\ n - 2 - 1 + 1 = n - 2 /\ \A i \in 1 .. n - 2 : i \in 1 .. n
    BY <1>1, <1>7
  <2>2. \A i \in 1 .. n - 2 : v[i] \in Byte /\ 1 + i - 1 = i
    BY <2>1, ByteAt
  <2>3. u \in Seq(Byte) /\ Len(u) = (IF 1 <= n - 2 THEN n - 2 - 1 + 1 ELSE 0)
    BY <2>1, <2>2, SubSeqProperties
  <2>4. \A i \in 1 .. n - 2 - 1 + 1 : u[i] = v[1 + i - 1]
    BY <2>1, <2>2, SubSeqProperties
  <2> HIDE DEF u
  <2> QED
    BY <2>1, <2>2, <2>3, <2>4
<1> HIDE DEF u, w
<1>8. CASE n = 3
  <2>1. u \in Seq(Byte) /\ Len(u) = 1 /\ u[1] = v[1]
    BY <1>7, <1>8
  <2>2. BigEndian(u) = v[1]
    BY <2>1, BigEndianOf
  <2> QED
    BY <1>6, <1>8, <2>2
<1>9. CASE n = 4
  <2>1. u \in Seq(Byte) /\ Len(u) = 2 /\ u[1] = v[1] /\ u[2] = v[2]
    BY <1>7, <1>9
  <2>2. BigEndian(u) = 256 * v[1] + v[2]
    BY <2>1, BigEndianOf
  <2> QED
    BY <1>6, <1>9, <2>2
<1>10. CASE n = 5
  <2>1. u \in Seq(Byte) /\ Len(u) = 3 /\ u[1] = v[1] /\ u[2] = v[2] /\ u[3] = v[3]
    BY <1>7, <1>10
  <2>2. BigEndian(u) = 256 * (256 * v[1] + v[2]) + v[3]
    BY <2>1, BigEndianOf
  <2> QED
    BY <1>6, <1>10, <2>2
<1> QED
  BY <1>1, <1>4, <1>5, <1>8, <1>9, <1>10

\* The halves of a counter.
LEMMA CounterParts ==
  ASSUME NEW w \in Counter
  PROVE  w[1] \in Nat /\ w[2] \in Nat /\ w[2] < 65536
<1>1. w[1] \in Nat /\ w[2] \in 0 .. Max16
  BY DEF Counter
<1>2. Max16 = 65535
  BY DEF Max16
<1> DEFINE lo == w[2]
<1>3. lo \in 0 .. Max16
  BY <1>1
<1> HIDE DEF lo
<1>4. lo \in Nat /\ lo <= Max16
  BY <1>2, <1>3
<1>5. lo < 65536
  BY <1>2, <1>4
<1> QED
  BY <1>1, <1>4, <1>5 DEF lo

\* The bytes of a word and its halves.
LEMMA WordBytes ==
  ASSUME NEW w \in Counter
  PROVE  /\ UInt32BE(w) \in Seq(Byte) /\ Len(UInt32BE(w)) = 4
         /\ 256 * UInt32BE(w)[1] + UInt32BE(w)[2] = w[1] % 65536
         /\ 256 * UInt32BE(w)[3] + UInt32BE(w)[4] = w[2]
<1> DEFINE hi == w[1]
           lo == w[2]
<1>1. hi \in Nat /\ lo \in Nat /\ lo < 65536
  BY CounterParts
<1> DEFINE d1 == (hi \div 256) % 256
           d2 == hi % 256
           d3 == lo \div 256
           d4 == lo % 256
<1>2. UInt32BE(w) = <<d1, d2, d3, d4>>
  BY DEF UInt32BE
<1> HIDE DEF hi, lo
<1>3. d1 \in Byte /\ d2 \in Byte /\ d3 \in Byte /\ d4 \in Byte
  BY <1>1 DEF Byte
<1>4. 256 * d3 + d4 = lo
  BY <1>1
<1>5. 256 * d1 + d2 = hi % 65536
  <2> DEFINE q == hi \div 256
             p == q \div 256
  <2>1. hi = 256 * q + d2 /\ q \in Nat /\ d2 \in Nat /\ d2 < 256
    BY <1>1
  <2>2. q = 256 * p + d1 /\ p \in Nat /\ d1 \in Nat /\ d1 < 256
    <3> HIDE DEF q
    <3> QED
      BY <2>1
  <2> HIDE DEF q, p, d1, d2
  <2>3. hi = 65536 * p + (256 * d1 + d2) /\ 256 * d1 + d2 \in Nat /\ 256 * d1 + d2 < 65536
    BY <2>1, <2>2
  <2> DEFINE r == 256 * d1 + d2
  <2> HIDE DEF r
  <2>4. hi = 65536 * p + r /\ r \in Nat /\ r < 65536
    BY <2>3 DEF r
  <2>5. hi % 65536 = r
    BY <2>2, <2>4
  <2> QED
    BY <2>5 DEF r
<1> HIDE DEF d1, d2, d3, d4
<1> DEFINE d == <<d1, d2, d3, d4>>
<1>6. d \in Seq(Byte) /\ Len(d) = 4 /\ d[1] = d1 /\ d[2] = d2 /\ d[3] = d3 /\ d[4] = d4
  BY <1>3
<1> HIDE DEF d
<1>7. UInt32BE(w) = d
  BY <1>2 DEF d
<1> QED
  BY <1>4, <1>5, <1>6, <1>7 DEF hi, lo

\* Padded bytes are those of a number that is not negative.
LEMMA PaddedOf ==
  ASSUME NEW g \in Seq(Byte), Len(g) \in 1 .. 4
  PROVE  /\ Padded(g) \in Seq(Byte) /\ Padded(g)[1] < 128
         /\ \/ Padded(g) = g
            \/ /\ Len(Padded(g)) = Len(g) + 1 /\ Padded(g)[1] = 0
               /\ \A i \in 1 .. Len(g) : Padded(g)[i + 1] = g[i]
<1>1. Len(g) \in 1 .. 4 /\ 1 \in 1 .. Len(g) /\ g[1] \in Byte
  <2>1. 1 \in 1 .. Len(g)
    OBVIOUS
  <2> QED
    BY <2>1, ByteAt
<1>2. CASE g[1] >= 128
  <2> DEFINE z == <<0>>
  <2>1. z \in Seq(Byte) /\ Len(z) = 1 /\ z[1] = 0
    BY DEF Byte
  <2>2. Padded(g) = z \o g
    BY <1>2 DEF Padded
  <2> HIDE DEF z
  <2>3. /\ z \o g \in Seq(Byte) /\ Len(z \o g) = Len(z) + Len(g)
        /\ \A i \in 1 .. Len(z) + Len(g) : (z \o g)[i] = IF i <= Len(z) THEN z[i] ELSE g[i - Len(z)]
    BY <2>1, ConcatProperties
  <2>4. Len(z \o g) = Len(g) + 1 /\ (z \o g)[1] = 0
    BY <1>1, <2>1, <2>3
  <2>5. ASSUME NEW i \in 1 .. Len(g) PROVE (z \o g)[i + 1] = g[i]
    <3>1. i + 1 \in 1 .. Len(z) + Len(g) /\ ~(i + 1 <= Len(z)) /\ (i + 1) - Len(z) = i
      BY <1>1, <2>1
    <3> QED
      BY <2>3, <3>1
  <2> QED
    BY <2>2, <2>3, <2>4, <2>5
<1>3. CASE ~(g[1] >= 128)
  <2>1. Padded(g) = g
    BY <1>3 DEF Padded
  <2>2. g[1] < 128
    <3> DEFINE b == g[1]
    <3>1. b \in Byte /\ ~(b >= 128)
      BY <1>1, <1>3
    <3> HIDE DEF b
    <3>2. b < 128
      BY <3>1 DEF Byte
    <3> QED
      BY <3>2 DEF b
  <2> QED
    BY <2>1, <2>2
<1> QED
  BY <1>2, <1>3

\* A number of 32 bits is read back.
LEMMA EncUnsignedIs ==
  ASSUME NEW tag \in Byte, NEW w \in Counter
  PROVE  \E v \in Seq(Byte) : /\ IsTlv(EncUnsigned(tag, w), tag, v) /\ Len(v) \in 1 .. 5
                              /\ Number(v) = Word32(w)
<1> DEFINE d == UInt32BE(w)
           g == Significant(d)
           v == Padded(g)
<1>1. /\ d \in Seq(Byte) /\ Len(d) = 4
      /\ 256 * d[1] + d[2] = w[1] % 65536 /\ 256 * d[3] + d[4] = w[2]
  BY WordBytes
<1> HIDE DEF d
<1>2. PICK k \in 1 .. 4 :
        /\ g \in Seq(Byte) /\ Len(g) = 5 - k
        /\ \A j \in 1 .. 5 - k : g[j] = d[k + j - 1]
        /\ \A j \in 1 .. k - 1 : d[j] = 0
        /\ d[k] # 0 \/ k = 4
  BY <1>1, SignificantOf
<1>3. Len(g) \in 1 .. 4
  BY <1>2
<1> HIDE DEF g
<1>4. /\ v \in Seq(Byte) /\ v[1] < 128
      /\ \/ v = g
         \/ /\ Len(v) = Len(g) + 1 /\ v[1] = 0
            /\ \A i \in 1 .. Len(g) : v[i + 1] = g[i]
  BY <1>2, <1>3, PaddedOf
<1> HIDE DEF v
<1>5. Len(v) \in 1 .. 5
  <2>1. CASE v = g
    BY <1>3, <2>1
  <2>2. CASE v # g
    <3> DEFINE l == Len(v)
               k1 == Len(g)
    <3>1. l = k1 + 1 /\ k1 \in 1 .. 4
      BY <1>3, <1>4, <2>2
    <3> HIDE DEF l, k1
    <3>2. l \in 1 .. 5
      BY <3>1
    <3> QED
      BY <3>2 DEF l
  <2> QED
    BY <2>1, <2>2
<1> DEFINE hi == 256 * d[1] + d[2]
           lo == 256 * d[3] + d[4]
<1>6. \A i \in 1 .. 4 : d[i] \in Nat
  <2>1. d \in Seq(Byte)
    BY <1>1
  <2>2. \A i \in 1 .. Len(d) : d[i] \in Nat
    BY <2>1, ByteAt
  <2> QED
    BY <1>1, <2>2
<1>7. Number(v) = <<hi, lo>>
  <2>0. d[1] \in Nat /\ d[2] \in Nat /\ d[3] \in Nat /\ d[4] \in Nat
    BY <1>6
  <2>1. CASE k = 1
    <3>1. Len(g) = 4 /\ g[1] = d[1] /\ g[2] = d[2] /\ g[3] = d[3] /\ g[4] = d[4]
      BY <1>2, <2>1
    <3>2. CASE v = g
      <4>1. Number(v) = <<256 * v[1] + v[2], 256 * v[3] + v[4]>>
        BY <1>4, <1>5, <3>1, <3>2, NumberOf
      <4> QED
        BY <3>1, <3>2, <4>1
    <3>3. CASE v # g
      <4>1. Len(v) = 5 /\ v[1] = 0 /\ v[2] = d[1] /\ v[3] = d[2] /\ v[4] = d[3] /\ v[5] = d[4]
        BY <1>4, <3>1, <3>3
      <4>2. Number(v) = <<256 * (256 * v[1] + v[2]) + v[3], 256 * v[4] + v[5]>>
        BY <1>4, <1>5, <4>1, NumberOf
      <4> QED
        BY <2>0, <4>1, <4>2
    <3> QED
      BY <3>2, <3>3
  <2>2. CASE k = 2
    <3>1. Len(g) = 3 /\ g[1] = d[2] /\ g[2] = d[3] /\ g[3] = d[4] /\ d[1] = 0
      BY <1>2, <2>2
    <3>2. CASE v = g
      <4>1. Number(v) = <<v[1], 256 * v[2] + v[3]>>
        BY <1>4, <1>5, <3>1, <3>2, NumberOf
      <4> QED
        BY <2>0, <3>1, <3>2, <4>1
    <3>3. CASE v # g
      <4>1. Len(v) = 4 /\ v[1] = 0 /\ v[2] = d[2] /\ v[3] = d[3] /\ v[4] = d[4]
        BY <1>4, <3>1, <3>3
      <4>2. Number(v) = <<256 * v[1] + v[2], 256 * v[3] + v[4]>>
        BY <1>4, <1>5, <4>1, NumberOf
      <4> QED
        BY <2>0, <3>1, <4>1, <4>2
    <3> QED
      BY <3>2, <3>3
  <2>3. CASE k = 3
    <3>1. Len(g) = 2 /\ g[1] = d[3] /\ g[2] = d[4] /\ d[1] = 0 /\ d[2] = 0
      BY <1>2, <2>3
    <3>2. CASE v = g
      <4>1. Number(v) = <<0, 256 * v[1] + v[2]>>
        BY <1>4, <1>5, <3>1, <3>2, NumberOf
      <4> QED
        BY <2>0, <3>1, <3>2, <4>1
    <3>3. CASE v # g
      <4>1. Len(v) = 3 /\ v[1] = 0 /\ v[2] = d[3] /\ v[3] = d[4]
        BY <1>4, <3>1, <3>3
      <4>2. Number(v) = <<v[1], 256 * v[2] + v[3]>>
        BY <1>4, <1>5, <4>1, NumberOf
      <4> QED
        BY <2>0, <3>1, <4>1, <4>2
    <3> QED
      BY <3>2, <3>3
  <2>4. CASE k = 4
    <3>1. Len(g) = 1 /\ g[1] = d[4] /\ d[1] = 0 /\ d[2] = 0 /\ d[3] = 0
      BY <1>2, <2>4
    <3>2. CASE v = g
      <4>1. Number(v) = <<0, v[1]>>
        BY <1>4, <1>5, <3>1, <3>2, NumberOf
      <4> QED
        BY <2>0, <3>1, <3>2, <4>1
    <3>3. CASE v # g
      <4>1. Len(v) = 2 /\ v[1] = 0 /\ v[2] = d[4]
        BY <1>4, <3>1, <3>3
      <4>2. Number(v) = <<0, 256 * v[1] + v[2]>>
        BY <1>4, <1>5, <4>1, NumberOf
      <4> QED
        BY <2>0, <3>1, <4>1, <4>2
    <3> QED
      BY <3>2, <3>3
  <2> QED
    BY <1>2, <2>1, <2>2, <2>3, <2>4
<1>8. Number(v) = Word32(w)
  BY <1>1, <1>7 DEF Word32
<1>9. EncUnsigned(tag, w) = Tlv(tag, v)
  BY DEF EncUnsigned, v, g, d
<1>10. IsTlv(EncUnsigned(tag, w), tag, v)
  <2>1. Len(v) < 256
    <3> DEFINE l == Len(v)
    <3>1. l \in 1 .. 5
      BY <1>5
    <3> HIDE DEF l
    <3>2. l < 256
      BY <3>1
    <3> QED
      BY <3>2 DEF l
  <2> QED
    BY <1>4, <1>9, <2>1, TlvIs
<1> QED
  BY <1>4, <1>5, <1>8, <1>10

\* A number below 2^16 as a word.
LEMMA SmallWord ==
  ASSUME NEW n \in Nat, n < 65536
  PROVE  Word(n) = <<0, n>> /\ <<0, n>> \in Counter /\ Word32(<<0, n>>) = <<0, n>>
<1>1. n \div 65536 = 0 /\ n % 65536 = n /\ 0 % 65536 = 0
  OBVIOUS
<1>2. n \in 0 .. Max16
  <2>1. Max16 = 65535
    BY DEF Max16
  <2> DEFINE m == Max16
  <2>2. m \in Nat /\ n <= m
    BY <2>1
  <2> HIDE DEF m
  <2>3. n \in 0 .. m
    BY <2>2
  <2> QED
    BY <2>3 DEF m
<1>3. Word(n) = <<0, n>>
  BY <1>1 DEF Word
<1>4. <<0, n>> \in Counter
  BY <1>2 DEF Counter
<1>5. Word32(<<0, n>>) = <<0, n>>
  BY <1>1 DEF Word32
<1> QED
  BY <1>3, <1>4, <1>5

\* The elements that the manager library's encoder makes.
LEMMA ItemIs ==
  ASSUME NEW tag \in Byte, NEW value \in Seq(Byte), Len(value) < 256
  PROVE  IsTlv(Item(tag, value), tag, value)
<1> DEFINE n == Len(value)
           g == Significant(UInt32BE(Word(n)))
           e == IF n < 128 THEN <<n>> ELSE <<128 + Len(g)>> \o g
<1>1. n \in Nat /\ n < 256
  OBVIOUS
<1>2. IsLength(e, n)
  <2> HIDE DEF n
  <2>1. CASE n < 128
    <3>1. e = <<n>> /\ n \in Byte
      BY <1>1, <2>1 DEF Byte
    <3> HIDE DEF e
    <3>2. e \in Seq(Byte) /\ Len(e) = 1 /\ e[1] = n
      BY <3>1
    <3> QED
      BY <2>1, <3>2 DEF IsLength
  <2>2. CASE n >= 128
    <3>1. Word(n) = <<0, n>> /\ <<0, n>> \in Counter
      BY <1>1, SmallWord
    <3> DEFINE d == UInt32BE(<<0, n>>)
    <3>2. d \in Seq(Byte) /\ Len(d) = 4 /\ 256 * d[1] + d[2] = 0 % 65536 /\ 256 * d[3] + d[4] = n
      BY <3>1, WordBytes
    <3>3. g = Significant(d)
      BY <3>1
    <3> HIDE DEF d, g
    <3>4. PICK k \in 1 .. 4 :
            /\ g \in Seq(Byte) /\ Len(g) = 5 - k
            /\ \A j \in 1 .. 5 - k : g[j] = d[k + j - 1]
            /\ \A j \in 1 .. k - 1 : d[j] = 0
            /\ d[k] # 0 \/ k = 4
      BY <3>2, <3>3, SignificantOf
    <3>5. d[1] \in Byte /\ d[2] \in Byte /\ d[3] \in Byte /\ d[4] \in Byte
      <4>3. d \in Seq(Byte)
        BY <3>2
      <4>1. \A i \in 1 .. Len(d) : d[i] \in Byte
        BY <4>3, ByteAt
      <4>2. 1 \in 1 .. 4 /\ 2 \in 1 .. 4 /\ 3 \in 1 .. 4 /\ 4 \in 1 .. 4
        OBVIOUS
      <4> QED
        BY <3>2, <4>1, <4>2
    <3>6. d[1] = 0 /\ d[2] = 0 /\ d[3] = 0 /\ d[4] = n
      <4> DEFINE a == d[1]
                 b == d[2]
                 c == d[3]
                 f == d[4]
      <4>1. a \in Byte /\ b \in Byte /\ c \in Byte /\ f \in Byte
        BY <3>5
      <4>2. 256 * a + b = 0 % 65536 /\ 256 * c + f = n
        BY <3>2
      <4> HIDE DEF a, b, c, f
      <4>3. /\ a \in Nat /\ b \in Nat /\ c \in Nat /\ f \in Nat
            /\ 256 * a + b = 0
        <5>1. 0 % 65536 = 0
          OBVIOUS
        <5> QED
          BY <4>1, <4>2, <5>1 DEF Byte
      <4>4. a = 0 /\ b = 0
        BY <4>3
      <4>5. c = 0 /\ f = n
        BY <1>1, <4>2, <4>3
      <4> QED
        BY <4>4, <4>5 DEF a, b, c, f
    <3>7. k = 4
      <4>1. k = 1 \/ k = 2 \/ k = 3 \/ k = 4
        OBVIOUS
      <4> QED
        BY <3>4, <3>6, <4>1
    <3>8. g \in Seq(Byte) /\ Len(g) = 1 /\ g[1] = n
      BY <3>4, <3>6, <3>7
    <3> DEFINE h == <<129>>
    <3>9. h \in Seq(Byte) /\ Len(h) = 1 /\ h[1] = 129
      BY DEF Byte
    <3>10. e = h \o g
      BY <1>1, <2>2, <3>8
    <3> HIDE DEF h, e
    <3>11. e \in Seq(Byte) /\ Len(e) = 2 /\ e[1] = 129 /\ e[2] = n
      <4>1. /\ h \o g \in Seq(Byte) /\ Len(h \o g) = Len(h) + Len(g)
            /\ \A i \in 1 .. Len(h) + Len(g) : (h \o g)[i] = IF i <= Len(h) THEN h[i] ELSE g[i - Len(h)]
        <5>1. h \in Seq(Byte)
          BY <3>9
        <5>2. g \in Seq(Byte)
          BY <3>8
        <5> QED
          BY <5>1, <5>2, ConcatProperties
      <4> QED
        BY <3>8, <3>9, <3>10, <4>1
    <3> QED
      BY <2>2, <3>11 DEF IsLength
  <2> QED
    BY <1>1, <2>1, <2>2
<1>3. Item(tag, value) = <<tag>> \o e \o value
  BY DEF Item
<1> HIDE DEF e
<1> QED
  BY <1>2, <1>3 DEF IsTlv
-----------------------------------------------------------------------------
(* Packets.                                                                *)

\* The first of several fields, and where the others begin.
LEMMA FirstField ==
  ASSUME NEW buf \in Seq(Byte), NEW off, NEW a, NEW tag, NEW value, NEW u \in Seq(Byte),
         IsTlv(a, tag, value), Holds(buf, off, a \o u)
  PROVE  /\ ReadTLV(buf, off) = Read(tag, value, a)
         /\ Holds(buf, After(buf, off), u)
<1>1. a \in Seq(Byte)
  BY TlvSize
<1>2. Holds(buf, off, a) /\ Holds(buf, off + Len(a), u)
  BY <1>1, HeldParts
<1>3. ReadTLV(buf, off) = Read(tag, value, a) /\ After(buf, off) = off + Len(a)
  BY <1>2, TlvRead DEF Read
<1> QED
  BY <1>2, <1>3

\* Two fields are read back.
LEMMA TwoFields ==
  ASSUME NEW a, NEW ta, NEW va, IsTlv(a, ta, va), NEW b, NEW tb, NEW vb, IsTlv(b, tb, vb)
  PROVE  /\ a \o b \in Seq(Byte) /\ Len(a \o b) = Len(a) + Len(b)
         /\ ReadTLV(a \o b, 1) = Read(ta, va, a)
         /\ ReadTLV(a \o b, After(a \o b, 1)) = Read(tb, vb, b)
<1> DEFINE buf == a \o b
<1>1. a \in Seq(Byte)
  BY TlvSize
<1>2. b \in Seq(Byte)
  BY TlvSize
<1>3. buf \in Seq(Byte) /\ Len(buf) = Len(a) + Len(b)
  BY <1>1, <1>2, ConcatProperties
<1>4. Holds(buf, 1, a \o b)
  BY <1>3, HoldsItself
<1> HIDE DEF buf
<1>5. ReadTLV(buf, 1) = Read(ta, va, a) /\ Holds(buf, After(buf, 1), b)
  BY <1>2, <1>3, <1>4, FirstField
<1>6. ReadTLV(buf, After(buf, 1)) = Read(tb, vb, b)
  BY <1>3, <1>5, TlvRead DEF Read
<1> QED
  BY <1>3, <1>5, <1>6 DEF buf

\* Three fields are read back.
LEMMA ThreeFields ==
  ASSUME NEW a, NEW ta, NEW va, IsTlv(a, ta, va), NEW b, NEW tb, NEW vb, IsTlv(b, tb, vb),
         NEW c, NEW tc, NEW vc, IsTlv(c, tc, vc)
  PROVE  LET buf == a \o b \o c IN
         /\ buf \in Seq(Byte) /\ Len(buf) = Len(a) + Len(b) + Len(c)
         /\ ReadTLV(buf, 1) = Read(ta, va, a)
         /\ ReadTLV(buf, After(buf, 1)) = Read(tb, vb, b)
         /\ ReadTLV(buf, After(buf, After(buf, 1))) = Read(tc, vc, c)
<1> DEFINE buf == a \o b \o c
           r == b \o c
<1>1. a \in Seq(Byte)
  BY TlvSize
<1>2. b \in Seq(Byte)
  BY TlvSize
<1>3. c \in Seq(Byte)
  BY TlvSize
<1>4. buf = a \o r
  BY <1>1, <1>2, <1>3, ConcatAssociative
<1>5. r \in Seq(Byte) /\ Len(r) = Len(b) + Len(c)
  BY <1>2, <1>3, ConcatProperties
<1>6. a \o r \in Seq(Byte) /\ Len(a \o r) = Len(a) + Len(r)
  BY <1>1, <1>5, ConcatProperties
<1>7. buf \in Seq(Byte)
  BY <1>4, <1>6
<1>8. Len(buf) = Len(a) + Len(b) + Len(c)
  <2>1. Len(a) \in Nat /\ Len(b) \in Nat /\ Len(c) \in Nat
    BY <1>1, <1>2, <1>3
  <2> HIDE DEF buf, r
  <2> QED
    BY <1>4, <1>5, <1>6, <2>1
<1> HIDE DEF buf
<1>9. Holds(buf, 1, a \o r)
  BY <1>4, <1>7, HoldsItself
<1>10. ReadTLV(buf, 1) = Read(ta, va, a) /\ Holds(buf, After(buf, 1), b \o c)
  <2>1. ReadTLV(buf, 1) = Read(ta, va, a) /\ Holds(buf, After(buf, 1), r)
    <3> HIDE DEF r
    <3> QED
      BY <1>5, <1>7, <1>9, FirstField
  <2> QED
    BY <2>1
<1>11. ReadTLV(buf, After(buf, 1)) = Read(tb, vb, b) /\ Holds(buf, After(buf, After(buf, 1)), c)
  BY <1>3, <1>7, <1>10, FirstField
<1>12. ReadTLV(buf, After(buf, After(buf, 1))) = Read(tc, vc, c)
  BY <1>7, <1>11, TlvRead DEF Read
<1> QED
  BY <1>7, <1>8, <1>10, <1>11, <1>12 DEF buf

\* The first and the last of four fields are read back.
LEMMA FourFields ==
  ASSUME NEW a, NEW ta, NEW va, IsTlv(a, ta, va), NEW b, NEW tb, NEW vb, IsTlv(b, tb, vb),
         NEW c, NEW tc, NEW vc, IsTlv(c, tc, vc), NEW d, NEW td, NEW vd, IsTlv(d, td, vd)
  PROVE  LET buf == a \o b \o c \o d IN
         /\ buf \in Seq(Byte) /\ Len(buf) = Len(a) + Len(b) + Len(c) + Len(d)
         /\ ReadTLV(buf, 1) = Read(ta, va, a)
         /\ ReadTLV(buf, After(buf, After(buf, After(buf, 1)))) = Read(td, vd, d)
<1> DEFINE buf == a \o b \o c \o d
           q == c \o d
           r == b \o q
<1>1. a \in Seq(Byte)
  BY TlvSize
<1>2. b \in Seq(Byte)
  BY TlvSize
<1>3. c \in Seq(Byte)
  BY TlvSize
<1>4. d \in Seq(Byte)
  BY TlvSize
<1>5. q \in Seq(Byte) /\ Len(q) = Len(c) + Len(d)
  BY <1>3, <1>4, ConcatProperties
<1>6. r \in Seq(Byte) /\ Len(r) = Len(b) + Len(q)
  <2> HIDE DEF q
  <2> QED
    BY <1>2, <1>5, ConcatProperties
<1>7. buf = a \o r
  <2> DEFINE h == a \o b
  <2>1. h \in Seq(Byte)
    BY <1>1, <1>2, ConcatProperties
  <2> HIDE DEF h
  <2>2. h \o c \o d = h \o q
    BY <1>3, <1>4, <2>1, ConcatAssociative
  <2> HIDE DEF q
  <2>3. (a \o b) \o q = a \o (b \o q)
    BY <1>1, <1>2, <1>5, ConcatAssociative
  <2> QED
    BY <2>2, <2>3 DEF h
<1>8. a \o r \in Seq(Byte) /\ Len(a \o r) = Len(a) + Len(r)
  <2> HIDE DEF r
  <2> QED
    BY <1>1, <1>6, ConcatProperties
<1>9. buf \in Seq(Byte)
  BY <1>7, <1>8
<1>10. Len(buf) = Len(a) + Len(b) + Len(c) + Len(d)
  <2>1. Len(a) \in Nat /\ Len(b) \in Nat /\ Len(c) \in Nat /\ Len(d) \in Nat
    BY <1>1, <1>2, <1>3, <1>4
  <2> HIDE DEF buf, r, q
  <2> QED
    BY <1>5, <1>6, <1>7, <1>8, <2>1
<1> HIDE DEF buf, r, q
<1>11. Holds(buf, 1, a \o r)
  BY <1>7, <1>9, HoldsItself
<1>12. ReadTLV(buf, 1) = Read(ta, va, a) /\ Holds(buf, After(buf, 1), r)
  BY <1>6, <1>9, <1>11, FirstField
<1> DEFINE o2 == After(buf, 1)
           o3 == After(buf, o2)
           o4 == After(buf, o3)
<1>13. Holds(buf, o2, b \o q)
  BY <1>12 DEF r
<1> HIDE DEF o2
<1>14. Holds(buf, o3, c \o d)
  <2>1. Holds(buf, o3, q)
    BY <1>5, <1>9, <1>13, FirstField
  <2> QED
    BY <2>1 DEF q
<1> HIDE DEF o3
<1>15. Holds(buf, o4, d)
  BY <1>4, <1>9, <1>14, FirstField
<1> HIDE DEF o4
<1>16. ReadTLV(buf, o4) = Read(td, vd, d)
  BY <1>9, <1>15, TlvRead DEF Read
<1> QED
  BY <1>9, <1>10, <1>12, <1>16 DEF buf, o2, o3, o4

\* The OIDs are those of MIB-2.
LEMMA ShortOID ==
  ASSUME NEW t \in Seq(0 .. 127), Len(t) \in 3 .. 6
  PROVE  IsOID(Mib2 \o t)
<1> DEFINE S == 0 .. 127
           o == Mib2 \o t
<1>1. Mib2 \in Seq(S) /\ Len(Mib2) = 6 /\ Mib2[1] = 1 /\ Mib2[2] = 3
  BY DEF Mib2
<1>2. t \in Seq(S)
  OBVIOUS
<1> HIDE DEF S
<1>3. Mib2 \in Seq(S)
  BY <1>1
<1>4. /\ o \in Seq(S) /\ Len(o) = Len(Mib2) + Len(t)
      /\ \A i \in 1 .. Len(Mib2) + Len(t) : o[i] = IF i <= Len(Mib2) THEN Mib2[i] ELSE t[i - Len(Mib2)]
  BY <1>2, <1>3, ConcatProperties
<1> HIDE DEF o
<1>5. 1 \in 1 .. Len(Mib2) + Len(t) /\ 2 \in 1 .. Len(Mib2) + Len(t)
  BY <1>1
<1>6. o[1] = 1 /\ o[2] = 3
  BY <1>1, <1>4, <1>5
<1>7. Len(o) >= 3 /\ Len(o) <= 12
  <2> DEFINE k == Len(t)
  <2>1. k \in 3 .. 6 /\ Len(o) = 6 + k
    BY <1>1, <1>4
  <2> HIDE DEF k
  <2> QED
    BY <2>1
<1> QED
  BY <1>4, <1>6, <1>7 DEF IsOID, S, o

\* All that the collectors ask for are such OIDs.
LEMMA OidsAreShort ==
  /\ Len(OIDS) = 10 /\ DOMAIN OIDS = 1 .. 10
  /\ \A v \in 1 .. 10 : IsOID(OIDS[v])
<1>1. Len(OIDS) = 10 /\ DOMAIN OIDS = 1 .. 10
  BY DEF OIDS
<1>2. IsOID(sysUptime)
  <2>1. <<1, 3, 0>> \in Seq(0 .. 127) /\ Len(<<1, 3, 0>>) \in 3 .. 6
    OBVIOUS
  <2> QED
    BY <2>1, ShortOID DEF sysUptime
<1>3. IsOID(ifInOctets)
  <2>1. <<2, 2, 1, 10, 1>> \in Seq(0 .. 127) /\ Len(<<2, 2, 1, 10, 1>>) \in 3 .. 6
    OBVIOUS
  <2> QED
    BY <2>1, ShortOID DEF ifInOctets
<1>4. IsOID(ifOutOctets)
  <2>1. <<2, 2, 1, 16, 1>> \in Seq(0 .. 127) /\ Len(<<2, 2, 1, 16, 1>>) \in 3 .. 6
    OBVIOUS
  <2> QED
    BY <2>1, ShortOID DEF ifOutOctets
<1>5. ASSUME NEW a \in 0 .. 127, NEW c \in 0 .. 127, NEW d \in 0 .. 127
      PROVE  IsOID(Mib2 \o <<25, a, 3, 1, c, d>>)
  <2>1. <<25, a, 3, 1, c, d>> \in Seq(0 .. 127) /\ Len(<<25, a, 3, 1, c, d>>) \in 3 .. 6
    OBVIOUS
  <2> QED
    BY <2>1, ShortOID
<1>6. \A a, c, d \in 0 .. 127 : IsOID(Mib2 \o <<25, a, 3, 1, c, d>>)
  BY <1>5
<1>7. /\ IsOID(hrStorageUsed) /\ IsOID(hrStorageSize) /\ IsOID(hrStorageAlloc)
      /\ IsOID(hrMemUsed) /\ IsOID(hrMemTotal) /\ IsOID(hrMemAllocUnit) /\ IsOID(hrCpuLoad)
  <2>1. /\ 1 \in 0 .. 127 /\ 2 \in 0 .. 127 /\ 3 \in 0 .. 127 /\ 4 \in 0 .. 127
        /\ 5 \in 0 .. 127 /\ 6 \in 0 .. 127
    OBVIOUS
  <2>2. IsOID(hrStorageUsed) /\ IsOID(hrStorageSize) /\ IsOID(hrStorageAlloc)
    BY <1>6, <2>1 DEF hrStorageUsed, hrStorageSize, hrStorageAlloc
  <2>3. IsOID(hrMemUsed) /\ IsOID(hrMemTotal) /\ IsOID(hrMemAllocUnit)
    BY <1>6, <2>1 DEF hrMemUsed, hrMemTotal, hrMemAllocUnit
  <2>4. IsOID(hrCpuLoad)
    BY <1>6, <2>1 DEF hrCpuLoad
  <2> QED
    BY <2>2, <2>3, <2>4
<1>8. \A v \in 1 .. 10 : v = 1 \/ v = 2 \/ v = 3 \/ v = 4 \/ v = 5 \/ v = 6 \/ v = 7 \/ v = 8
                         \/ v = 9 \/ v = 10
  OBVIOUS
<1>9. /\ OIDS[1] = sysUptime /\ OIDS[2] = ifInOctets /\ OIDS[3] = ifOutOctets
      /\ OIDS[4] = hrStorageUsed /\ OIDS[5] = hrStorageSize /\ OIDS[6] = hrStorageAlloc
      /\ OIDS[7] = hrMemUsed /\ OIDS[8] = hrMemTotal /\ OIDS[9] = hrMemAllocUnit
      /\ OIDS[10] = hrCpuLoad
  BY DEF OIDS
<1>10. \A v \in 1 .. 10 : IsOID(OIDS[v])
  BY <1>2, <1>3, <1>4, <1>7, <1>8, <1>9
<1> QED
  BY <1>1, <1>10

\* list holds the OIDs, each with an element.
IsBinds(list, vals, tags, values) ==
  /\ list \in Seq(Seq(Byte)) /\ Len(list) = 10
  /\ \A v \in 1 .. 10 : /\ IsTlv(vals[v], tags[v], values[v])
                        /\ IsTlv(list[v], 48, EncOID(OIDS[v]) \o vals[v])

\* The OIDs and their values are read back.
LEMMA BindsRead ==
  ASSUME NEW list, NEW vals, NEW tags, NEW values, IsBinds(list, vals, tags, values)
  PROVE  LET read == ReadAll(FlattenSeq(list)) IN
         /\ Len(read) = 10
         /\ \A v \in 1 .. 10 :
              /\ ParseOID(ReadTLV(read[v].value, 1).value) = OIDS[v]
              /\ ReadTLV(read[v].value, After(read[v].value, 1)) = Read(tags[v], values[v], vals[v])
<1> DEFINE read == ReadAll(FlattenSeq(list))
           tag == [v \in 1 .. 10 |-> 48]
           value == [v \in 1 .. 10 |-> EncOID(OIDS[v]) \o vals[v]]
<1>1. list \in Seq(Seq(Byte)) /\ Len(list) = 10
  BY DEF IsBinds
<1>2. \A v \in 1 .. Len(list) : IsTlv(list[v], tag[v], value[v])
  BY <1>1 DEF IsBinds
<1> HIDE DEF tag, value
<1>3. read = [v \in 1 .. 10 |-> Read(tag[v], value[v], list[v])]
  <2>1. read = [v \in 1 .. Len(list) |-> Read(tag[v], value[v], list[v])]
    <3>1. list \in Seq(Seq(Byte))
      BY <1>1
    <3>2. Len(list) # 0
      BY <1>1
    <3>3. Elements(list, tag, value)
      BY <1>2, <3>1, <3>2 DEF Elements
    <3> QED
      BY <3>3, ReadAllOf
  <2> QED
    BY <1>1, <2>1
<1> HIDE DEF read
<1>4. Len(read) = 10
  BY <1>3
<1>5. ASSUME NEW v \in 1 .. 10
      PROVE  /\ ParseOID(ReadTLV(read[v].value, 1).value) = OIDS[v]
             /\ ReadTLV(read[v].value, After(read[v].value, 1)) = Read(tags[v], values[v], vals[v])
  <2>1. IsOID(OIDS[v])
    BY OidsAreShort
  <2>2. IsTlv(EncOID(OIDS[v]), 6, Content(OIDS[v])) /\ IsTlv(vals[v], tags[v], values[v])
    BY <2>1, EncOIDIs DEF IsBinds
  <2> DEFINE b == EncOID(OIDS[v]) \o vals[v]
  <2>3. read[v].value = b
    BY <1>3 DEF Read, value
  <2>4. /\ ReadTLV(b, 1) = Read(6, Content(OIDS[v]), EncOID(OIDS[v]))
        /\ ReadTLV(b, After(b, 1)) = Read(tags[v], values[v], vals[v])
    BY <2>2, TwoFields
  <2> HIDE DEF b
  <2>5. ReadTLV(b, 1).value = Content(OIDS[v])
    BY <2>4 DEF Read
  <2> QED
    BY <2>1, <2>3, <2>4, <2>5, ParseOIDOf
<1> QED
  BY <1>4, <1>5 DEF read

\* A packet of version, community and a protocol data unit of a kind.
IsPacket(pkt, kind, version, community, id, list) ==
  \E tv, tc, tp, ti, tz, ty, tl, z, y :
    /\ IsTlv(ti, 2, id) /\ IsTlv(tz, 2, z) /\ IsTlv(ty, 2, y) /\ IsTlv(tl, 48, FlattenSeq(list))
    /\ IsTlv(tv, 2, version) /\ IsTlv(tc, 4, community)
    /\ IsTlv(tp, kind, ti \o tz \o ty \o tl)
    /\ IsTlv(pkt, 48, tv \o tc \o tp)

\* A packet is read back, by the agent and by the collector.
LEMMA PacketRead ==
  ASSUME NEW pkt, NEW kind, NEW version, NEW community, NEW id, NEW list,
         IsPacket(pkt, kind, version, community, id, list),
         NEW vals, NEW tags, NEW values, IsBinds(list, vals, tags, values)
  PROVE  /\ pkt \in Seq(Byte)
         /\ kind = 160 => ParsePacket(pkt) = [version |-> version, community |-> community,
                                             reqIdBytes |-> id, oids |-> OIDS]
         /\ ReadAnswer(pkt) =
              [id |-> id, binds |-> [v \in 1 .. 10 |->
                 <<OIDS[v], IF tags[v] = 5 THEN NULL ELSE Number(values[v])>>]]
<1>1. PICK tv, tc, tp, ti, tz, ty, tl, z, y :
        /\ IsTlv(ti, 2, id) /\ IsTlv(tz, 2, z) /\ IsTlv(ty, 2, y) /\ IsTlv(tl, 48, FlattenSeq(list))
        /\ IsTlv(tv, 2, version) /\ IsTlv(tc, 4, community)
        /\ IsTlv(tp, kind, ti \o tz \o ty \o tl)
        /\ IsTlv(pkt, 48, tv \o tc \o tp)
  BY DEF IsPacket
<1> DEFINE outer == tv \o tc \o tp
           pdu == ti \o tz \o ty \o tl
           flat == FlattenSeq(list)
           read == ReadAll(flat)
<1>2. /\ ReadTLV(outer, 1) = Read(2, version, tv)
      /\ ReadTLV(outer, After(outer, 1)) = Read(4, community, tc)
      /\ ReadTLV(outer, After(outer, After(outer, 1))) = Read(kind, pdu, tp)
  <2> HIDE DEF pdu
  <2>1. IsTlv(tp, kind, pdu)
    BY <1>1 DEF pdu
  <2> QED
    BY <1>1, <2>1, ThreeFields
<1>3. /\ ReadTLV(pdu, 1) = Read(2, id, ti)
      /\ ReadTLV(pdu, After(pdu, After(pdu, After(pdu, 1)))) = Read(48, flat, tl)
  BY <1>1, FourFields
<1>4. pkt \in Seq(Byte) /\ ReadTLV(pkt, 1) = Read(48, outer, pkt)
  <2> HIDE DEF outer
  <2>1. IsTlv(pkt, 48, outer)
    BY <1>1 DEF outer
  <2>2. pkt \in Seq(Byte)
    BY <2>1, TlvSize
  <2>3. Holds(pkt, 1, pkt)
    BY <2>2, HoldsItself
  <2> QED
    BY <2>1, <2>2, <2>3, TlvRead DEF Read
<1> HIDE DEF outer, pdu, flat
<1>5. /\ ReadTLV(pkt, 1).value = outer
      /\ ReadTLV(outer, 1).value = version
      /\ ReadTLV(outer, After(outer, 1)).value = community
      /\ ReadTLV(outer, After(outer, After(outer, 1))).value = pdu
      /\ ReadTLV(outer, After(outer, After(outer, 1))).tag = kind
      /\ ReadTLV(pdu, 1).value = id
      /\ ReadTLV(pdu, After(pdu, After(pdu, After(pdu, 1)))).value = flat
  BY <1>2, <1>3, <1>4 DEF Read
<1>6. /\ Len(read) = 10
      /\ \A v \in 1 .. 10 :
           /\ ParseOID(ReadTLV(read[v].value, 1).value) = OIDS[v]
           /\ ReadTLV(read[v].value, After(read[v].value, 1)) = Read(tags[v], values[v], vals[v])
  BY BindsRead DEF flat
<1> HIDE DEF read
<1>7. ASSUME kind = 160
      PROVE  ParsePacket(pkt) = [version |-> version, community |-> community,
                                 reqIdBytes |-> id, oids |-> OIDS]
  <2> DEFINE oids == [v \in 1 .. Len(read) |-> ParseOID(ReadTLV(read[v].value, 1).value)]
  <2>1. oids = OIDS
    <3>1. oids = [v \in 1 .. 10 |-> OIDS[v]]
      BY <1>6
    <3>2. OIDS = [v \in 1 .. 10 |-> OIDS[v]]
      BY DEF OIDS
    <3> QED
      BY <3>1, <3>2
  <2>2. ParsePacket(pkt) = [version |-> version, community |-> community,
                            reqIdBytes |-> id, oids |-> oids]
    BY <1>5, <1>7 DEF ParsePacket, read
  <2> HIDE DEF oids
  <2> QED
    BY <2>1, <2>2
<1>8. ReadAnswer(pkt) =
        [id |-> id, binds |-> [v \in 1 .. 10 |->
           <<OIDS[v], IF tags[v] = 5 THEN NULL ELSE Number(values[v])>>]]
  <2>1. ReadAnswer(pkt) = [id |-> id, binds |-> [v \in 1 .. Len(read) |-> ReadBind(read[v].value)]]
    BY <1>5 DEF ReadAnswer, read
  <2>2. \A v \in 1 .. 10 : ReadBind(read[v].value) =
                              <<OIDS[v], IF tags[v] = 5 THEN NULL ELSE Number(values[v])>>
    <3> TAKE v \in 1 .. 10
    <3> DEFINE value == ReadTLV(read[v].value, After(read[v].value, 1))
    <3>1. value = Read(tags[v], values[v], vals[v])
      BY <1>6
    <3>2. value.tag = tags[v] /\ value.value = values[v]
      <4> HIDE DEF value
      <4> QED
        BY <3>1 DEF Read
    <3>3. ParseOID(ReadTLV(read[v].value, 1).value) = OIDS[v]
      BY <1>6
    <3>4. ReadBind(read[v].value) = <<ParseOID(ReadTLV(read[v].value, 1).value),
                                  IF value.tag = 5 THEN NULL ELSE Number(value.value)>>
      BY DEF ReadBind
    <3> HIDE DEF value
    <3> QED
      BY <3>2, <3>3, <3>4
  <2> QED
    BY <1>6, <2>1, <2>2
<1> QED
  BY <1>4, <1>7, <1>8
-----------------------------------------------------------------------------
(* A request, and the answer to it.                                        *)

\* None of the lengths needs a third byte.
LEMMA SmallLength ==
  ASSUME NEW t \in Seq(Byte), Len(t) <= 4 \/ Len(t) <= 20 \/ Len(t) <= 220 \/ Len(t) <= 243
  PROVE  Len(t) < 256
<1> DEFINE k == Len(t)
<1>1. k \in Nat /\ (k <= 4 \/ k <= 20 \/ k <= 220 \/ k <= 243)
  OBVIOUS
<1> HIDE DEF k
<1>2. k < 256
  BY <1>1
<1> QED
  BY <1>2 DEF k

\* An OID and a value of at most five bytes.
LEMMA BindSize ==
  ASSUME NEW oid, IsOID(oid), NEW x, NEW tag, NEW value, IsTlv(x, tag, value), Len(value) <= 5
  PROVE  EncOID(oid) \o x \in Seq(Byte) /\ Len(EncOID(oid) \o x) <= 20
<1>1. IsTlv(EncOID(oid), 6, Content(oid))
  BY EncOIDIs
<1> DEFINE a == Len(Content(oid))
           b == Len(value)
           p == Len(EncOID(oid))
           q == Len(x)
<1>2. a \in 2 .. 11
  <2>1. a = Len(oid) - 1 /\ Len(oid) - 1 \in 2 .. 11
    BY ContentBytes
  <2> QED
    BY <2>1
<1>3. p <= a + 3 /\ (a < 128 => p = a + 2) /\ a \in Nat
  BY <1>1, TlvSize
<1>4. (b < 128 => q = b + 2) /\ b \in Nat /\ b <= 5
  BY TlvSize
<1>5. EncOID(oid) \o x \in Seq(Byte) /\ Len(EncOID(oid) \o x) = p + q
  BY <1>1, TwoFields
<1> HIDE DEF a, b, p, q
<1>6. p + q <= 20
  BY <1>2, <1>3, <1>4
<1> QED
  BY <1>5, <1>6

\* The sizes of a packet: each length fits in one byte.
LEMMA PacketSize ==
  ASSUME NEW id, NEW ti, IsTlv(ti, 2, id), Len(id) <= 4,
         NEW z, NEW tz, IsTlv(tz, 2, z), Len(z) <= 5,
         NEW y, NEW ty, IsTlv(ty, 2, y), Len(y) <= 5,
         NEW flat, NEW tl, IsTlv(tl, 48, flat), Len(flat) <= 220
  PROVE  /\ ti \o tz \o ty \o tl \in Seq(Byte)
         /\ Len(ti \o tz \o ty \o tl) <= 243
         /\ \A tv, version, tc, community, tp, kind :
              /\ IsTlv(tv, 2, version) /\ Len(version) = 1
              /\ IsTlv(tc, 4, community) /\ Len(community) = 3
              /\ IsTlv(tp, kind, ti \o tz \o ty \o tl)
              => tv \o tc \o tp \in Seq(Byte) /\ Len(tv \o tc \o tp) < 256
<1> DEFINE pdu == ti \o tz \o ty \o tl
<1>1. pdu \in Seq(Byte) /\ Len(pdu) = Len(ti) + Len(tz) + Len(ty) + Len(tl)
  BY FourFields
<1> HIDE DEF pdu
<1>2. Len(pdu) <= 243
  <2> DEFINE i == Len(id)
             a == Len(ti)
             b == Len(tz)
             c == Len(ty)
             d == Len(tl)
             u == Len(z)
             v == Len(y)
             w == Len(flat)
  <2>1. (i < 128 => a = i + 2) /\ i \in Nat /\ i <= 4
    BY TlvSize
  <2>2. (u < 128 => b = u + 2) /\ u \in Nat /\ u <= 5
    BY TlvSize
  <2>3. (v < 128 => c = v + 2) /\ v \in Nat /\ v <= 5
    BY TlvSize
  <2>4. w + 2 <= d /\ d <= w + 3 /\ w \in Nat /\ w <= 220
    BY TlvSize
  <2>6. tl \in Seq(Byte)
    BY TlvSize
  <2>7. d \in Nat
    BY <2>6
  <2>5. Len(pdu) = a + b + c + d
    BY <1>1
  <2> HIDE DEF a, b, c, d, i, u, v, w
  <2> QED
    BY <2>1, <2>2, <2>3, <2>4, <2>5, <2>7
<1>3. ASSUME NEW tv, NEW version, NEW tc, NEW community, NEW tp, NEW kind,
             IsTlv(tv, 2, version), Len(version) = 1,
             IsTlv(tc, 4, community), Len(community) = 3,
             IsTlv(tp, kind, pdu)
      PROVE  tv \o tc \o tp \in Seq(Byte) /\ Len(tv \o tc \o tp) < 256
  <2> DEFINE a == Len(tv)
             b == Len(tc)
             c == Len(tp)
             d == Len(pdu)
  <2>1. tv \o tc \o tp \in Seq(Byte) /\ Len(tv \o tc \o tp) = a + b + c
    BY <1>3, ThreeFields
  <2> DEFINE i == Len(version)
             j == Len(community)
  <2>7. i = 1 /\ (i < 128 => a = i + 2)
    BY <1>3, TlvSize
  <2>8. j = 3 /\ (j < 128 => b = j + 2)
    BY <1>3, TlvSize
  <2> HIDE DEF i, j
  <2>2. a = 3
    BY <2>7
  <2>3. b = 5
    BY <2>8
  <2>4. c <= d + 3 /\ d \in Nat /\ d <= 243
    BY <1>2, <1>3, TlvSize
  <2>5. tp \in Seq(Byte)
    BY <1>3, TlvSize
  <2>6. c \in Nat
    BY <2>5
  <2> HIDE DEF a, b, c, d
  <2> QED
    BY <2>1, <2>2, <2>3, <2>4, <2>6
<1> QED
  BY <1>1, <1>2, <1>3 DEF pdu
-----------------------------------------------------------------------------
(* What the host answers to each OID.                                      *)

\* What follows the prefix of MIB-2 tells OIDs apart.
LEMMA SameTail ==
  ASSUME NEW t \in Seq(Nat), NEW u \in Seq(Nat), Mib2 \o t = Mib2 \o u
  PROVE  t = u
<1>1. Mib2 \in Seq(Nat)
  BY DEF Mib2
<1> QED
  BY <1>1, ConcatSimplifications

\* No two of the OIDs are the same.
LEMMA OidsDiffer ==
  /\ sysUptime \notin {ifInOctets, ifOutOctets, hrStorageUsed, hrStorageSize, hrStorageAlloc,
                       hrMemUsed, hrMemTotal, hrMemAllocUnit, hrCpuLoad}
  /\ ifInOctets \notin {ifOutOctets, hrStorageUsed, hrStorageSize, hrStorageAlloc,
                        hrMemUsed, hrMemTotal, hrMemAllocUnit, hrCpuLoad}
  /\ ifOutOctets \notin {hrStorageUsed, hrStorageSize, hrStorageAlloc,
                         hrMemUsed, hrMemTotal, hrMemAllocUnit, hrCpuLoad}
  /\ hrStorageUsed \notin {hrStorageSize, hrStorageAlloc, hrMemUsed, hrMemTotal,
                           hrMemAllocUnit, hrCpuLoad}
  /\ hrStorageSize \notin {hrStorageAlloc, hrMemUsed, hrMemTotal, hrMemAllocUnit, hrCpuLoad}
  /\ hrStorageAlloc \notin {hrMemUsed, hrMemTotal, hrMemAllocUnit, hrCpuLoad}
  /\ hrMemUsed \notin {hrMemTotal, hrMemAllocUnit, hrCpuLoad}
  /\ hrMemTotal \notin {hrMemAllocUnit, hrCpuLoad}
  /\ hrMemAllocUnit # hrCpuLoad
<1>1. sysUptime \notin {ifInOctets, ifOutOctets, hrStorageUsed, hrStorageSize, hrStorageAlloc,
                       hrMemUsed, hrMemTotal, hrMemAllocUnit, hrCpuLoad}
  BY SameTail DEF sysUptime, ifInOctets, ifOutOctets, hrStorageUsed, hrStorageSize,
         hrStorageAlloc, hrMemUsed, hrMemTotal, hrMemAllocUnit, hrCpuLoad
<1>2. ifInOctets \notin {ifOutOctets, hrStorageUsed, hrStorageSize, hrStorageAlloc,
                        hrMemUsed, hrMemTotal, hrMemAllocUnit, hrCpuLoad}
  BY SameTail DEF ifInOctets, ifOutOctets, hrStorageUsed, hrStorageSize,
         hrStorageAlloc, hrMemUsed, hrMemTotal, hrMemAllocUnit, hrCpuLoad
<1>3. ifOutOctets \notin {hrStorageUsed, hrStorageSize, hrStorageAlloc,
                         hrMemUsed, hrMemTotal, hrMemAllocUnit, hrCpuLoad}
  BY SameTail DEF ifOutOctets, hrStorageUsed, hrStorageSize,
         hrStorageAlloc, hrMemUsed, hrMemTotal, hrMemAllocUnit, hrCpuLoad
<1>4. hrStorageUsed \notin {hrStorageSize, hrStorageAlloc, hrMemUsed, hrMemTotal,
                           hrMemAllocUnit, hrCpuLoad}
  <2>1. hrStorageUsed \notin {hrStorageSize, hrStorageAlloc}
    BY SameTail DEF hrStorageUsed, hrStorageSize, hrStorageAlloc
  <2>2. hrStorageUsed \notin {hrMemUsed, hrMemTotal, hrMemAllocUnit, hrCpuLoad}
    BY SameTail DEF hrStorageUsed, hrMemUsed, hrMemTotal, hrMemAllocUnit, hrCpuLoad
  <2> QED
    BY <2>1, <2>2
<1>5. hrStorageSize \notin {hrStorageAlloc, hrMemUsed, hrMemTotal, hrMemAllocUnit, hrCpuLoad}
  BY SameTail DEF hrStorageSize, hrStorageAlloc, hrMemUsed, hrMemTotal, hrMemAllocUnit, hrCpuLoad
<1>6. hrStorageAlloc \notin {hrMemUsed, hrMemTotal, hrMemAllocUnit, hrCpuLoad}
  BY SameTail DEF hrStorageAlloc, hrMemUsed, hrMemTotal, hrMemAllocUnit, hrCpuLoad
<1>7. hrMemUsed \notin {hrMemTotal, hrMemAllocUnit, hrCpuLoad}
  BY SameTail DEF hrMemUsed, hrMemTotal, hrMemAllocUnit, hrCpuLoad
<1>8. hrMemTotal \notin {hrMemAllocUnit, hrCpuLoad}
  BY SameTail DEF hrMemTotal, hrMemAllocUnit, hrCpuLoad
<1>9. hrMemAllocUnit # hrCpuLoad
  BY SameTail DEF hrMemAllocUnit, hrCpuLoad
<1> QED
  BY <1>1, <1>2, <1>3, <1>4, <1>5, <1>6, <1>7, <1>8, <1>9

\* A word of 16 and 16 bits is a word; the numbers of the host fit in one.
LEMMA Words ==
  /\ \A w \in Counter : Word32(w) \in Counter
  /\ \A n \in Nat : Word(n) \in Counter
<1>1. \A hi \in Nat, lo \in 0 .. Max16 : <<hi, lo>> \in Counter
  BY DEF Counter
<1>2. \A n \in Nat : n < 65536 => n \in 0 .. Max16
  <2>1. Max16 \in Nat /\ \A n \in Nat : n < 65536 => n <= Max16
    BY SMT DEF Max16
  <2> QED
    BY <2>1
<1>3. ASSUME NEW w \in Counter PROVE Word32(w) \in Counter
  <2>1. PICK hi \in Nat, lo \in 0 .. Max16 : w = <<hi, lo>>
    BY DEF Counter
  <2>2. hi % 65536 \in Nat
    OBVIOUS
  <2> QED
    BY <1>1, <2>1, <2>2 DEF Word32
<1>4. ASSUME NEW n \in Nat PROVE Word(n) \in Counter
  <2>1. n \div 65536 \in Nat /\ n % 65536 \in Nat /\ n % 65536 < 65536
    OBVIOUS
  <2> QED
    BY <1>1, <1>2, <2>1 DEF Word
<1> QED
  BY <1>3, <1>4

\* What each OID means, if it is known.
LEMMA Meanings ==
  ASSUME NEW known, NEW a
  PROVE  /\ \A oid : oid \notin known => Meant(known, oid, a) = NULL
         /\ sysUptime \in known => Meant(known, sysUptime, a) = Word32(a.uptimeTicks)
         /\ ifInOctets \in known => Meant(known, ifInOctets, a) = Word32(a.ifInOctets)
         /\ ifOutOctets \in known => Meant(known, ifOutOctets, a) = Word32(a.ifOutOctets)
         /\ hrStorageUsed \in known => Meant(known, hrStorageUsed, a) = Word(a.diskUsed)
         /\ hrStorageSize \in known => Meant(known, hrStorageSize, a) = Word(DiskSize)
         /\ hrStorageAlloc \in known => Meant(known, hrStorageAlloc, a) = Word(DiskAlloc)
         /\ hrMemUsed \in known => Meant(known, hrMemUsed, a) = Word(a.memUsed)
         /\ hrMemTotal \in known => Meant(known, hrMemTotal, a) = Word(MemTotal)
         /\ hrMemAllocUnit \in known => Meant(known, hrMemAllocUnit, a) = Word(MemAlloc)
         /\ hrCpuLoad \in known => Meant(known, hrCpuLoad, a) = Word(a.cpuLoad)
<1>1. \A oid : oid \notin known => Meant(known, oid, a) = NULL
  BY DEF Meant
<1>2. sysUptime \in known => Meant(known, sysUptime, a) = Word32(a.uptimeTicks)
  BY OidsDiffer DEF Meant
<1>3. ifInOctets \in known => Meant(known, ifInOctets, a) = Word32(a.ifInOctets)
  BY OidsDiffer DEF Meant
<1>4. ifOutOctets \in known => Meant(known, ifOutOctets, a) = Word32(a.ifOutOctets)
  BY OidsDiffer DEF Meant
<1>5. hrStorageUsed \in known => Meant(known, hrStorageUsed, a) = Word(a.diskUsed)
  BY OidsDiffer DEF Meant
<1>6. hrStorageSize \in known => Meant(known, hrStorageSize, a) = Word(DiskSize)
  BY OidsDiffer DEF Meant
<1>7. hrStorageAlloc \in known => Meant(known, hrStorageAlloc, a) = Word(DiskAlloc)
  BY OidsDiffer DEF Meant
<1>8. hrMemUsed \in known => Meant(known, hrMemUsed, a) = Word(a.memUsed)
  BY OidsDiffer DEF Meant
<1>9. hrMemTotal \in known => Meant(known, hrMemTotal, a) = Word(MemTotal)
  BY OidsDiffer DEF Meant
<1>10. hrMemAllocUnit \in known => Meant(known, hrMemAllocUnit, a) = Word(MemAlloc)
  BY OidsDiffer DEF Meant
<1>11. hrCpuLoad \in known => Meant(known, hrCpuLoad, a) = Word(a.cpuLoad)
  BY OidsDiffer DEF Meant
<1> QED
  BY <1>1, <1>2, <1>3, <1>4, <1>5, <1>6, <1>7, <1>8, <1>9, <1>10, <1>11

\* Which element stands for each OID, if it is known.
LEMMA ElementsOf ==
  ASSUME NEW known, NEW a
  PROVE  /\ \A oid : oid \notin known => OID_VALUES(known, oid, a) = Tlv(5, <<>>)
         /\ sysUptime \in known => OID_VALUES(known, sysUptime, a) = EncTimeTicks(a.uptimeTicks)
         /\ ifInOctets \in known => OID_VALUES(known, ifInOctets, a) = EncCounter32(a.ifInOctets)
         /\ ifOutOctets \in known => OID_VALUES(known, ifOutOctets, a) = EncCounter32(a.ifOutOctets)
         /\ hrStorageUsed \in known => OID_VALUES(known, hrStorageUsed, a) = EncGauge32(Word(a.diskUsed))
         /\ hrStorageSize \in known => OID_VALUES(known, hrStorageSize, a) = EncGauge32(Word(DiskSize))
         /\ hrStorageAlloc \in known => OID_VALUES(known, hrStorageAlloc, a) = EncInt(DiskAlloc)
         /\ hrMemUsed \in known => OID_VALUES(known, hrMemUsed, a) = EncGauge32(Word(a.memUsed))
         /\ hrMemTotal \in known => OID_VALUES(known, hrMemTotal, a) = EncGauge32(Word(MemTotal))
         /\ hrMemAllocUnit \in known => OID_VALUES(known, hrMemAllocUnit, a) = EncInt(MemAlloc)
         /\ hrCpuLoad \in known => OID_VALUES(known, hrCpuLoad, a) = EncGauge32(Word(a.cpuLoad))
<1>1. \A oid : oid \notin known => OID_VALUES(known, oid, a) = Tlv(5, <<>>)
  BY DEF OID_VALUES
<1>2. sysUptime \in known => OID_VALUES(known, sysUptime, a) = EncTimeTicks(a.uptimeTicks)
  BY OidsDiffer DEF OID_VALUES
<1>3. ifInOctets \in known => OID_VALUES(known, ifInOctets, a) = EncCounter32(a.ifInOctets)
  BY OidsDiffer DEF OID_VALUES
<1>4. ifOutOctets \in known => OID_VALUES(known, ifOutOctets, a) = EncCounter32(a.ifOutOctets)
  BY OidsDiffer DEF OID_VALUES
<1>5. hrStorageUsed \in known => OID_VALUES(known, hrStorageUsed, a) = EncGauge32(Word(a.diskUsed))
  BY OidsDiffer DEF OID_VALUES
<1>6. hrStorageSize \in known => OID_VALUES(known, hrStorageSize, a) = EncGauge32(Word(DiskSize))
  BY OidsDiffer DEF OID_VALUES
<1>7. hrStorageAlloc \in known => OID_VALUES(known, hrStorageAlloc, a) = EncInt(DiskAlloc)
  BY OidsDiffer DEF OID_VALUES
<1>8. hrMemUsed \in known => OID_VALUES(known, hrMemUsed, a) = EncGauge32(Word(a.memUsed))
  BY OidsDiffer DEF OID_VALUES
<1>9. hrMemTotal \in known => OID_VALUES(known, hrMemTotal, a) = EncGauge32(Word(MemTotal))
  BY OidsDiffer DEF OID_VALUES
<1>10. hrMemAllocUnit \in known => OID_VALUES(known, hrMemAllocUnit, a) = EncInt(MemAlloc)
  BY OidsDiffer DEF OID_VALUES
<1>11. hrCpuLoad \in known => OID_VALUES(known, hrCpuLoad, a) = EncGauge32(Word(a.cpuLoad))
  BY OidsDiffer DEF OID_VALUES
<1> QED
  BY <1>1, <1>2, <1>3, <1>4, <1>5, <1>6, <1>7, <1>8, <1>9, <1>10, <1>11

\* x is an element of at most five bytes that stands for the number or the NULL n.
StandsFor(x, tag, value, n) ==
  IsTlv(x, tag, value) /\ Len(value) <= 5 /\ n = IF tag = 5 THEN NULL ELSE Number(value)

\* Some element, whatever its tag.
Stands(x, n) == \E tag, value : StandsFor(x, tag, value, n)

\* A number that is encoded stands for itself, up to 32 bits.
LEMMA NumberStands ==
  ASSUME NEW tag \in Byte, tag # 5, NEW w \in Counter
  PROVE  Stands(EncUnsigned(tag, w), Word32(w))
<1>1. PICK v \in Seq(Byte) : /\ IsTlv(EncUnsigned(tag, w), tag, v) /\ Len(v) \in 1 .. 5
                            /\ Number(v) = Word32(w)
  BY EncUnsignedIs
<1>2. Len(v) <= 5
  <2> DEFINE l == Len(v)
  <2>1. l \in 1 .. 5
    BY <1>1
  <2> HIDE DEF l
  <2>2. l <= 5
    BY <2>1
  <2> QED
    BY <2>2 DEF l
<1> QED
  BY <1>1, <1>2 DEF Stands, StandsFor

\* A number of 16 bits stands for itself.
LEMMA SmallStands ==
  ASSUME NEW tag \in Byte, tag # 5, NEW n \in Nat, n < 65536
  PROVE  Stands(EncUnsigned(tag, Word(n)), Word(n))
<1>1. Word(n) \in Counter /\ Word32(Word(n)) = Word(n)
  <2>1. Word(n) = <<0, n>> /\ <<0, n>> \in Counter /\ Word32(<<0, n>>) = <<0, n>>
    BY SmallWord
  <2> DEFINE w == <<0, n>>
  <2>2. Word(n) = w /\ w \in Counter /\ Word32(w) = w
    BY <2>1
  <2> HIDE DEF w
  <2> QED
    BY <2>2
<1> QED
  BY <1>1, NumberStands

\* The units in which the storage is counted stand for themselves.
LEMMA AllocStands ==
  Stands(EncInt(DiskAlloc), Word(DiskAlloc)) /\ Stands(EncInt(MemAlloc), Word(MemAlloc))
<1>1. Word(DiskAlloc) = <<16384, 0>> /\ Word(MemAlloc) = <<16, 0>>
  BY DEF Word, DiskAlloc, MemAlloc
<1>2. 16384 % 65536 = 16384 /\ 16 % 65536 = 16
  OBVIOUS
<1>3. Word32(Word(DiskAlloc)) = Word(DiskAlloc) /\ Word32(Word(MemAlloc)) = Word(MemAlloc)
  BY <1>1, <1>2 DEF Word32
<1>4. DiskAlloc \in Nat /\ MemAlloc \in Nat /\ 2 \in Byte /\ 2 # 5
  BY SMT DEF DiskAlloc, MemAlloc, Byte
<1>5. Word(DiskAlloc) \in Counter /\ Word(MemAlloc) \in Counter
  BY <1>4, Words
<1> QED
  BY <1>3, <1>4, <1>5, NumberStands DEF EncInt

\* What the host answers to an OID stands for what it means.
LEMMA ValueStands ==
  ASSUME NEW known, NEW a \in Sample, NEW v \in 1 .. 10
  PROVE  Stands(OID_VALUES(known, OIDS[v], a), Meant(known, OIDS[v], a))
<1>1. a.uptimeTicks \in Counter /\ a.ifInOctets \in Counter /\ a.ifOutOctets \in Counter
  BY DEF Sample
<1>2. /\ a.memUsed \in Nat /\ a.memUsed < 65536 /\ a.cpuLoad \in Nat /\ a.cpuLoad < 65536
      /\ a.diskUsed \in Nat /\ a.diskUsed < 65536
      /\ DiskSize \in Nat /\ DiskSize < 65536 /\ MemTotal \in Nat /\ MemTotal < 65536
  <2>1. a.memUsed \in MinMem .. MaxMem /\ a.cpuLoad \in 5 .. 95 /\ a.diskUsed \in 0 .. DiskSize - 1
    BY DEF Sample
  <2>2. \A n \in MinMem .. MaxMem : n \in Nat /\ n < 65536
    BY SMT DEF MinMem, MaxMem
  <2>3. \A n \in 5 .. 95 : n \in Nat /\ n < 65536
    BY SMT
  <2>4. \A n \in 0 .. DiskSize - 1 : n \in Nat /\ n < 65536
    BY SMT DEF DiskSize
  <2>5. DiskSize \in Nat /\ DiskSize < 65536 /\ MemTotal \in Nat /\ MemTotal < 65536
    BY SMT DEF DiskSize, MemTotal
  <2> QED
    BY <2>1, <2>2, <2>3, <2>4, <2>5
<1>3. 67 \in Byte /\ 65 \in Byte /\ 66 \in Byte /\ 5 \in Byte
  BY DEF Byte
<1>4. CASE OIDS[v] \notin known
  <2>1. OID_VALUES(known, OIDS[v], a) = Tlv(5, <<>>) /\ Meant(known, OIDS[v], a) = NULL
    BY <1>4, ElementsOf, Meanings
  <2>2. <<>> \in Seq(Byte) /\ Len(<<>>) < 256 /\ Len(<<>>) <= 5
    OBVIOUS
  <2>3. IsTlv(Tlv(5, <<>>), 5, <<>>)
    BY <1>3, <2>2, TlvIs
  <2>4. StandsFor(Tlv(5, <<>>), 5, <<>>, NULL)
    BY <2>2, <2>3 DEF StandsFor
  <2> QED
    BY <2>1, <2>4 DEF Stands
<1>5. ASSUME sysUptime \in known
      PROVE  Stands(OID_VALUES(known, sysUptime, a), Meant(known, sysUptime, a))
  BY <1>1, <1>3, <1>5, ElementsOf, Meanings, NumberStands DEF EncTimeTicks
<1>6. ASSUME ifInOctets \in known
      PROVE  Stands(OID_VALUES(known, ifInOctets, a), Meant(known, ifInOctets, a))
  BY <1>1, <1>3, <1>6, ElementsOf, Meanings, NumberStands DEF EncCounter32
<1>7. ASSUME ifOutOctets \in known
      PROVE  Stands(OID_VALUES(known, ifOutOctets, a), Meant(known, ifOutOctets, a))
  BY <1>1, <1>3, <1>7, ElementsOf, Meanings, NumberStands DEF EncCounter32
<1>8. ASSUME hrStorageUsed \in known
      PROVE  Stands(OID_VALUES(known, hrStorageUsed, a), Meant(known, hrStorageUsed, a))
  BY <1>2, <1>3, <1>8, ElementsOf, Meanings, SmallStands DEF EncGauge32
<1>9. ASSUME hrStorageSize \in known
      PROVE  Stands(OID_VALUES(known, hrStorageSize, a), Meant(known, hrStorageSize, a))
  BY <1>2, <1>3, <1>9, ElementsOf, Meanings, SmallStands DEF EncGauge32
<1>10. ASSUME hrStorageAlloc \in known
       PROVE  Stands(OID_VALUES(known, hrStorageAlloc, a), Meant(known, hrStorageAlloc, a))
  BY <1>10, ElementsOf, Meanings, AllocStands
<1>11. ASSUME hrMemUsed \in known
       PROVE  Stands(OID_VALUES(known, hrMemUsed, a), Meant(known, hrMemUsed, a))
  BY <1>2, <1>3, <1>11, ElementsOf, Meanings, SmallStands DEF EncGauge32
<1>12. ASSUME hrMemTotal \in known
       PROVE  Stands(OID_VALUES(known, hrMemTotal, a), Meant(known, hrMemTotal, a))
  BY <1>2, <1>3, <1>12, ElementsOf, Meanings, SmallStands DEF EncGauge32
<1>13. ASSUME hrMemAllocUnit \in known
       PROVE  Stands(OID_VALUES(known, hrMemAllocUnit, a), Meant(known, hrMemAllocUnit, a))
  BY <1>13, ElementsOf, Meanings, AllocStands
<1>14. ASSUME hrCpuLoad \in known
       PROVE  Stands(OID_VALUES(known, hrCpuLoad, a), Meant(known, hrCpuLoad, a))
  BY <1>2, <1>3, <1>14, ElementsOf, Meanings, SmallStands DEF EncGauge32
<1>15. OIDS[v] \in {sysUptime, ifInOctets, ifOutOctets, hrStorageUsed, hrStorageSize,
                   hrStorageAlloc, hrMemUsed, hrMemTotal, hrMemAllocUnit, hrCpuLoad}
  <2>1. v = 1 \/ v = 2 \/ v = 3 \/ v = 4 \/ v = 5 \/ v = 6 \/ v = 7 \/ v = 8 \/ v = 9 \/ v = 10
    OBVIOUS
  <2> QED
    BY <2>1 DEF OIDS
<1> QED
  BY <1>4, <1>5, <1>6, <1>7, <1>8, <1>9, <1>10, <1>11, <1>12, <1>13, <1>14, <1>15

\* The elements of what the host answers to the OIDs.
LEMMA AnswerElements ==
  ASSUME NEW known, NEW a \in Sample
  PROVE  \E tags, values : \A v \in 1 .. 10 :
           StandsFor(OID_VALUES(known, OIDS[v], a), tags[v], values[v], Meant(known, OIDS[v], a))
<1> DEFINE Is(v, p) ==
             StandsFor(OID_VALUES(known, OIDS[v], a), p[1], p[2], Meant(known, OIDS[v], a))
           pick == [v \in 1 .. 10 |-> CHOOSE p : Is(v, p)]
           tags == [v \in 1 .. 10 |-> pick[v][1]]
           values == [v \in 1 .. 10 |-> pick[v][2]]
<1>1. ASSUME NEW v \in 1 .. 10 PROVE Is(v, pick[v])
  <2>1. PICK tag, value :
          StandsFor(OID_VALUES(known, OIDS[v], a), tag, value, Meant(known, OIDS[v], a))
    BY ValueStands DEF Stands
  <2>2. Is(v, <<tag, value>>)
    BY <2>1
  <2> HIDE DEF Is
  <2>3. Is(v, CHOOSE p : Is(v, p))
    BY <2>2
  <2> QED
    BY <2>3
<1> HIDE DEF pick
<1>2. \A v \in 1 .. 10 : StandsFor(OID_VALUES(known, OIDS[v], a), tags[v], values[v],
                                   Meant(known, OIDS[v], a))
  BY <1>1
<1> QED
  BY <1>2

\* A list of ten binds, each of at most 22 bytes.
LEMMA ListIs ==
  ASSUME NEW list, list = [v \in 1 .. 10 |-> list[v]], NEW vals, NEW tags, NEW values,
         \A v \in 1 .. 10 : /\ IsTlv(vals[v], tags[v], values[v]) /\ Len(values[v]) <= 5
                           /\ IsTlv(list[v], 48, EncOID(OIDS[v]) \o vals[v])
  PROVE  /\ IsBinds(list, vals, tags, values)
         /\ FlattenSeq(list) \in Seq(Byte) /\ Len(FlattenSeq(list)) <= 220
<1>1. \A v \in 1 .. 10 : list[v] \in Seq(Byte)
  BY TlvSize
<1>2. list \in Seq(Seq(Byte)) /\ Len(list) = 10
  <2> DEFINE S == Seq(Byte)
  <2> HIDE DEF S
  <2>1. \A v \in 1 .. 10 : list[v] \in S
    BY <1>1 DEF S
  <2>2. list \in [1 .. 10 -> S]
    BY <2>1
  <2>3. list \in Seq(S) /\ Len(list) = 10
    BY <2>2
  <2> QED
    BY <2>3 DEF S
<1>3. ASSUME NEW v \in 1 .. 10 PROVE Len(list[v]) <= 22
  <2> DEFINE c == EncOID(OIDS[v]) \o vals[v]
             k == Len(c)
             l == Len(list[v])
  <2>1. IsOID(OIDS[v])
    BY OidsAreShort
  <2>2. k <= 20
    BY <2>1, BindSize
  <2>3. (k < 128 => l = k + 2) /\ k \in Nat
    <3> HIDE DEF c
    <3>1. IsTlv(list[v], 48, c)
      BY DEF c
    <3> QED
      BY <3>1, TlvSize
  <2> HIDE DEF k, l
  <2>4. l <= 22
    BY <2>2, <2>3
  <2> QED
    BY <2>4 DEF l
<1>4. FlattenSeq(list) \in Seq(Byte) /\ Len(FlattenSeq(list)) <= 220
  <2>1. list \in Seq(Seq(Byte))
    BY <1>2
  <2>2. Len(list) = 10
    BY <1>2
  <2>3. 1 .. Len(list) = 1 .. 10 /\ Len(list) # 0
    BY <2>2
  <2>4. \A v \in 1 .. 10 : Len(list[v]) <= 22
    BY <1>3
  <2>5. \A v \in 1 .. Len(list) : Len(list[v]) <= 22
    BY <2>3, <2>4
  <2>6. FlattenSeq(list) \in Seq(Byte) /\ Len(FlattenSeq(list)) <= 22 * Len(list)
    BY <2>1, <2>3, <2>5, FlattenSize
  <2>7. 22 * Len(list) = 220
    BY <2>2
  <2> QED
    BY <2>6, <2>7
<1>5. IsBinds(list, vals, tags, values)
  BY <1>2 DEF IsBinds
<1> QED
  BY <1>4, <1>5

\* The error status and the error index.
LEMMA ZeroIs == \E z : IsTlv(EncInt(0), 2, z) /\ Len(z) <= 5
<1>1. 2 \in Byte /\ 0 \in Nat /\ 0 < 65536
  BY DEF Byte
<1>2. Word(0) \in Counter
  <2>1. ASSUME NEW n \in Nat, n < 65536 PROVE Word(n) \in Counter
    <3>1. Word(n) = <<0, n>> /\ <<0, n>> \in Counter
      BY <2>1, SmallWord
    <3> QED
      BY <3>1, Zenon
  <2> QED
    BY <1>1, <2>1
<1>3. PICK z \in Seq(Byte) : IsTlv(EncUnsigned(2, Word(0)), 2, z) /\ Len(z) \in 1 .. 5
  BY <1>1, <1>2, EncUnsignedIs
<1>4. Len(z) <= 5
  <2>1. \A k \in 1 .. 5 : k <= 5
    OBVIOUS
  <2> QED
    BY <1>3, <2>1
<1> QED
  BY <1>3, <1>4 DEF EncInt

\* What the agent has parsed of a request.
Parsed(id) == [version |-> <<1>>, community |-> <<112, 117, 98>>, reqIdBytes |-> id, oids |-> OIDS]

\* The fields of a packet's header are bytes.
LEMMA Header ==
  /\ <<1>> \in Seq(Byte) /\ Len(<<1>>) = 1
  /\ <<112, 117, 98>> \in Seq(Byte) /\ Len(<<112, 117, 98>>) = 3
  /\ <<0>> \in Seq(Byte) /\ Len(<<0>>) = 1
  /\ <<>> \in Seq(Byte) /\ Len(<<>>) = 0
  /\ 2 \in Byte /\ 4 \in Byte /\ 5 \in Byte /\ 48 \in Byte /\ 160 \in Byte /\ 162 \in Byte
<1>1. 1 \in Byte /\ 112 \in Byte /\ 117 \in Byte /\ 98 \in Byte /\ 0 \in Byte
  BY DEF Byte
<1>2. 2 \in Byte /\ 4 \in Byte /\ 5 \in Byte /\ 48 \in Byte /\ 160 \in Byte /\ 162 \in Byte
  BY DEF Byte
<1>3. <<1>> \in Seq(Byte) /\ Len(<<1>>) = 1 /\ <<0>> \in Seq(Byte) /\ Len(<<0>>) = 1
  BY <1>1
<1>4. <<112, 117, 98>> \in Seq(Byte) /\ Len(<<112, 117, 98>>) = 3
  BY <1>1
<1>5. <<>> \in Seq(Byte) /\ Len(<<>>) = 0
  OBVIOUS
<1> QED
  BY <1>2, <1>3, <1>4, <1>5

\* The fields of a packet's header are short.
LEMMA ShortFields ==
  /\ Len(<<1>>) < 256 /\ Len(<<0>>) < 256 /\ Len(<<>>) < 256 /\ Len(<<112, 117, 98>>) < 256
<1>1. \A k \in Nat : k <= 3 => k < 256
  OBVIOUS
<1> QED
  BY <1>1, Header

\* The agent's answer.
LEMMA AnswerIs ==
  ASSUME NEW id \in Seq(Byte), Len(id) <= 4, NEW known, NEW a \in Sample
  PROVE  LET answer == BuildResponse(known, Parsed(id), a) IN
         /\ answer \in Seq(Byte)
         /\ ReadAnswer(answer) =
              [id |-> id, binds |-> [v \in DOMAIN OIDS |-> <<OIDS[v], Meant(known, OIDS[v], a)>>]]
<1> DEFINE list == [v \in 1 .. 10 |-> Tlv(48, EncOID(OIDS[v]) \o OID_VALUES(known, OIDS[v], a))]
           vals == [v \in 1 .. 10 |-> OID_VALUES(known, OIDS[v], a)]
           flat == FlattenSeq(list)
<1>1. PICK tags, values : \A v \in 1 .. 10 :
        StandsFor(OID_VALUES(known, OIDS[v], a), tags[v], values[v], Meant(known, OIDS[v], a))
  BY AnswerElements
<1>2. ASSUME NEW v \in 1 .. 10
      PROVE  /\ IsTlv(vals[v], tags[v], values[v]) /\ Len(values[v]) <= 5
             /\ IsTlv(list[v], 48, EncOID(OIDS[v]) \o vals[v])
  <2>1. IsTlv(vals[v], tags[v], values[v]) /\ Len(values[v]) <= 5
    BY <1>1 DEF StandsFor
  <2> DEFINE c == EncOID(OIDS[v]) \o vals[v]
  <2>2. c \in Seq(Byte) /\ Len(c) <= 20
    <3>1. IsOID(OIDS[v])
      BY OidsAreShort
    <3> HIDE DEF vals
    <3> QED
      BY <2>1, <3>1, BindSize
  <2>3. list[v] = Tlv(48, c)
    OBVIOUS
  <2> HIDE DEF c, list
  <2>4. Len(c) < 256
    <3>1. Len(c) \in Nat
      BY <2>2
    <3> DEFINE k == Len(c)
    <3>2. k \in Nat /\ k <= 20
      BY <2>2, <3>1
    <3> HIDE DEF k
    <3>3. k < 256
      BY <3>2
    <3> QED
      BY <3>3 DEF k
  <2>5. IsTlv(list[v], 48, c)
    BY <2>2, <2>3, <2>4, TlvIs, Header
  <2> QED
    BY <2>1, <2>5 DEF c
<1>3. list = [v \in 1 .. 10 |-> list[v]]
  OBVIOUS
<1>4. IsBinds(list, vals, tags, values) /\ flat \in Seq(Byte) /\ Len(flat) <= 220
  <2> HIDE DEF list, vals
  <2> QED
    BY <1>2, <1>3, ListIs
<1> DEFINE ti == Tlv(2, id)
           tz == EncInt(0)
           tl == Tlv(48, flat)
           pdu == ti \o tz \o tz \o tl
           tp == Tlv(162, pdu)
           tv == Tlv(2, <<1>>)
           tc == Tlv(4, <<112, 117, 98>>)
           answer == BuildResponse(known, Parsed(id), a)
<1>5. answer = Tlv(48, tv \o tc \o tp)
  BY OidsAreShort DEF BuildResponse, Parsed
<1> HIDE DEF flat, list, vals, answer
<1>6. IsTlv(ti, 2, id)
  <2>1. Len(id) < 256
    BY SmallLength
  <2> QED
    BY <2>1, TlvIs, Header
<1>7. PICK z : IsTlv(tz, 2, z) /\ Len(z) <= 5
  BY ZeroIs
<1>8. IsTlv(tl, 48, flat)
  <2>1. Len(flat) < 256
    BY <1>4, SmallLength
  <2> QED
    BY <1>4, <2>1, TlvIs, Header
<1>9. IsTlv(tv, 2, <<1>>) /\ IsTlv(tc, 4, <<112, 117, 98>>)
  <2>1. IsTlv(tv, 2, <<1>>)
    BY Header, ShortFields, TlvIs
  <2>2. IsTlv(tc, 4, <<112, 117, 98>>)
    BY Header, ShortFields, TlvIs
  <2> QED
    BY <2>1, <2>2
<1> HIDE DEF ti, tz, tl, tv, tc
<1>10. /\ pdu \in Seq(Byte) /\ Len(pdu) <= 243
       /\ \A tp1, kind : IsTlv(tp1, kind, pdu)
            => tv \o tc \o tp1 \in Seq(Byte) /\ Len(tv \o tc \o tp1) < 256
  <2>1. /\ pdu \in Seq(Byte) /\ Len(pdu) <= 243
        /\ \A tv1, version, tc1, community, tp1, kind :
              /\ IsTlv(tv1, 2, version) /\ Len(version) = 1
              /\ IsTlv(tc1, 4, community) /\ Len(community) = 3
              /\ IsTlv(tp1, kind, pdu)
              => tv1 \o tc1 \o tp1 \in Seq(Byte) /\ Len(tv1 \o tc1 \o tp1) < 256
    BY <1>4, <1>6, <1>7, <1>8, PacketSize
  <2> HIDE DEF pdu
  <2> QED
    BY <1>9, <2>1, Header
<1>11. IsTlv(tp, 162, pdu)
  <2> HIDE DEF pdu
  <2>1. Len(pdu) < 256
    BY <1>10, SmallLength
  <2> QED
    BY <1>10, <2>1, TlvIs, Header
<1> HIDE DEF tp
<1>12. IsTlv(answer, 48, tv \o tc \o tp)
  <2> DEFINE outer == tv \o tc \o tp
  <2>1. outer \in Seq(Byte) /\ Len(outer) < 256
    BY <1>10, <1>11
  <2>2. answer = Tlv(48, outer)
    BY <1>5
  <2> HIDE DEF outer
  <2>3. IsTlv(answer, 48, outer)
    BY <2>1, <2>2, TlvIs, Header
  <2> QED
    BY <2>3 DEF outer
<1>13. IsPacket(answer, 162, <<1>>, <<112, 117, 98>>, id, list)
  BY <1>6, <1>7, <1>8, <1>9, <1>11, <1>12 DEF IsPacket, flat
<1>14. answer \in Seq(Byte) /\ ReadAnswer(answer) =
         [id |-> id, binds |-> [v \in 1 .. 10 |->
            <<OIDS[v], IF tags[v] = 5 THEN NULL ELSE Number(values[v])>>]]
  BY <1>4, <1>13, PacketRead
<1>15. [v \in 1 .. 10 |-> <<OIDS[v], IF tags[v] = 5 THEN NULL ELSE Number(values[v])>>]
         = [v \in DOMAIN OIDS |-> <<OIDS[v], Meant(known, OIDS[v], a)>>]
  <2>1. \A v \in 1 .. 10 : Meant(known, OIDS[v], a) = IF tags[v] = 5 THEN NULL ELSE Number(values[v])
    BY <1>1 DEF StandsFor
  <2> QED
    BY <2>1, OidsAreShort
<1> QED
  BY <1>14, <1>15 DEF answer

\* The collector's request.
LEMMA RequestIs ==
  ASSUME NEW id \in Seq(Byte), Len(id) <= 4
  PROVE  GetRequest(id) \in Seq(Byte) /\ ParsePacket(GetRequest(id)) = Parsed(id)
<1> DEFINE null == Item(5, <<>>)
           list == [v \in 1 .. 10 |-> Item(48, EncOID(OIDS[v]) \o null)]
           vals == [v \in 1 .. 10 |-> null]
           tags == [v \in 1 .. 10 |-> 5]
           values == [v \in 1 .. 10 |-> <<>>]
           flat == FlattenSeq(list)
<1>1. IsTlv(null, 5, <<>>) /\ Len(<<>>) <= 5
  <2>1. IsTlv(null, 5, <<>>)
    BY Header, ShortFields, ItemIs
  <2> QED
    BY <2>1
<1> HIDE DEF null
<1>2. ASSUME NEW v \in 1 .. 10
      PROVE  /\ IsTlv(vals[v], tags[v], values[v]) /\ Len(values[v]) <= 5
             /\ IsTlv(list[v], 48, EncOID(OIDS[v]) \o vals[v])
  <2> DEFINE c == EncOID(OIDS[v]) \o null
  <2>1. c \in Seq(Byte) /\ Len(c) <= 20
    <3>1. IsOID(OIDS[v])
      BY OidsAreShort
    <3> QED
      BY <1>1, <3>1, BindSize
  <2>2. list[v] = Item(48, c) /\ vals[v] = null /\ tags[v] = 5 /\ values[v] = <<>>
    OBVIOUS
  <2> HIDE DEF c, list, vals, tags, values
  <2>3. Len(c) < 256
    BY <2>1, SmallLength
  <2>4. IsTlv(list[v], 48, c)
    BY <2>1, <2>2, <2>3, ItemIs, Header
  <2> QED
    BY <1>1, <2>2, <2>4 DEF c
<1>3. list = [v \in 1 .. 10 |-> list[v]]
  OBVIOUS
<1>4. IsBinds(list, vals, tags, values) /\ flat \in Seq(Byte) /\ Len(flat) <= 220
  <2> HIDE DEF list, vals, tags, values
  <2> QED
    BY <1>2, <1>3, ListIs
<1> DEFINE ti == Item(2, id)
           tz == Item(2, <<0>>)
           tl == Item(48, flat)
           pdu == ti \o tz \o tz \o tl
           tp == Item(160, pdu)
           tv == Item(2, <<1>>)
           tc == Item(4, <<112, 117, 98>>)
           request == GetRequest(id)
<1>5. request = Item(48, tv \o tc \o tp)
  BY OidsAreShort DEF GetRequest, null
<1> HIDE DEF flat, list, vals, tags, values, request
<1>6. IsTlv(ti, 2, id)
  <2>1. Len(id) < 256
    BY SmallLength
  <2> QED
    BY <2>1, ItemIs, Header
<1>7. PICK z : IsTlv(tz, 2, z) /\ Len(z) <= 5
  <2>1. IsTlv(tz, 2, <<0>>)
    BY Header, ShortFields, ItemIs
  <2>2. Len(<<0>>) <= 5
    OBVIOUS
  <2> QED
    BY <2>1, <2>2
<1>8. IsTlv(tl, 48, flat)
  <2>1. Len(flat) < 256
    BY <1>4, SmallLength
  <2> QED
    BY <1>4, <2>1, ItemIs, Header
<1>9. IsTlv(tv, 2, <<1>>) /\ IsTlv(tc, 4, <<112, 117, 98>>)
  <2>1. IsTlv(tv, 2, <<1>>)
    BY Header, ShortFields, ItemIs
  <2>2. IsTlv(tc, 4, <<112, 117, 98>>)
    BY Header, ShortFields, ItemIs
  <2> QED
    BY <2>1, <2>2
<1> HIDE DEF ti, tz, tl, tv, tc
<1>10. /\ pdu \in Seq(Byte) /\ Len(pdu) <= 243
       /\ \A tp1, kind : IsTlv(tp1, kind, pdu)
            => tv \o tc \o tp1 \in Seq(Byte) /\ Len(tv \o tc \o tp1) < 256
  <2>1. /\ pdu \in Seq(Byte) /\ Len(pdu) <= 243
        /\ \A tv1, version, tc1, community, tp1, kind :
              /\ IsTlv(tv1, 2, version) /\ Len(version) = 1
              /\ IsTlv(tc1, 4, community) /\ Len(community) = 3
              /\ IsTlv(tp1, kind, pdu)
              => tv1 \o tc1 \o tp1 \in Seq(Byte) /\ Len(tv1 \o tc1 \o tp1) < 256
    BY <1>4, <1>6, <1>7, <1>8, PacketSize
  <2> HIDE DEF pdu
  <2> QED
    BY <1>9, <2>1, Header
<1>11. IsTlv(tp, 160, pdu)
  <2> HIDE DEF pdu
  <2>1. Len(pdu) < 256
    BY <1>10, SmallLength
  <2> QED
    BY <1>10, <2>1, ItemIs, Header
<1> HIDE DEF tp
<1>12. IsTlv(request, 48, tv \o tc \o tp)
  <2> DEFINE outer == tv \o tc \o tp
  <2>1. outer \in Seq(Byte) /\ Len(outer) < 256
    BY <1>10, <1>11
  <2>2. request = Item(48, outer)
    BY <1>5
  <2> HIDE DEF outer
  <2>3. IsTlv(request, 48, outer)
    BY <2>1, <2>2, ItemIs, Header
  <2> QED
    BY <2>3 DEF outer
<1>13. IsPacket(request, 160, <<1>>, <<112, 117, 98>>, id, list)
  BY <1>6, <1>7, <1>8, <1>9, <1>11, <1>12 DEF IsPacket, flat
<1>14. request \in Seq(Byte) /\ ParsePacket(request) =
         [version |-> <<1>>, community |-> <<112, 117, 98>>, reqIdBytes |-> id, oids |-> OIDS]
  BY <1>4, <1>13, PacketRead
<1> QED
  BY <1>14 DEF request, Parsed

\* Codec: for every request id, every set of OIDs that a host may know and
\* every state of the agent, the agent reads the request that the collector's
\* library encodes, and the library reads, under the same id and in the same
\* order, the values that the host means.
THEOREM CodecIsExact == CodecExact(Sample)
<1> SUFFICES ASSUME NEW id \in RequestIds, NEW known \in Served
             PROVE  LET parsed == ParsePacket(GetRequest(id)) IN
                    /\ GetRequest(id) \in Seq(Byte)
                    /\ parsed # NotAGet /\ parsed.oids = OIDS
                    /\ \A a \in Sample : LET answer == BuildResponse(known, parsed, a) IN
                         /\ answer \in Seq(Byte)
                         /\ ReadAnswer(answer) =
                              [id    |-> id,
                               binds |-> [v \in DOMAIN OIDS |-> <<OIDS[v], Meant(known, OIDS[v], a)>>]]
  BY DEF CodecExact
<1>1. id \in Seq(Byte) /\ Len(id) <= 4
  BY SnmpAssumption
<1>2. GetRequest(id) \in Seq(Byte) /\ ParsePacket(GetRequest(id)) = Parsed(id)
  BY <1>1, RequestIs
<1>3. Parsed(id).oids = OIDS
  BY DEF Parsed
<1>4. Parsed(id) # NotAGet
  <2>1. Len(Parsed(id).oids) = 10
    BY <1>3, OidsAreShort
  <2>2. Len(NotAGet.oids) = 0
    BY DEF NotAGet
  <2>3. 10 # 0
    OBVIOUS
  <2> QED
    BY <2>1, <2>2, <2>3, Zenon
<1>5. \A a \in Sample : LET answer == BuildResponse(known, Parsed(id), a) IN
        /\ answer \in Seq(Byte)
        /\ ReadAnswer(answer) =
             [id    |-> id,
              binds |-> [v \in DOMAIN OIDS |-> <<OIDS[v], Meant(known, OIDS[v], a)>>]]
  BY <1>1, AnswerIs
<1> QED
  BY <1>2, <1>3, <1>4, <1>5
=============================================================================
