----------------------------- MODULE OnewireProofs -----------------------------
(* Proofs about modules Frame and Onewire, for every value of their constants. *)
EXTENDS Onewire, SequenceTheorems, FiniteSetTheorems, FunctionTheorems, WellFoundedInduction, TLAPS

(* Facts about bytes *)

LEMMA FirstIsMember ==
  ASSUME NEW S \in SUBSET Nat, S # {}
  PROVE  First(S) \in S /\ \A e \in S : First(S) <= e
<1>1. \E x \in S : \A y \in S : ~(<<y, x>> \in OpToRel(<, Nat))
  BY NatLessThanWellFounded, WFMin, Zenon
<1>2. PICK x \in S : \A y \in S : ~(<<y, x>> \in OpToRel(<, Nat)) BY <1>1
<1>3. \A y \in S : x <= y
  <2>1. TAKE y \in S
  <2>2. x \in Nat /\ y \in Nat OBVIOUS
  <2>3. <<y, x>> \in Nat \X Nat BY <2>2
  <2>4. ~(y < x) BY <1>2, <2>3 DEF OpToRel
  <2> QED BY <2>2, <2>4
<1> QED BY <1>2, <1>3 DEF First

LEMMA ByteBounds ==
  ASSUME NEW x \in Byte
  PROVE  x \in Nat /\ x <= 255
BY DEF Byte

LEMMA SmallIsByte ==
  ASSUME NEW n \in Nat, n <= 255
  PROVE  n \in Byte
BY DEF Byte

LEMMA SmallIsUint16 ==
  ASSUME NEW n \in Nat, n <= 65535
  PROVE  n \in Uint16
<1>1. MaxUint16 \in Int /\ n <= MaxUint16 BY DEF MaxUint16
<1>2. \A m \in Int : n <= m => n \in 0..m OBVIOUS
<1> QED BY <1>1, <1>2 DEF Uint16

LEMMA TwoBytes ==
  ASSUME NEW x \in Nat, NEW y \in Nat, x <= 255, y <= 255
  PROVE  256 * x + y \in Nat /\ 256 * x + y <= 65535
OBVIOUS

LEMMA FrameBounds ==
  ASSUME NEW n \in Nat, n >= 6, NEW d \in Nat, NEW l \in Nat, ~(d + 5 + n > l)
  PROVE  d + 5 + n \in Nat /\ d + 11 <= d + 5 + n /\ d + 5 + n <= l
OBVIOUS

\* A candidate's fields are bytes of the buffer, and its checksum lies in it.
LEMMA ArrivedFields ==
  ASSUME NEW b \in Seq(Byte), NEW d \in Arrived(b)
  PROVE  /\ d \in Nat /\ d >= 1 /\ d + 10 <= Len(b)
         /\ PayloadLen(b, d) \in Nat /\ PayloadLen(b, d) >= 6 /\ PayloadLen(b, d) <= 65535
         /\ Cksum(b, d) = d + 5 + PayloadLen(b, d)
         /\ Cksum(b, d) \in Nat /\ d + 11 <= Cksum(b, d) /\ Cksum(b, d) <= Len(b)
         /\ \A i \in 1..Len(b) : b[i] \in Byte
<1>1. d \in Candidates(b) /\ d \notin Truncated(b) BY DEF Arrived
<1>2. d \in 1..(Len(b) - 4 - HeaderBytes) /\ PayloadLen(b, d) >= HeaderBytes
  BY <1>1 DEF Candidates
<1>3. ~(Cksum(b, d) > Len(b)) BY <1>1 DEF Truncated
<1>4. d \in Nat /\ d >= 1 /\ d + 10 <= Len(b) BY <1>2 DEF HeaderBytes
<1>5. \A i \in 1..Len(b) : b[i] \in Byte OBVIOUS
<1>6. d + 1 \in 1..Len(b) /\ d + 2 \in 1..Len(b) BY <1>4
<1>7. /\ b[d + 1] \in Nat /\ b[d + 1] <= 255
      /\ b[d + 2] \in Nat /\ b[d + 2] <= 255
  <2>1. b[d + 1] \in Byte /\ b[d + 2] \in Byte BY <1>5, <1>6
  <2> QED BY <2>1, ByteBounds
<1>8. PayloadLen(b, d) \in Nat /\ PayloadLen(b, d) <= 65535 BY <1>7, TwoBytes DEF PayloadLen
<1>9. Len(b) \in Nat /\ PayloadLen(b, d) >= 6 /\ ~(d + 5 + PayloadLen(b, d) > Len(b))
  BY <1>2, <1>3 DEF Cksum, HeaderBytes
<1>10. /\ d + 5 + PayloadLen(b, d) \in Nat /\ d + 11 <= d + 5 + PayloadLen(b, d)
       /\ d + 5 + PayloadLen(b, d) <= Len(b)
  BY <1>4, <1>8, <1>9, FrameBounds
<1> QED BY <1>4, <1>5, <1>8, <1>9, <1>10 DEF Cksum

LEMMA BitsAreFinite ==
  ASSUME NEW b \in Seq(Byte), NEW d \in Nat, d >= 1, PayloadLen(b, d) \in Nat,
         Cksum(b, d) <= Len(b)
  PROVE  IsFiniteSet(BitsSet(b, d)) /\ Checksum(b, d) \in Byte
<1>1. d + 2 <= Len(b) /\ Cksum(b, d) \in Nat BY DEF Cksum
<1>2. \A i \in (d + 3)..(Cksum(b, d) - 1) : b[i] \in Byte BY <1>1
<1>3. \A n \in Byte : Bits[n] \subseteq 0..7 BY DEF Bits
<1>4. BitsSet(b, d) \subseteq ((d + 3)..(Cksum(b, d) - 1)) \X (0..7)
  BY <1>2, <1>3 DEF BitsSet
<1>5. IsFiniteSet((d + 3)..(Cksum(b, d) - 1)) /\ IsFiniteSet(0..7)
  <2>1. d + 3 \in Int /\ Cksum(b, d) - 1 \in Int /\ 0 \in Int /\ 7 \in Int BY <1>1
  <2> QED BY <2>1, FS_Interval
<1>6. IsFiniteSet(((d + 3)..(Cksum(b, d) - 1)) \X (0..7)) BY <1>5, FS_Product
<1>7. IsFiniteSet(BitsSet(b, d)) BY <1>4, <1>6, FS_Subset
<1>8. Cardinality(BitsSet(b, d)) \in Nat BY <1>7, FS_CardinalityType
<1>9. \A n \in Nat : n % 256 \in 0..255 OBVIOUS
<1> QED BY <1>7, <1>8, <1>9 DEF Checksum, Byte

\* The checksum covers neither itself nor what follows, only where its frame begins.
LEMMA ChecksumIgnoresItself ==
  ASSUME NEW b \in Seq(Byte), NEW d \in Nat, d >= 1, PayloadLen(b, d) \in Nat,
         Cksum(b, d) <= Len(b), NEW x \in Byte
  PROVE  LET c == [b EXCEPT ![Cksum(b, d)] = x]
         IN Cksum(c, d) = Cksum(b, d) /\ Checksum(c, d) = Checksum(b, d)
<1> DEFINE e == Cksum(b, d)
           c == [b EXCEPT ![e] = x]
<1>1. e \in Nat /\ e >= d + 5 /\ e \in 1..Len(b) /\ e = d + 5 + PayloadLen(b, d) BY DEF Cksum
<1> HIDE DEF e
<1>2. \A j \in 1..Len(b) : j # e => c[j] = b[j] BY <1>1
<1>3. c[d + 1] = b[d + 1] /\ c[d + 2] = b[d + 2] BY <1>1, <1>2
<1>4. Cksum(c, d) = e BY <1>1, <1>3 DEF Cksum, PayloadLen
<1>5. \A i \in (d + 3)..(e - 1) : c[i] = b[i] BY <1>1, <1>2
<1> HIDE DEF c
<1>6. BitsSet(c, d) = BitsSet(b, d)
  <2>1. {{i} \X Bits[c[i]] : i \in (d + 3)..(e - 1)} = {{i} \X Bits[b[i]] : i \in (d + 3)..(e - 1)}
    BY <1>5
  <2> QED BY <1>4, <2>1 DEF BitsSet, e
<1> QED BY <1>4, <1>6 DEF Checksum, e, c

\* A frame cut out of a buffer has the checksum it had there.
LEMMA ChecksumMoves ==
  ASSUME NEW b \in Seq(Byte), NEW d \in Nat, d >= 1, PayloadLen(b, d) \in Nat,
         Cksum(b, d) <= Len(b)
  PROVE  LET s == SubSeq(b, d, Cksum(b, d))
         IN /\ s \in Seq(Byte) /\ Len(s) = Cksum(b, d) - d + 1
            /\ \A k \in 1..Len(s) : s[k] = b[d + k - 1]
            /\ PayloadLen(s, 1) = PayloadLen(b, d)
            /\ Cksum(s, 1) = Len(s)
            /\ Checksum(s, 1) = Checksum(b, d)
<1> DEFINE e == Cksum(b, d)
           s == SubSeq(b, d, e)
<1>1. e \in Nat /\ e >= d + 5 /\ e <= Len(b) /\ e = d + 5 + PayloadLen(b, d) BY DEF Cksum
<1> HIDE DEF e
<1>2. \A i \in d..e : b[i] \in Byte BY <1>1
<1>3. s \in Seq(Byte) /\ Len(s) = e - d + 1 /\ \A k \in 1..(e - d + 1) : s[k] = b[d + k - 1]
  BY <1>1, <1>2, SubSeqProperties
<1> HIDE DEF s
<1>4. s[2] = b[d + 1] /\ s[3] = b[d + 2] BY <1>1, <1>3
<1>5. PayloadLen(s, 1) = PayloadLen(b, d) BY <1>4 DEF PayloadLen
<1>6. Cksum(s, 1) = Len(s) BY <1>1, <1>3, <1>5 DEF Cksum
<1>7. Checksum(s, 1) = Checksum(b, d)
  <2> DEFINE S == BitsSet(b, d)
             T == BitsSet(s, 1)
             f == [p \in S |-> <<p[1] - d + 1, p[2]>>]
  <2>1. \A p : p \in S <=> \E i \in (d + 3)..(e - 1) : p \in {i} \X Bits[b[i]]
    BY DEF BitsSet, e
  <2>2. \A p : p \in T <=> \E i \in 4..(e - d) : p \in {i} \X Bits[s[i]]
    BY <1>1, <1>3, <1>6 DEF BitsSet
  <2>3. IsFiniteSet(S) BY BitsAreFinite, <1>1 DEF e
  <2> HIDE DEF S, T
  <2>4. f \in [S -> T]
    <3> SUFFICES ASSUME NEW p \in S PROVE <<p[1] - d + 1, p[2]>> \in T
      OBVIOUS
    <3>1. PICK i \in (d + 3)..(e - 1) : p \in {i} \X Bits[b[i]] BY <2>1
    <3>2. p[1] = i /\ p[2] \in Bits[b[i]] BY <3>1
    <3>3. i - d + 1 \in 4..(e - d) /\ s[i - d + 1] = b[i] BY <1>1, <1>3
    <3> QED BY <2>2, <3>2, <3>3
  <2>5. \A p, q \in S : f[p] = f[q] => p = q
    <3> SUFFICES ASSUME NEW p \in S, NEW q \in S, f[p] = f[q] PROVE p = q
      OBVIOUS
    <3>1. PICK i \in (d + 3)..(e - 1) : p \in {i} \X Bits[b[i]] BY <2>1
    <3>2. PICK j \in (d + 3)..(e - 1) : q \in {j} \X Bits[b[j]] BY <2>1
    <3>3. p = <<i, p[2]>> /\ q = <<j, q[2]>> BY <3>1, <3>2
    <3>4. i - d + 1 = j - d + 1 /\ p[2] = q[2] BY <3>3
    <3>5. i = j BY <1>1, <3>4
    <3> QED BY <3>3, <3>4, <3>5
  <2>6. \A t \in T : \E p \in S : f[p] = t
    <3> SUFFICES ASSUME NEW t \in T PROVE \E p \in S : f[p] = t
      OBVIOUS
    <3>1. PICK i \in 4..(e - d) : t \in {i} \X Bits[s[i]] BY <2>2
    <3>2. t = <<i, t[2]>> /\ t[2] \in Bits[s[i]] BY <3>1
    <3>3. PICK j \in (d + 3)..(e - 1) : j = d + i - 1 BY <1>1
    <3>5. i \in 1..(e - d + 1) /\ j - d + 1 = i BY <1>1, <3>3
    <3>6. s[i] = b[j] BY <1>3, <3>3, <3>5
    <3>7. <<j, t[2]>> \in S BY <2>1, <3>2, <3>6
    <3>8. f[<<j, t[2]>>] = t BY <3>2, <3>5, <3>7
    <3> QED BY <3>7, <3>8
  <2>7. ExistsBijection(S, T) BY <2>4, <2>5, <2>6, Fun_IsBij, Fun_ExistsBij
  <2>8. Cardinality(T) = Cardinality(S) BY <2>3, <2>7, FS_Bijection
  <2> QED BY <2>8 DEF Checksum, S, T
<1> QED BY <1>1, <1>3, <1>5, <1>6, <1>7 DEF e, s

(***************************************************************************)
(* Frames that are built                                                    *)
(***************************************************************************)

LEMMA Concatenated ==
  ASSUME NEW S, NEW h \in Seq(S), NEW t \in Seq(S)
  PROVE  /\ h \o t \in Seq(S) /\ Len(h \o t) = Len(h) + Len(t)
         /\ \A i \in 1..Len(h) : (h \o t)[i] = h[i]
         /\ \A i \in 1..Len(t) : (h \o t)[Len(h) + i] = t[i]
<1>1. \A i \in 1..(Len(h) + Len(t)) :
        (h \o t)[i] = IF i <= Len(h) THEN h[i] ELSE t[i - Len(h)]
  BY ConcatProperties, Zenon
<1>2. \A i \in 1..Len(h) : i \in 1..(Len(h) + Len(t)) /\ i <= Len(h) OBVIOUS
<1>3. h \o t \in Seq(S) /\ Len(h \o t) = Len(h) + Len(t) BY ConcatProperties, Zenon
<1>4. \A i \in 1..Len(t) : /\ Len(h) + i \in 1..(Len(h) + Len(t)) /\ ~(Len(h) + i <= Len(h))
                          /\ Len(h) + i - Len(h) = i
  OBVIOUS
<1> QED BY <1>1, <1>2, <1>3, <1>4

LEMMA Joined ==
  \A u, v \in Seq(Byte) :
    /\ \A i \in 1..Len(u) : (u \o v)[i] = u[i]
    /\ \A i \in 1..Len(v) : (u \o v)[Len(u) + i] = v[i]
<1> SUFFICES ASSUME NEW u \in Seq(Byte), NEW v \in Seq(Byte)
             PROVE  /\ \A i \in 1..Len(u) : (u \o v)[i] = u[i]
                    /\ \A i \in 1..Len(v) : (u \o v)[Len(u) + i] = v[i]
  OBVIOUS
<1> QED BY Concatenated

LEMMA SplitLength ==
  ASSUME NEW n \in Nat, n <= 65535
  PROVE  /\ n \div 256 \in Byte /\ n % 256 \in Byte
         /\ 256 * (n \div 256) + (n % 256) = n
<1>1. n \div 256 \in Nat /\ n % 256 \in Nat /\ n % 256 <= 255 OBVIOUS
<1>2. 256 * (n \div 256) + (n % 256) = n OBVIOUS
<1>3. n \div 256 <= 255 OBVIOUS
<1> QED BY <1>1, <1>2, <1>3 DEF Byte

\* A buffer with every byte of a header in place and its checksum stored is a frame.
LEMMA WholeFrame ==
  ASSUME NEW c \in Seq(Byte), Len(c) >= 12, c[1] = Delimiter, c[4] = SensorHub,
         PayloadLen(c, 1) = Len(c) - 6, c[Len(c)] = Checksum(c, 1), LengthsAgree(c, 1)
  PROVE  1 \in Verified(c) /\ Cksum(c, 1) = Len(c)
<1>1. Len(c) \in Nat OBVIOUS
<1>2. Cksum(c, 1) = Len(c) BY <1>1 DEF Cksum
<1>3. 1 \in 1..(Len(c) - 4 - HeaderBytes) /\ PayloadLen(c, 1) >= HeaderBytes
  BY <1>1 DEF HeaderBytes
<1>4. 1 \in Candidates(c) BY <1>3 DEF Candidates
<1>5. 1 \notin Truncated(c) BY <1>1, <1>2 DEF Truncated
<1>6. 1 \notin Damaged(c) BY <1>2 DEF Damaged
<1> QED BY <1>2, <1>4, <1>5, <1>6 DEF Verified, Arrived

\* Fields a frame can carry, its hub length exact or a byte long.
Carried(flag, dest, source, s, type, hubLen, payloadType, body) ==
  /\ flag \in Byte /\ dest \in Byte /\ source \in Byte /\ s \in Byte
  /\ type \in Byte /\ hubLen \in Byte /\ payloadType \in Byte
  /\ body \in Seq(Byte) /\ Len(body) <= 254
  /\ hubLen = Len(body) \/ hubLen = Len(body) + 1

Carries(c, body) == \A i \in 1..Len(body) : c[11 + i] = body[i]

LEMMA ComposeIsWhole ==
  ASSUME NEW flag, NEW dest, NEW source, NEW s, NEW type, NEW hubLen, NEW payloadType, NEW body,
         Carried(flag, dest, source, s, type, hubLen, payloadType, body)
  PROVE  LET c == Compose(flag, dest, source, s, type, hubLen, payloadType, body)
         IN /\ c \in Seq(Byte) /\ Len(c) = 12 + Len(body)
            /\ 1 \in Verified(c) /\ Cksum(c, 1) = Len(c)
            /\ Flag(c, 1) = flag /\ Dest(c, 1) = dest /\ Source(c, 1) = source
            /\ Sequence(c, 1) = s /\ HubType(c, 1) = type
            /\ Carries(c, body)
<1>0. /\ flag \in Byte /\ dest \in Byte /\ source \in Byte /\ s \in Byte
      /\ type \in Byte /\ hubLen \in Byte /\ payloadType \in Byte
      /\ body \in Seq(Byte) /\ Len(body) <= 254
      /\ hubLen = Len(body) \/ hubLen = Len(body) + 1
  BY DEF Carried
<1> DEFINE m == Len(body)
           n == 6 + m
           h == <<Delimiter, n \div 256, n % 256, SensorHub, flag,
                  dest, source, s, type, hubLen, payloadType>>
           f == h \o body \o <<0>>
           c == [f EXCEPT ![Len(f)] = Checksum(f, 1)]
<1>1. m \in Nat /\ n \in Nat /\ n <= 65535 /\ n = 6 + m BY <1>0
<1>2. c = Compose(flag, dest, source, s, type, hubLen, payloadType, body)
  BY DEF Compose, HeaderBytes
<1>3. 0 \in Byte /\ Delimiter \in Byte /\ SensorHub \in Byte
  BY DEF Byte, Delimiter, SensorHub
<1>4. n \div 256 \in Byte /\ n % 256 \in Byte /\ 256 * (n \div 256) + (n % 256) = n
  BY <1>1, SplitLength
<1> HIDE DEF n
<1>5. h \in Seq(Byte) /\ Len(h) = 11 BY <1>0, <1>3, <1>4
<1>6. h[1] = Delimiter /\ h[2] = n \div 256 /\ h[3] = n % 256 /\ h[4] = SensorHub
  OBVIOUS
<1>7. h[5] = flag /\ h[6] = dest /\ h[7] = source /\ h[8] = s /\ h[9] = type /\ h[10] = hubLen
  OBVIOUS
<1> HIDE DEF h
<1>8. /\ f \in Seq(Byte) /\ Len(f) = 12 + m /\ \A i \in 1..11 : f[i] = h[i]
      /\ \A i \in 1..m : f[11 + i] = body[i]
  <2>1. h \o body \in Seq(Byte) /\ Len(h \o body) = Len(h) + Len(body)
    BY <1>0, <1>5, Concatenated
  <2>2. /\ \A i \in 1..Len(h) : (h \o body)[i] = h[i]
        /\ \A i \in 1..Len(body) : (h \o body)[Len(h) + i] = body[i]
    <3>1. h \in Seq(Byte) /\ body \in Seq(Byte) BY <1>0, <1>5
    <3> QED BY <3>1, Joined, Zenon
  <2>3. <<0>> \in Seq(Byte) /\ Len(<<0>>) = 1 BY <1>3
  <2> DEFINE g == h \o body
             z == <<0>>
  <2> HIDE DEF g, z
  <2>4. g \o z \in Seq(Byte) /\ Len(g \o z) = Len(g) + Len(z)
    BY <2>1, <2>3, Concatenated DEF g, z
  <2>5. \A i \in 1..Len(g) : (g \o z)[i] = g[i]
    BY <2>1, <2>3, Concatenated DEF g, z
  <2>6. Len(g) = 11 + m /\ Len(z) = 1 BY <1>5, <2>1, <2>3 DEF g, z
  <2> HIDE DEF m
  <2>7. \A i \in 1..11 : i \in 1..Len(g) BY <1>1, <2>6
  <2>8. f = g \o z BY DEF g, z
  <2> HIDE DEF f
  <2>9. f \in Seq(Byte) /\ Len(f) = 12 + m BY <1>1, <2>4, <2>6, <2>8
  <2>10. \A i \in 1..11 : f[i] = g[i] BY <2>5, <2>7, <2>8
  <2>11. \A i \in 1..11 : g[i] = h[i] BY <1>5, <2>2 DEF g
  <2>12. \A i \in 1..m : g[11 + i] = body[i] BY <1>5, <2>2 DEF g, m
  <2>13. \A i \in 1..m : 11 + i \in 1..Len(g) BY <1>1, <2>6
  <2>14. \A i \in 1..m : f[11 + i] = g[11 + i] BY <2>5, <2>8, <2>13
  <2> QED BY <2>9, <2>10, <2>11, <2>12, <2>14
<1> HIDE DEF f
<1>9. PayloadLen(f, 1) = n
  <2>1. PayloadLen(f, 1) = 256 * f[2] + f[3] BY DEF PayloadLen
  <2> QED BY <1>4, <1>6, <1>8, <2>1
<1>10. Cksum(f, 1) = Len(f) BY <1>1, <1>8, <1>9 DEF Cksum
<1>11. Checksum(f, 1) \in Byte
  <2>1. f \in Seq(Byte) BY <1>8
  <2>2. PayloadLen(f, 1) \in Nat /\ Cksum(f, 1) <= Len(f) BY <1>1, <1>9, <1>10, <2>1
  <2> QED BY <2>1, <2>2, BitsAreFinite
<1>12. c \in Seq(Byte) /\ Len(c) = 12 + m /\ c[12 + m] = Checksum(f, 1)
  BY <1>1, <1>8, <1>11
<1>13. /\ \A i \in 1..11 : c[i] = h[i]
       /\ \A i \in 1..m : c[11 + i] = body[i]
  BY <1>1, <1>8
<1>14. Checksum(c, 1) = Checksum(f, 1)
  <2>1. c = [f EXCEPT ![Cksum(f, 1)] = Checksum(f, 1)] BY <1>10
  <2>2. f \in Seq(Byte) /\ PayloadLen(f, 1) \in Nat /\ Cksum(f, 1) <= Len(f)
    BY <1>1, <1>8, <1>9, <1>10
  <2>3. 1 \in Nat /\ 1 >= 1 OBVIOUS
  <2>4. Checksum([f EXCEPT ![Cksum(f, 1)] = Checksum(f, 1)], 1) = Checksum(f, 1)
    BY <1>11, <2>2, <2>3, ChecksumIgnoresItself, Zenon
  <2> QED BY <2>1, <2>4
<1> HIDE DEF c
<1>15. PayloadLen(c, 1) = n
  <2>1. PayloadLen(c, 1) = 256 * c[2] + c[3] BY DEF PayloadLen
  <2> QED BY <1>4, <1>6, <1>13, <2>1
<1>16. LengthsAgree(c, 1)
  BY <1>0, <1>1, <1>7, <1>13, <1>15 DEF LengthsAgree, HubLen, HeaderBytes
<1>17. 1 \in Verified(c) /\ Cksum(c, 1) = Len(c)
  <2>1. c[1] = Delimiter /\ c[4] = SensorHub BY <1>6, <1>13
  <2>2. Len(c) >= 12 /\ PayloadLen(c, 1) = Len(c) - 6 BY <1>1, <1>12, <1>15
  <2>3. c[Len(c)] = Checksum(c, 1) BY <1>12, <1>14
  <2> QED BY <1>12, <1>16, <2>1, <2>2, <2>3, WholeFrame
<1> HIDE DEF m
<1>18. Carries(c, body) BY <1>13 DEF Carries, m
<1> QED BY <1>2, <1>7, <1>12, <1>13, <1>17, <1>18 DEF Flag, Dest, Source, Sequence, HubType, m

LEMMA Overwritten ==
  ASSUME NEW S, NEW b \in Seq(S), NEW i \in 1..Len(b), NEW x \in S
  PROVE  LET c == [b EXCEPT ![i] = x]
         IN /\ c \in Seq(S) /\ Len(c) = Len(b)
            /\ c[i] = x /\ \A j \in 1..Len(b) : j # i => c[j] = b[j]
BY ExceptSeq

\* The answer to an announcement is that announcement with five of its bytes changed, and
\* it is a frame again.
LEMMA ReplyIsWhole ==
  ASSUME ProvIdOffset \in Nat, NEW b \in Seq(Byte), NEW d \in Answerable(b)
  PROVE  LET r == SubSeq(Reply(b, d, ProvId(d)), d, Cksum(b, d))
         IN /\ r \in Seq(Byte) /\ Len(r) = Cksum(b, d) - d + 1 /\ Len(r) >= 12
            /\ 1 \in Verified(r) /\ Cksum(r, 1) = Len(r)
            /\ Flag(r, 1) = Rsp /\ Dest(r, 1) = Source(b, d) /\ Source(r, 1) = Master
            /\ ProvId(1) < Len(r) /\ r[ProvId(1)] = ProbeId
            /\ \A k \in 1..Len(r) \ {5, 6, 7, ProvId(1), Len(r)} : r[k] = b[d + k - 1]
<1> DEFINE e == Cksum(b, d)
           p == ProvId(d)
           q == [b EXCEPT ![d + 4] = Rsp, ![d + 5] = Source(b, d), ![d + 6] = Master,
                          ![p] = ProbeId]
           w == [q EXCEPT ![e] = Checksum(q, d)]
           r == SubSeq(w, d, e)
<1>1. /\ d \in Arrived(b) /\ d \notin Damaged(b) /\ LengthsAgree(b, d)
      /\ p < e
  BY DEF Answerable, Verified
<1>2. /\ d \in Nat /\ d >= 1 /\ d + 11 <= e /\ e \in Nat /\ e <= Len(b)
      /\ e = d + 5 + PayloadLen(b, d) /\ PayloadLen(b, d) \in Nat
  BY <1>1, ArrivedFields
<1>3. b[d] = Delimiter /\ b[d + 3] = SensorHub BY <1>1 DEF Arrived, Candidates
<1>4. p = d + 11 + ProvIdOffset /\ p \in Nat BY <1>2 DEF ProvId, Body, HeaderBytes
<1>5. Len(b) \in Nat /\ \A i \in 1..Len(b) : b[i] \in Byte OBVIOUS
<1>6. Rsp \in Byte /\ Master \in Byte /\ ProbeId \in Byte BY DEF Rsp, Master, ProbeId, Byte
<1>7. Reply(b, d, p) = w BY DEF Reply
<1> HIDE DEF e, p
<1>8. Source(b, d) = b[d + 6] /\ Source(b, d) \in Byte BY <1>2, <1>5 DEF Source
<1>9. /\ d + 4 \in 1..Len(b) /\ d + 5 \in 1..Len(b) /\ d + 6 \in 1..Len(b)
      /\ p \in 1..Len(b) /\ p # d + 4 /\ p # d + 5 /\ p # d + 6
  BY <1>1, <1>2, <1>4, <1>5
<1>10. /\ q \in Seq(Byte) /\ Len(q) = Len(b)
       /\ \A i \in 1..Len(b) : i \notin {d + 4, d + 5, d + 6, p} => q[i] = b[i]
       /\ q[d + 4] = Rsp /\ q[d + 5] = b[d + 6] /\ q[d + 6] = Master /\ q[p] = ProbeId
  <2> DEFINE b1 == [b EXCEPT ![d + 4] = Rsp]
             b2 == [b1 EXCEPT ![d + 5] = Source(b, d)]
             b3 == [b2 EXCEPT ![d + 6] = Master]
             b4 == [b3 EXCEPT ![p] = ProbeId]
  <2>1. q = b4 OBVIOUS
  <2>2. /\ b1 \in Seq(Byte) /\ Len(b1) = Len(b) /\ b1[d + 4] = Rsp
        /\ \A i \in 1..Len(b) : i # d + 4 => b1[i] = b[i]
    BY <1>6, <1>9, Overwritten
  <2> HIDE DEF b1, q
  <2>3. /\ b2 \in Seq(Byte) /\ Len(b2) = Len(b) /\ b2[d + 5] = Source(b, d)
        /\ \A i \in 1..Len(b) : i # d + 5 => b2[i] = b1[i]
    BY <1>8, <1>9, <2>2, Overwritten
  <2> HIDE DEF b2
  <2>4. /\ b3 \in Seq(Byte) /\ Len(b3) = Len(b) /\ b3[d + 6] = Master
        /\ \A i \in 1..Len(b) : i # d + 6 => b3[i] = b2[i]
    BY <1>6, <1>9, <2>3, Overwritten
  <2> HIDE DEF b3
  <2>5. /\ b4 \in Seq(Byte) /\ Len(b4) = Len(b) /\ b4[p] = ProbeId
        /\ \A i \in 1..Len(b) : i # p => b4[i] = b3[i]
    BY <1>6, <1>9, <2>4, Overwritten
  <2> HIDE DEF b4
  <2>6. \A i \in 1..Len(b) : i \notin {d + 4, d + 5, d + 6, p} => b4[i] = b[i]
    BY <2>2, <2>3, <2>4, <2>5
  <2>7. d + 4 # d + 5 /\ d + 4 # d + 6 /\ d + 5 # d + 6 BY <1>2
  <2>8. b4[d + 4] = Rsp BY <1>9, <2>2, <2>3, <2>4, <2>5, <2>7
  <2>9. b4[d + 5] = b[d + 6] BY <1>8, <1>9, <2>3, <2>4, <2>5, <2>7
  <2>10. b4[d + 6] = Master BY <1>9, <2>4, <2>5
  <2> QED BY <2>1, <2>5, <2>6, <2>8, <2>9, <2>10
<1> HIDE DEF q
<1>11. q[d + 1] = b[d + 1] /\ q[d + 2] = b[d + 2]
  <2>1. /\ d + 1 \in 1..Len(b) /\ d + 2 \in 1..Len(b)
        /\ d + 1 \notin {d + 4, d + 5, d + 6, p} /\ d + 2 \notin {d + 4, d + 5, d + 6, p}
    BY <1>2, <1>4, <1>5
  <2> QED BY <1>10, <2>1
<1>12. PayloadLen(q, d) = PayloadLen(b, d) /\ Cksum(q, d) = e
  BY <1>2, <1>11 DEF PayloadLen, Cksum
<1>13. Checksum(q, d) \in Byte BY <1>2, <1>10, <1>12, BitsAreFinite
<1>14. w \in Seq(Byte) /\ Len(w) = Len(b)
  <2>1. e \in 1..Len(q) BY <1>2, <1>5, <1>10
  <2> QED BY <1>10, <1>13, <2>1, Overwritten
<1>15. w[e] = Checksum(q, d) /\ \A i \in 1..Len(b) : i # e => w[i] = q[i] BY <1>2, <1>10
<1>16. Cksum(w, d) = e /\ Checksum(w, d) = Checksum(q, d)
  <2>1. w = [q EXCEPT ![Cksum(q, d)] = Checksum(q, d)] BY <1>12
  <2>2. q \in Seq(Byte) /\ PayloadLen(q, d) \in Nat /\ Cksum(q, d) <= Len(q)
    BY <1>2, <1>10, <1>12
  <2> DEFINE v == [q EXCEPT ![Cksum(q, d)] = Checksum(q, d)]
  <2>3. Cksum(v, d) = Cksum(q, d) /\ Checksum(v, d) = Checksum(q, d)
    BY <1>2, <1>13, <2>2, ChecksumIgnoresItself, Zenon
  <2> QED BY <1>12, <2>1, <2>3
<1>17. PayloadLen(w, d) = PayloadLen(b, d)
  <2>1. w[d + 1] = q[d + 1] /\ w[d + 2] = q[d + 2] BY <1>2, <1>5, <1>15
  <2> QED BY <1>12, <2>1 DEF PayloadLen
<1> HIDE DEF w
<1>18. /\ r \in Seq(Byte) /\ Len(r) = e - d + 1
       /\ \A k \in 1..Len(r) : r[k] = w[d + k - 1]
       /\ PayloadLen(r, 1) = PayloadLen(b, d) /\ Cksum(r, 1) = Len(r)
       /\ Checksum(r, 1) = Checksum(w, d)
  <2>1. PayloadLen(w, d) \in Nat /\ Cksum(w, d) <= Len(w) BY <1>2, <1>14, <1>16, <1>17
  <2> DEFINE t == SubSeq(w, d, Cksum(w, d))
  <2>2. /\ t \in Seq(Byte) /\ Len(t) = Cksum(w, d) - d + 1
        /\ \A k \in 1..Len(t) : t[k] = w[d + k - 1]
        /\ PayloadLen(t, 1) = PayloadLen(w, d) /\ Cksum(t, 1) = Len(t)
        /\ Checksum(t, 1) = Checksum(w, d)
    BY <1>2, <1>14, <2>1, ChecksumMoves, Zenon
  <2>3. t = r BY <1>16
  <2> HIDE DEF t, r
  <2> QED BY <1>16, <1>17, <2>2, <2>3
<1> HIDE DEF r
<1>19. \A k \in 1..Len(r) : k # Len(r) => r[k] = q[d + k - 1]
  <2>1. SUFFICES ASSUME NEW k \in 1..Len(r), k # Len(r) PROVE r[k] = q[d + k - 1]
    OBVIOUS
  <2>2. d + k - 1 \in 1..Len(b) /\ d + k - 1 # e BY <1>2, <1>5, <1>18, <2>1
  <2> QED BY <1>15, <1>18, <2>2
<1>20. Len(r) >= 12 /\ Len(r) \in Nat BY <1>2, <1>18
<1>21. r[1] = Delimiter /\ r[4] = SensorHub /\ r[10] = b[d + 9]
  <2>1. r[1] = q[d] /\ r[4] = q[d + 3] /\ r[10] = q[d + 9] BY <1>2, <1>19, <1>20
  <2>2. q[d] = b[d] /\ q[d + 3] = b[d + 3] /\ q[d + 9] = b[d + 9]
    <3>1. \A i \in {d, d + 3, d + 9} : i \in 1..Len(b) /\ i \notin {d + 4, d + 5, d + 6, p}
      BY <1>2, <1>4, <1>5
    <3> QED BY <1>10, <3>1
  <2> QED BY <1>3, <2>1, <2>2
<1>22. LengthsAgree(r, 1)
  BY <1>1, <1>18, <1>21 DEF LengthsAgree, HubLen
<1>23. r[Len(r)] = Checksum(r, 1)
  <2>1. r[Len(r)] = w[e] BY <1>2, <1>18, <1>20
  <2> QED BY <1>15, <1>16, <1>18, <2>1
<1>24. 1 \in Verified(r)
  <2>1. PayloadLen(r, 1) = Len(r) - 6 BY <1>2, <1>18
  <2> QED BY <1>18, <1>20, <1>21, <1>22, <1>23, <2>1, WholeFrame
<1>25. Flag(r, 1) = Rsp /\ Dest(r, 1) = Source(b, d) /\ Source(r, 1) = Master
  <2>1. r[5] = q[d + 4] /\ r[6] = q[d + 5] /\ r[7] = q[d + 6] BY <1>2, <1>19, <1>20
  <2> QED BY <1>8, <1>10, <2>1 DEF Flag, Dest, Source
<1>26. ProvId(1) = p - d + 1 /\ ProvId(1) \in Nat BY <1>2, <1>4 DEF ProvId, Body, HeaderBytes
<1>27. ProvId(1) < Len(r) /\ r[ProvId(1)] = ProbeId
  <2>1. p < e BY <1>1
  <2>2. ProvId(1) < Len(r) BY <1>2, <1>4, <1>18, <1>26, <2>1
  <2>3. ProvId(1) >= 1 /\ d + ProvId(1) - 1 = p BY <1>2, <1>4, <1>26
  <2>4. ProvId(1) \in 1..Len(r) /\ ProvId(1) # Len(r) BY <1>20, <1>26, <2>2, <2>3
  <2> QED BY <1>10, <1>19, <2>2, <2>3, <2>4
<1>28. \A k \in 1..Len(r) \ {5, 6, 7, ProvId(1), Len(r)} : r[k] = b[d + k - 1]
  <2> SUFFICES ASSUME NEW k \in 1..Len(r), k \notin {5, 6, 7, ProvId(1), Len(r)}
               PROVE  r[k] = b[d + k - 1]
    OBVIOUS
  <2>1. r[k] = q[d + k - 1] BY <1>19
  <2>2. d + k - 1 \in 1..Len(b) /\ d + k - 1 \notin {d + 4, d + 5, d + 6, p}
    BY <1>2, <1>5, <1>18, <1>20, <1>26
  <2> QED BY <1>10, <2>1, <2>2
<1> QED BY <1>7, <1>18, <1>20, <1>24, <1>25, <1>27, <1>28 DEF e, p, r

(***************************************************************************)
(* What is received and what the pack says                                  *)
(***************************************************************************)

LEMMA Pieces ==
  ASSUME NEW b \in Seq(Byte), NEW n \in Nat, n <= Len(b)
  PROVE  /\ SubSeq(b, n + 1, Len(b)) \in Seq(Byte)
         /\ SubSeq(b, 1, n) \in Seq(Byte) /\ Len(SubSeq(b, 1, n)) = n
<1>1. Len(b) \in Nat /\ \A i \in 1..Len(b) : b[i] \in Byte OBVIOUS
<1>2. SubSeq(b, n + 1, Len(b)) \in Seq(Byte)
  <2>1. \A i \in (n + 1)..Len(b) : b[i] \in Byte BY <1>1
  <2>2. n + 1 \in 1..(Len(b) + 1) BY <1>1
  <2> QED BY <2>1, <2>2, <1>1, SubSeqProperties
<1>3. SubSeq(b, 1, n) \in Seq(Byte) /\ Len(SubSeq(b, 1, n)) = n
  <2>1. \A i \in 1..n : b[i] \in Byte BY <1>1
  <2> QED BY <2>1, <1>1, SubSeqProperties
<1> QED BY <1>2, <1>3

LEMMA HeardIsThere ==
  ASSUME line \in Seq(Byte), Breaks \subseteq Nat, RxCapacity \in Nat, NEW h \in Heard
  PROVE  /\ h \in Nat /\ h <= Len(line)
         /\ Capped(h) \in Nat /\ Capped(h) <= Len(line)
<1>1. Len(line) \in Nat OBVIOUS
<1>2. h \in Nat /\ h <= Len(line) BY <1>1 DEF Heard
<1> QED BY <1>1, <1>2 DEF Capped

LEMMA StopIsThere ==
  ASSUME NEW n \in Nat
  PROVE  Stop(n) \in Nat /\ Stop(n) <= n
<1>1. Complete(n) \in SUBSET Nat /\ \A k \in Complete(n) : k <= n
  BY DEF Complete, MinFrame, HeaderBytes
<1>2. Complete(n) # {} => First(Complete(n)) \in Complete(n) BY <1>1, FirstIsMember
<1> QED BY <1>1, <1>2 DEF Stop

LEMMA FlushTyped ==
  ASSUME line \in Seq(Byte), Breaks \subseteq Nat, RxCapacity \in Nat, Flush
  PROVE  line' \in Seq(Byte)
<1>1. PICK n \in Heard : line' = SubSeq(line, n + 1, Len(line)) BY DEF Flush
<1>2. n \in Nat /\ n <= Len(line) BY HeardIsThere
<1> QED BY <1>1, <1>2, Pieces

LEMMA RequestIsWhole ==
  ASSUME NEW dest \in Byte, NEW s \in Byte, NEW type \in Byte, NEW payloadType \in Byte
  PROVE  LET c == Request(dest, s, type, payloadType)
         IN /\ c \in Seq(Byte) /\ Len(c) = MinFrame
            /\ 1 \in Verified(c) /\ Cksum(c, 1) = Len(c)
            /\ Flag(c, 1) # Rsp /\ Source(c, 1) = Master
            /\ Dest(c, 1) = dest /\ Sequence(c, 1) = s
<1> DEFINE none == <<>>
           zero == 0
<1>1. Req \in Byte /\ Master \in Byte /\ zero \in Byte BY DEF Req, Master, Byte
<1>2. none \in Seq(Byte) /\ Len(none) = 0 /\ zero = Len(none) OBVIOUS
<1>3. Carried(Req, dest, Master, s, type, zero, payloadType, none)
  BY <1>1, <1>2 DEF Carried
<1> DEFINE c == Compose(Req, dest, Master, s, type, zero, payloadType, none)
<1>4. c = Request(dest, s, type, payloadType) BY DEF Request
<1> HIDE DEF none, zero
<1>5. /\ c \in Seq(Byte) /\ Len(c) = 12 + Len(none)
      /\ 1 \in Verified(c) /\ Cksum(c, 1) = Len(c)
      /\ Flag(c, 1) = Req /\ Dest(c, 1) = dest /\ Source(c, 1) = Master /\ Sequence(c, 1) = s
  BY <1>3, ComposeIsWhole
<1> HIDE DEF c
<1>6. Len(c) = MinFrame BY <1>2, <1>5 DEF MinFrame, HeaderBytes
<1>7. Req # Rsp BY DEF Req, Rsp
<1> QED BY <1>4, <1>5, <1>6, <1>7

LEMMA PackFrameIsWhole ==
  ASSUME NEW flag \in Byte, NEW source \in Byte, NEW s \in Byte, NEW type \in Byte,
         NEW payloadType \in Byte, NEW body \in Seq(Byte), Len(body) <= 254
  PROVE  LET c == PackFrame(flag, source, s, type, payloadType, body)
         IN /\ c \in Seq(Byte) /\ Len(c) = 12 + Len(body)
            /\ Flag(c, 1) = flag /\ Source(c, 1) = source /\ Sequence(c, 1) = s
            /\ HubType(c, 1) = type
            /\ Carries(c, body)
<1>1. Master \in Byte BY DEF Master, Byte
<1>2. Len(body) + 1 \in Byte
  <2>1. PICK n \in Nat : n = Len(body) + 1 OBVIOUS
  <2>2. n <= 255 BY <2>1
  <2> QED BY <2>1, <2>2, SmallIsByte
<1> DEFINE hubLen == Len(body) + 1
<1>3. hubLen \in Byte /\ (hubLen = Len(body) \/ hubLen = Len(body) + 1) BY <1>2
<1>4. Carried(flag, Master, source, s, type, hubLen, payloadType, body)
  BY <1>1, <1>3 DEF Carried
<1> HIDE DEF hubLen
<1> DEFINE c == Compose(flag, Master, source, s, type, hubLen, payloadType, body)
<1>5. /\ c \in Seq(Byte) /\ Len(c) = 12 + Len(body)
      /\ Flag(c, 1) = flag /\ Source(c, 1) = source /\ Sequence(c, 1) = s
      /\ HubType(c, 1) = type
      /\ Carries(c, body)
  BY <1>4, ComposeIsWhole
<1>6. c = PackFrame(flag, source, s, type, payloadType, body) BY DEF PackFrame, hubLen
<1> HIDE DEF c
<1> QED BY <1>5, <1>6

LEMMA TalkTyped ==
  ASSUME line \in Seq(Byte), Cuts \subseteq Nat, NEW f \in Seq(Byte), Talk(f)
  PROVE  line' \in Seq(Byte)
<1>1. PICK m \in {f} \cup {SubSeq(f, 1, k) : k \in Cuts \cap 1..Len(f)} : line' = line \o m
  BY DEF Talk
<1>2. m \in Seq(Byte)
  <2>1. CASE m = f BY <2>1
  <2>2. ASSUME NEW k \in Cuts \cap 1..Len(f), m = SubSeq(f, 1, k) PROVE m \in Seq(Byte)
    <3>1. k \in Nat /\ k <= Len(f) BY <2>2
    <3> QED BY <2>2, <3>1, Pieces
  <2> QED BY <1>1, <2>1, <2>2
<1> QED BY <1>1, <1>2, Concatenated

(***************************************************************************)
(* The bytes of a report                                                    *)
(***************************************************************************)

\* Induction over 0..n, with a set in place of a predicate.
LEMMA UpTo ==
  ASSUME NEW n \in Nat, NEW S \in SUBSET (0..n), 0 \in S,
         \A k \in 1..n : k - 1 \in S => k \in S
  PROVE  \A k \in 0..n : k \in S
<1> SUFFICES ASSUME \E k \in 0..n : k \notin S PROVE FALSE OBVIOUS
<1> DEFINE T == (0..n) \ S
<1>1. T \in SUBSET Nat /\ T # {} OBVIOUS
<1>2. First(T) \in T /\ \A e \in T : First(T) <= e BY <1>1, FirstIsMember
<1>3. PICK m \in T : \A e \in T : m <= e BY <1>2
<1>4. m \in 1..n /\ m - 1 \in 0..n /\ ~(m <= m - 1) BY <1>3
<1>5. m - 1 \in S BY <1>3, <1>4
<1> QED BY <1>3, <1>4, <1>5

\* The concatenation of the first k of q, for each k.
Joins(q, n, g) ==
  /\ g \in [0..n -> Seq(Byte)]
  /\ g[0] = <<>>
  /\ \A k \in 1..n : g[k] = g[k - 1] \o q[k]

LEMMA JoinsExist ==
  ASSUME NEW n \in Nat, NEW q \in [1..n -> Seq(Byte)]
  PROVE  \E g : Joins(q, n, g)
<1> DEFINE S == {k \in 0..n : \E g : Joins(q, k, g)}
<1>1. 0 \in S
  <2> DEFINE none == <<>>
  <2>1. none \in Seq(Byte) OBVIOUS
  <2> DEFINE g == [k \in 0..0 |-> none]
  <2>2. g \in [0..0 -> Seq(Byte)] /\ g[0] = none BY <2>1
  <2> HIDE DEF g
  <2>3. Joins(q, 0, g) BY <2>2 DEF Joins
  <2> QED BY <2>3
<1>2. ASSUME NEW k \in 1..n, k - 1 \in S PROVE k \in S
  <2>1. PICK g : Joins(q, k - 1, g) BY <1>2
  <2>2. /\ g \in [0..(k - 1) -> Seq(Byte)] /\ g[0] = <<>>
        /\ \A j \in 1..(k - 1) : g[j] = g[j - 1] \o q[j]
    BY <2>1 DEF Joins
  <2>3. g[k - 1] \in Seq(Byte) /\ q[k] \in Seq(Byte) BY <2>2
  <2> DEFINE last == g[k - 1] \o q[k]
             h == [j \in 0..k |-> IF j < k THEN g[j] ELSE last]
  <2>4. last \in Seq(Byte) BY <2>3, Concatenated
  <2> HIDE DEF last
  <2>5. \A j \in 0..k : j < k => j \in 0..(k - 1) OBVIOUS
  <2>6. h \in [0..k -> Seq(Byte)] BY <2>2, <2>4, <2>5
  <2>7. h[0] = <<>> BY <2>2
  <2>8. \A j \in 1..(k - 1) : h[j] = g[j] /\ h[j - 1] = g[j - 1] OBVIOUS
  <2>9. h[k] = last /\ h[k - 1] = g[k - 1] OBVIOUS
  <2> HIDE DEF h
  <2>10. ASSUME NEW j \in 1..k PROVE h[j] = h[j - 1] \o q[j]
    <3>1. CASE j = k BY <2>9, <3>1 DEF last
    <3>2. CASE j # k
      <4>1. j \in 1..(k - 1) BY <3>2
      <4> QED BY <2>2, <2>8, <4>1
    <3> QED BY <3>1, <3>2
  <2>11. Joins(q, k, h) BY <2>6, <2>7, <2>10 DEF Joins
  <2> QED BY <2>11
<1>3. S \in SUBSET (0..n) /\ n \in 0..n OBVIOUS
<1> HIDE DEF S
<1>4. n \in S BY <1>1, <1>2, <1>3, UpTo
<1> QED BY <1>4 DEF S

\* FlattenSeq is the last of them.
LEMMA FlattenIsJoin ==
  ASSUME NEW n \in Nat, NEW q \in [1..n -> Seq(Byte)], NEW g, Joins(q, n, g)
  PROVE  FlattenSeq(q) = g[n]
<1>1. Len(q) = n /\ q \in Seq(Seq(Byte)) OBVIOUS
<1>2. /\ g \in [0..n -> Seq(Byte)] /\ g[0] = <<>>
      /\ \A k \in 1..n : g[k] = g[k - 1] \o q[k]
  BY DEF Joins
<1>3. CASE n = 0
  <2>1. q = <<>> BY <1>1, <1>3
  <2> QED BY <1>1, <1>2, <1>3, <2>1 DEF FlattenSeq
<1>4. CASE n # 0
  <2> DEFINE Step(f) == [i \in 1..n |-> IF i = 1 THEN q[i] ELSE f[i - 1] \o q[i]]
             flatten == CHOOSE f : f = Step(f)
             e == [i \in 1..n |-> g[i]]
  <2>1. FlattenSeq(q) = flatten[n] BY <1>1, <1>4 DEF FlattenSeq
  <2>2. g[1] = q[1]
    <3>1. 1 \in 1..n /\ q[1] \in Seq(Byte) BY <1>4
    <3>2. \A s \in Seq(Byte) : <<>> \o s = s OBVIOUS
    <3>3. g[1] = g[1 - 1] \o q[1] BY <1>2, <3>1
    <3>4. 1 - 1 = 0 OBVIOUS
    <3>5. g[1] = <<>> \o q[1] BY <1>2, <3>3, <3>4, Zenon
    <3> QED BY <3>1, <3>2, <3>5
  <2>3. ASSUME NEW i \in 1..n PROVE e[i] = IF i = 1 THEN q[i] ELSE e[i - 1] \o q[i]
    <3>1. CASE i = 1 BY <2>2, <3>1
    <3>2. CASE i # 1
      <4>1. i - 1 \in 1..n BY <3>2
      <4> QED BY <1>2, <3>2, <4>1
    <3> QED BY <3>1, <3>2
  <2>4. e = Step(e) BY <2>3
  <2>5. flatten = Step(flatten)
    <3> HIDE DEF e, Step
    <3> QED BY <2>4
  <2> HIDE DEF flatten
  <2>6. \A i \in 1..n : flatten[i] = IF i = 1 THEN q[i] ELSE flatten[i - 1] \o q[i]
    BY <2>5
  <2> HIDE DEF Step, e
  <2> DEFINE S == {k \in 0..n : k = 0 \/ flatten[k] = g[k]}
  <2>7. 0 \in S /\ S \in SUBSET (0..n) /\ n \in 0..n OBVIOUS
  <2>8. ASSUME NEW k \in 1..n, k - 1 \in S PROVE k \in S
    <3>1. CASE k = 1 BY <2>2, <2>6, <3>1
    <3>2. CASE k # 1
      <4>1. flatten[k - 1] = g[k - 1] BY <2>8, <3>2
      <4>2. flatten[k] = flatten[k - 1] \o q[k] BY <2>6, <3>2
      <4>3. g[k] = g[k - 1] \o q[k] BY <1>2
      <4>4. flatten[k] = g[k] BY <4>1, <4>2, <4>3, Zenon
      <4> QED BY <4>4
    <3> QED BY <3>1, <3>2
  <2> HIDE DEF S
  <2>9. n \in S BY <2>7, <2>8, UpTo
  <2>10. flatten[n] = g[n] BY <1>4, <2>9 DEF S
  <2> QED BY <2>1, <2>10
<1> QED BY <1>3, <1>4

\* Where the k-th of q lies in the concatenation w: behind its first p[k - 1] places.
Layout(q, n, p, w) ==
  /\ p \in [0..n -> Nat] /\ p[0] = 0
  /\ \A k \in 1..n : p[k] = p[k - 1] + Len(q[k])
  /\ w \in Seq(Byte) /\ Len(w) = p[n]
  /\ \A k \in 0..n : p[k] <= p[n]
  /\ \A k \in 1..n : \A i \in 1..Len(q[k]) : w[p[k - 1] + i] = q[k][i]

LEMMA FlattenHasLayout ==
  ASSUME NEW n \in Nat, NEW q \in [1..n -> Seq(Byte)]
  PROVE  \E p : Layout(q, n, p, FlattenSeq(q))
<1>1. PICK g : Joins(q, n, g) BY JoinsExist
<1>2. /\ g \in [0..n -> Seq(Byte)] /\ g[0] = <<>>
      /\ \A k \in 1..n : g[k] = g[k - 1] \o q[k]
  BY <1>1 DEF Joins
<1>3. FlattenSeq(q) = g[n] BY <1>1, FlattenIsJoin
<1> DEFINE p == [k \in 0..n |-> Len(g[k])]
<1>4. p \in [0..n -> Nat] /\ \A k \in 0..n : p[k] = Len(g[k]) BY <1>2
<1>5. p[0] = 0
  <2>1. Len(<<>>) = 0 OBVIOUS
  <2> QED BY <1>2, <1>4, <2>1
<1> HIDE DEF p
<1>6. ASSUME NEW k \in 1..n
      PROVE  /\ k - 1 \in 0..n /\ k \in 0..n
             /\ p[k] = p[k - 1] + Len(q[k])
             /\ \A i \in 1..p[k - 1] : g[k][i] = g[k - 1][i]
             /\ \A i \in 1..Len(q[k]) : g[k][p[k - 1] + i] = q[k][i]
  <2>1. k - 1 \in 0..n /\ k \in 0..n OBVIOUS
  <2>2. g[k - 1] \in Seq(Byte) /\ q[k] \in Seq(Byte) BY <1>2, <2>1
  <2> DEFINE u == g[k - 1]
             v == q[k]
  <2>3. g[k] = u \o v BY <1>2
  <2>4. u \in Seq(Byte) /\ v \in Seq(Byte) BY <2>2
  <2>5. p[k - 1] = Len(u) /\ p[k] = Len(u \o v) BY <1>4, <2>1, <2>3
  <2> HIDE DEF u, v
  <2>6. Len(u \o v) = Len(u) + Len(v) BY <2>4, Concatenated
  <2>7. /\ \A i \in 1..Len(u) : (u \o v)[i] = u[i]
        /\ \A i \in 1..Len(v) : (u \o v)[Len(u) + i] = v[i]
    BY <2>4, Joined
  <2> QED BY <2>1, <2>3, <2>5, <2>6, <2>7 DEF u, v
<1>7. ASSUME NEW k \in 0..n
      PROVE  p[k] <= p[n] /\ \A i \in 1..p[k] : g[n][i] = g[k][i]
  <2> DEFINE S == {j \in 0..n : n - j < k \/ (p[n - j] <= p[n] /\ \A i \in 1..p[n - j] : g[n][i] = g[n - j][i])}
  <2>1. 0 \in S /\ S \in SUBSET (0..n) BY <1>4
  <2>2. ASSUME NEW j \in 1..n, j - 1 \in S PROVE j \in S
    <3> DEFINE m == n - (j - 1)
    <3>1. m \in 1..n /\ n - j = m - 1 /\ n - (j - 1) = m OBVIOUS
    <3> HIDE DEF m
    <3>2. CASE m <= k BY <3>1, <3>2
    <3>3. CASE ~(m <= k)
      <4>1. p[m] <= p[n] /\ \A i \in 1..p[m] : g[n][i] = g[m][i] BY <2>2, <3>1, <3>3
      <4>2. /\ p[m] = p[m - 1] + Len(q[m]) /\ m - 1 \in 0..n /\ m \in 0..n
            /\ \A i \in 1..p[m - 1] : g[m][i] = g[m - 1][i]
        BY <1>6, <3>1
      <4>3. p[m - 1] \in Nat /\ p[m] \in Nat /\ p[n] \in Nat /\ Len(q[m]) \in Nat
        BY <1>4, <3>1, <4>2
      <4>4. p[m - 1] <= p[n] BY <4>1, <4>2, <4>3
      <4>5. \A i \in 1..p[m - 1] : i \in 1..p[m] BY <4>2, <4>3
      <4>6. \A i \in 1..p[m - 1] : g[n][i] = g[m - 1][i] BY <4>1, <4>2, <4>5
      <4> QED BY <3>1, <4>4, <4>6
    <3> QED BY <3>2, <3>3
  <2>3. n - k \in 0..n /\ n - (n - k) = k OBVIOUS
  <2> HIDE DEF S
  <2>4. n - k \in S BY <2>1, <2>2, <2>3, UpTo
  <2> QED BY <2>3, <2>4 DEF S
<1>8. ASSUME NEW k \in 1..n, NEW i \in 1..Len(q[k]) PROVE g[n][p[k - 1] + i] = q[k][i]
  <2>1. /\ k - 1 \in 0..n /\ k \in 0..n /\ p[k] = p[k - 1] + Len(q[k])
        /\ g[k][p[k - 1] + i] = q[k][i]
    BY <1>6
  <2>2. p[k - 1] \in Nat /\ p[k] \in Nat BY <1>4, <2>1
  <2>3. p[k - 1] + i \in 1..p[k] BY <2>1, <2>2
  <2>4. g[n][p[k - 1] + i] = g[k][p[k - 1] + i] BY <1>7, <2>1, <2>3
  <2> QED BY <2>1, <2>4
<1>9. n \in 0..n OBVIOUS
<1>10. g[n] \in Seq(Byte) /\ Len(g[n]) = p[n] BY <1>2, <1>4, <1>9
<1>11. \A k \in 1..n : p[k] = p[k - 1] + Len(q[k]) BY <1>6
<1>12. Layout(q, n, p, g[n])
  BY <1>4, <1>5, <1>7, <1>8, <1>10, <1>11 DEF Layout
<1> QED BY <1>3, <1>12

LEMMA Uint16Bounds ==
  ASSUME NEW v \in Uint16
  PROVE  v \in Nat /\ v <= 65535
<1>1. MaxUint16 \in Int /\ MaxUint16 = 65535 BY DEF MaxUint16
<1>2. v \in 0..MaxUint16 BY DEF Uint16
<1>3. v \in Nat /\ v <= MaxUint16 BY <1>1, <1>2
<1> QED BY <1>1, <1>3

LEMMA RecordIsTyped ==
  ASSUME NEW r \in Reports
  PROVE  /\ Len(r.records) \in Nat /\ r.short \in 0..2
         /\ \A k \in 1..Len(r.records) :
              /\ r.records[k].type \in Byte /\ r.records[k].value \in Uint16
              /\ r.records[k].type = Capacity => r.records[k].value \in Byte
<1>1. r \in [records : Seq([type : Byte, value : Uint16]), short : 0..2]
  BY OnewireAssumption DEF OnewireAssumption
<1>2. r.records \in Seq([type : Byte, value : Uint16]) /\ r.short \in 0..2 BY <1>1
<1>3. \A k \in 1..Len(r.records) : r.records[k] \in [type : Byte, value : Uint16]
  <2> DEFINE R == [type : Byte, value : Uint16]
             q == r.records
  <2>1. q \in Seq(R) BY <1>2
  <2> HIDE DEF R, q
  <2>2. \A k \in 1..Len(q) : q[k] \in R BY <2>1
  <2> QED BY <2>2 DEF R, q
<1>4. \A k \in 1..Len(r.records) : r.records[k].type \in Byte /\ r.records[k].value \in Uint16
  BY <1>3
<1>5. Req \in {Req, Rsp} OBVIOUS
<1>6. \A k \in 1..Len(r.records) : r.records[k].type = Capacity => r.records[k].value \in Byte
  BY <1>5, ReportAssumption, Zenon DEF ReportAssumption
<1> QED BY <1>2, <1>4, <1>6

\* A record's bytes give back its type and its value, in the order the flag says.
LEMMA RecordReads ==
  ASSUME NEW rec, rec.type \in Byte, rec.value \in Uint16,
         rec.type = Capacity => rec.value \in Byte, NEW flag \in {Req, Rsp}
  PROVE  LET x == RecordBytes(rec, flag)
         IN /\ x \in Seq(Byte) /\ Len(x) = Width(rec.type) /\ x[2] = rec.type
            /\ rec.type = Capacity => x[3] = rec.value
            /\ rec.type # Capacity =>
                 /\ flag = Rsp => x[3] + 256 * x[4] = rec.value
                 /\ flag # Rsp => 256 * x[3] + x[4] = rec.value
<1> DEFINE hi == rec.value \div 256
           lo == rec.value % 256
           x == RecordBytes(rec, flag)
<1>1. rec.value \in Nat /\ rec.value <= 65535 BY Uint16Bounds
<1>2. hi \in Byte /\ lo \in Byte /\ 256 * hi + lo = rec.value BY <1>1, SplitLength
<1>3. rec.type = Capacity => lo = rec.value
  <2>1. \A v \in 0..255 : v % 256 = v OBVIOUS
  <2> QED BY <2>1 DEF Byte
<1>4. 21 \in Byte BY DEF Byte
<1>5. x = <<21, rec.type>> \o (CASE rec.type = Capacity -> <<lo>>
                                [] rec.type # Capacity /\ flag = Rsp -> <<lo, hi>>
                                [] OTHER -> <<hi, lo>>)
  BY DEF RecordBytes
<1> HIDE DEF hi, lo, x
<1>6. <<21, rec.type>> \in Seq(Byte) /\ Len(<<21, rec.type>>) = 2 BY <1>4
<1>7. CASE rec.type = Capacity
  <2>1. x = <<21, rec.type>> \o <<lo>> BY <1>5, <1>7
  <2>2. /\ x \in Seq(Byte) /\ Len(x) = 3 /\ x[2] = rec.type /\ x[3] = lo
    <3> DEFINE u == <<21, rec.type>>
               v == <<lo>>
    <3>1. /\ u \in Seq(Byte) /\ Len(u) = 2 /\ u[2] = rec.type
          /\ v \in Seq(Byte) /\ Len(v) = 1 /\ v[1] = lo
      BY <1>2, <1>4
    <3>2. x = u \o v BY <2>1
    <3> HIDE DEF u, v
    <3>3. u \o v \in Seq(Byte) /\ Len(u \o v) = Len(u) + Len(v) BY <3>1, Concatenated
    <3>4. /\ \A i \in 1..Len(u) : (u \o v)[i] = u[i]
          /\ \A i \in 1..Len(v) : (u \o v)[Len(u) + i] = v[i]
      BY <3>1, Joined
    <3>5. 2 \in 1..Len(u) /\ 1 \in 1..Len(v) BY <3>1
    <3> QED BY <3>1, <3>2, <3>3, <3>4, <3>5
  <2>3. Width(rec.type) = 3 BY <1>7 DEF Width
  <2> QED BY <1>2, <1>3, <1>4, <1>7, <2>2, <2>3 DEF x
<1>8. CASE rec.type # Capacity /\ flag = Rsp
  <2>1. x = <<21, rec.type>> \o <<lo, hi>> BY <1>5, <1>8
  <2>2. /\ x \in Seq(Byte) /\ Len(x) = 4 /\ x[2] = rec.type /\ x[3] = lo /\ x[4] = hi
    <3> DEFINE u == <<21, rec.type>>
               v == <<lo, hi>>
    <3>1. /\ u \in Seq(Byte) /\ Len(u) = 2 /\ u[2] = rec.type
          /\ v \in Seq(Byte) /\ Len(v) = 2 /\ v[1] = lo /\ v[2] = hi
      BY <1>2, <1>4
    <3>2. x = u \o v BY <2>1
    <3> HIDE DEF u, v
    <3>3. u \o v \in Seq(Byte) /\ Len(u \o v) = Len(u) + Len(v) BY <3>1, Concatenated
    <3>4. /\ \A i \in 1..Len(u) : (u \o v)[i] = u[i]
          /\ \A i \in 1..Len(v) : (u \o v)[Len(u) + i] = v[i]
      BY <3>1, Joined
    <3>5. 2 \in 1..Len(u) /\ 1 \in 1..Len(v) /\ 2 \in 1..Len(v) BY <3>1
    <3> QED BY <3>1, <3>2, <3>3, <3>4, <3>5
  <2>3. Width(rec.type) = 4 BY <1>8 DEF Width
  <2>4. hi \in Nat /\ lo \in Nat BY <1>2, ByteBounds
  <2>5. lo + 256 * hi = rec.value BY <1>2, <2>4
  <2> QED BY <1>2, <1>4, <1>8, <2>2, <2>3, <2>5 DEF x
<1>9. CASE rec.type # Capacity /\ flag # Rsp
  <2>1. x = <<21, rec.type>> \o <<hi, lo>> BY <1>5, <1>9
  <2>2. /\ x \in Seq(Byte) /\ Len(x) = 4 /\ x[2] = rec.type /\ x[3] = hi /\ x[4] = lo
    <3> DEFINE u == <<21, rec.type>>
               v == <<hi, lo>>
    <3>1. /\ u \in Seq(Byte) /\ Len(u) = 2 /\ u[2] = rec.type
          /\ v \in Seq(Byte) /\ Len(v) = 2 /\ v[1] = hi /\ v[2] = lo
      BY <1>2, <1>4
    <3>2. x = u \o v BY <2>1
    <3> HIDE DEF u, v
    <3>3. u \o v \in Seq(Byte) /\ Len(u \o v) = Len(u) + Len(v) BY <3>1, Concatenated
    <3>4. /\ \A i \in 1..Len(u) : (u \o v)[i] = u[i]
          /\ \A i \in 1..Len(v) : (u \o v)[Len(u) + i] = v[i]
      BY <3>1, Joined
    <3>5. 2 \in 1..Len(u) /\ 1 \in 1..Len(v) /\ 2 \in 1..Len(v) BY <3>1
    <3> QED BY <3>1, <3>2, <3>3, <3>4, <3>5
  <2>3. Width(rec.type) = 4 BY <1>9 DEF Width
  <2> QED BY <1>2, <1>4, <1>9, <2>2, <2>3 DEF x
<1> QED BY <1>7, <1>8, <1>9

\* Where the records of a report lie in its bytes, the last of them perhaps cut short.
Spread(r, flag, p) ==
  LET n == Len(r.records)
      w == ReportBytes(r, flag)
  IN /\ p \in [0..n -> Nat] /\ p[0] = 0
     /\ \A k \in 1..n : p[k] = p[k - 1] + Width(r.records[k].type)
     /\ \A k \in 0..n : p[k] <= p[n]
     /\ w \in Seq(Byte) /\ Len(w) = IF n = 0 THEN 0 ELSE p[n] - r.short
     /\ \A k \in 1..n : \A i \in 1..Width(r.records[k].type) :
          p[k - 1] + i <= Len(w) => w[p[k - 1] + i] = RecordBytes(r.records[k], flag)[i]

LEMMA ReportIsSpread ==
  ASSUME NEW r \in Reports, NEW flag \in {Req, Rsp}
  PROVE  \E p : Spread(r, flag, p)
<1> DEFINE n == Len(r.records)
           q == [k \in 1..n |-> RecordBytes(r.records[k], flag)]
           whole == FlattenSeq(q)
           w == ReportBytes(r, flag)
<1>1. n \in Nat /\ r.short \in 0..2 BY RecordIsTyped
<1>2. \A k \in 1..n : RecordBytes(r.records[k], flag) \in Seq(Byte)
                    /\ Len(RecordBytes(r.records[k], flag)) = Width(r.records[k].type)
  BY RecordIsTyped, RecordReads
<1>3. w = SubSeq(whole, 1, Len(whole) - r.short) BY DEF ReportBytes
<1>4. q \in [1..n -> Seq(Byte)] BY <1>2
<1>5. \A k \in 1..n : q[k] = RecordBytes(r.records[k], flag) OBVIOUS
<1> HIDE DEF n, q
<1>6. PICK p : Layout(q, n, p, whole) BY <1>1, <1>4, FlattenHasLayout
<1> HIDE DEF whole, w
<1>7. /\ p \in [0..n -> Nat] /\ p[0] = 0
      /\ \A k \in 1..n : p[k] = p[k - 1] + Len(q[k])
      /\ \A k \in 0..n : p[k] <= p[n]
      /\ whole \in Seq(Byte) /\ Len(whole) = p[n]
      /\ \A k \in 1..n : \A i \in 1..Len(q[k]) : whole[p[k - 1] + i] = q[k][i]
  BY <1>6 DEF Layout
<1>8. \A k \in 1..n : p[k] = p[k - 1] + Width(r.records[k].type) /\ Len(q[k]) = Width(r.records[k].type)
  BY <1>2, <1>5, <1>7
<1>9. CASE n = 0
  <2>1. Len(whole) = 0 /\ whole \in Seq(Byte) BY <1>7, <1>9
  <2>2. whole = <<>> BY <2>1
  <2>3. w = <<>> BY <1>1, <1>3, <2>2
  <2>4. w \in Seq(Byte) /\ Len(w) = 0 BY <2>3
  <2> QED BY <1>7, <1>9, <2>4 DEF Spread, n, w
<1>10. CASE n # 0
  <2>1. n \in 1..n /\ n \in 0..n /\ n - 1 \in 0..n BY <1>1, <1>10
  <2>2. p[n] >= 3
    <3>1. p[n] = p[n - 1] + Width(r.records[n].type) /\ p[n - 1] \in Nat BY <1>7, <1>8, <2>1
    <3> QED BY <3>1 DEF Width
  <2>3. p[n] \in Nat /\ p[n] - r.short \in Nat /\ p[n] - r.short <= Len(whole)
    BY <1>1, <1>7, <2>1, <2>2
  <2> DEFINE m == p[n] - r.short
  <2>4. w = SubSeq(whole, 1, m) BY <1>3, <1>7
  <2>5. w \in Seq(Byte) /\ Len(w) = m BY <1>7, <2>3, <2>4, Pieces
  <2>6. \A i \in 1..m : w[i] = whole[i]
    <3>1. m \in Nat /\ \A i \in 1..m : whole[i] \in Byte BY <1>7, <2>3
    <3> HIDE DEF m
    <3>2. \A i \in 1..m : w[i] = whole[1 + i - 1] BY <2>4, <3>1, SubSeqProperties
    <3> QED BY <3>1, <3>2
  <2> HIDE DEF m
  <2>7. ASSUME NEW k \in 1..n, NEW i \in 1..Width(r.records[k].type), p[k - 1] + i <= Len(w)
        PROVE  w[p[k - 1] + i] = RecordBytes(r.records[k], flag)[i]
    <3>1. whole[p[k - 1] + i] = q[k][i] BY <1>7, <1>8
    <3>2. k - 1 \in 0..n BY <1>1
    <3>3. p[k - 1] \in Nat BY <1>7, <3>2
    <3>4. p[k - 1] + i \in 1..m BY <2>5, <2>7, <3>3 DEF Width
    <3> QED BY <1>5, <2>6, <3>1, <3>4
  <2>8. p[0] = 0 /\ p \in [0..n -> Nat] /\ \A k \in 0..n : p[k] <= p[n] BY <1>7
  <2>9. w \in Seq(Byte) /\ Len(w) = IF n = 0 THEN 0 ELSE p[n] - r.short
    BY <1>10, <2>5 DEF m
  <2>10. \A k \in 1..n : p[k] = p[k - 1] + Width(r.records[k].type) BY <1>8
  <2> QED BY <2>7, <2>8, <2>9, <2>10, Zenon DEF Spread, n, w
<1> QED BY <1>9, <1>10

\* The record j is there to its last byte.
Present(r, j) == j \in 1..(Len(r.records) - (IF r.short > 0 THEN 1 ELSE 0))

\* While more than two bytes are left, the next record's type is there, and so is all of
\* it unless a byte of its word is missing; and a record that is there leaves as many.
LEMMA NextRecord ==
  ASSUME NEW r \in Reports, NEW flag \in {Req, Rsp}, NEW p, Spread(r, flag, p),
         NEW k \in 0..Len(r.records)
  PROVE  LET n == Len(r.records)
             w == ReportBytes(r, flag)
             rec == r.records[k + 1]
         IN /\ p[k] \in Nat /\ Len(w) \in Nat
            /\ p[k] + 2 < Len(w) =>
                 /\ k + 1 \in 1..n /\ w[p[k] + 2] = rec.type
                 /\ p[k + 1] = p[k] + Width(rec.type)
                 /\ rec.type = Capacity => w[p[k] + 3] = rec.value /\ Present(r, k + 1)
                 /\ rec.type # Capacity /\ p[k] + 3 < Len(w) =>
                      /\ Present(r, k + 1)
                      /\ flag = Rsp => w[p[k] + 3] + 256 * w[p[k] + 4] = rec.value
                      /\ flag # Rsp => 256 * w[p[k] + 3] + w[p[k] + 4] = rec.value
            /\ Present(r, k + 1) => p[k] + 2 < Len(w)
<1> DEFINE n == Len(r.records)
           w == ReportBytes(r, flag)
           rec == r.records[k + 1]
           cut == IF r.short > 0 THEN 1 ELSE 0
           x == RecordBytes(rec, flag)
<1>1. n \in Nat /\ r.short \in 0..2 BY RecordIsTyped
<1>2. /\ p \in [0..n -> Nat] /\ p[0] = 0
      /\ \A j \in 1..n : p[j] = p[j - 1] + Width(r.records[j].type)
      /\ \A j \in 0..n : p[j] <= p[n]
      /\ w \in Seq(Byte) /\ Len(w) = IF n = 0 THEN 0 ELSE p[n] - r.short
      /\ \A j \in 1..n : \A i \in 1..Width(r.records[j].type) :
           p[j - 1] + i <= Len(w) => w[p[j - 1] + i] = RecordBytes(r.records[j], flag)[i]
  BY DEF Spread
<1>3. Present(r, k + 1) <=> k + 1 <= n - cut BY <1>1 DEF Present
<1> HIDE DEF n, w, rec, x
<1>4. k \in 0..n BY DEF n
<1>5. p[k] \in Nat /\ p[n] \in Nat /\ Len(w) \in Nat BY <1>1, <1>2, <1>4
<1>6. CASE k = n
  <2>1. Len(w) <= p[n] BY <1>1, <1>2, <1>5
  <2>2. ~(p[k] + 2 < Len(w)) BY <1>5, <1>6, <2>1
  <2>3. ~(k + 1 <= n - cut) BY <1>1, <1>6
  <2> QED BY <1>3, <1>5, <2>2, <2>3 DEF n, w
<1>7. CASE k # n
  <2>1. k + 1 \in 1..n /\ (k + 1) - 1 = k /\ n # 0 /\ k + 1 \in 0..n BY <1>1, <1>4, <1>7
  <2>2. /\ rec.type \in Byte /\ rec.value \in Uint16
        /\ rec.type = Capacity => rec.value \in Byte
    BY <2>1, RecordIsTyped DEF n, rec
  <2>3. /\ x[2] = rec.type
        /\ rec.type = Capacity => x[3] = rec.value
        /\ rec.type # Capacity =>
             /\ flag = Rsp => x[3] + 256 * x[4] = rec.value
             /\ flag # Rsp => 256 * x[3] + x[4] = rec.value BY <2>2, RecordReads DEF x
  <2>4. p[k + 1] = p[k] + Width(rec.type) /\ p[k + 1] \in Nat /\ p[k + 1] <= p[n]
    BY <1>2, <2>1 DEF rec
  <2>5. \A i \in 1..Width(rec.type) : p[k] + i <= Len(w) => w[p[k] + i] = x[i]
    BY <1>2, <2>1 DEF rec, x
  <2>6. Len(w) = p[n] - r.short BY <1>2, <2>1
  <2>7. rec.type = Capacity => Width(rec.type) = 3 BY DEF Width
  <2>8. rec.type # Capacity => Width(rec.type) = 4 BY DEF Width
  <2>9. Width(rec.type) \in {3, 4} BY <2>7, <2>8
  <2>10. p[k] + 2 < Len(w) => w[p[k] + 2] = rec.type /\ w[p[k] + 3] = x[3]
    <3> SUFFICES ASSUME p[k] + 2 < Len(w)
                 PROVE  w[p[k] + 2] = rec.type /\ w[p[k] + 3] = x[3]
      OBVIOUS
    <3>1. p[k] + 2 <= Len(w) /\ p[k] + 3 <= Len(w) BY <1>5
    <3>2. 2 \in 1..Width(rec.type) /\ 3 \in 1..Width(rec.type) BY <2>9
    <3>3. w[p[k] + 2] = x[2] /\ w[p[k] + 3] = x[3] BY <2>5, <3>1, <3>2, Zenon
    <3> QED BY <2>3, <3>3
  <2>11. rec.type # Capacity /\ p[k] + 3 < Len(w) => w[p[k] + 4] = x[4]
    <3> SUFFICES ASSUME rec.type # Capacity, p[k] + 3 < Len(w) PROVE w[p[k] + 4] = x[4]
      OBVIOUS
    <3>1. p[k] + 4 <= Len(w) BY <1>5
    <3>2. 4 \in 1..Width(rec.type) BY <2>8
    <3> QED BY <2>5, <3>1, <3>2, Zenon
  <2>12. CASE k + 1 = n
    <3>0. p[k + 1] = p[n] BY <2>12
    <3>1. Len(w) = p[k] + Width(rec.type) - r.short BY <1>1, <1>5, <2>4, <2>6, <2>9, <3>0
    <3>2. k + 1 <= n - cut <=> r.short = 0 BY <1>1, <2>12
    <3>3. k + 1 <= n - cut => p[k] + 2 < Len(w) BY <1>5, <2>9, <3>1, <3>2
    <3>4. rec.type = Capacity /\ p[k] + 2 < Len(w) => k + 1 <= n - cut
      BY <1>1, <1>5, <2>7, <3>1, <3>2
    <3>5. rec.type # Capacity /\ p[k] + 3 < Len(w) => k + 1 <= n - cut
      BY <1>1, <1>5, <2>8, <3>1, <3>2
    <3> QED BY <1>3, <1>5, <2>1, <2>3, <2>4, <2>10, <2>11, <3>3, <3>4, <3>5 DEF n, w, rec
  <2>13. CASE k + 1 # n
    <3>1. k + 2 \in 1..n /\ (k + 2) - 1 = k + 1 /\ k + 2 \in 0..n BY <1>1, <2>1, <2>13
    <3>2. p[k + 2] = p[k + 1] + Width(r.records[k + 2].type) /\ p[k + 2] <= p[n] /\ p[k + 2] \in Nat
      BY <1>2, <3>1
    <3>3. Width(r.records[k + 2].type) \in {3, 4} BY DEF Width
    <3>4. p[k + 1] + 1 <= Len(w) BY <1>1, <1>5, <2>4, <2>6, <3>2, <3>3
    <3>5. k + 1 <= n - cut BY <1>1, <2>1, <2>13
    <3>6. p[k] + 2 < Len(w) BY <1>5, <2>4, <2>9, <3>4
    <3> QED BY <1>3, <1>5, <2>1, <2>3, <2>4, <2>10, <2>11, <3>5, <3>6 DEF n, w, rec
  <2> QED BY <2>12, <2>13
<1> QED BY <1>6, <1>7

\* f holds the last value of each measurement among the first k records of r.
Decoded(f, r, k) ==
  /\ f = [t \in DOMAIN f |-> f[t]]
  /\ \A t : t \in DOMAIN f <=> t \in Measurements /\ \E j \in 1..k : r.records[j].type = t
  /\ \A t \in DOMAIN f : \E j \in 1..k :
       /\ r.records[j].type = t /\ f[t] = r.records[j].value
       /\ \A i \in 1..k : r.records[i].type = t => i <= j

NonzeroIn(r, k) == \E j \in 1..k : r.records[j].type \in Measurements /\ r.records[j].value # 0

LEMMA NothingDecoded ==
  ASSUME NEW r, NEW f, f = <<>>
  PROVE  Decoded(f, r, 0) /\ ~NonzeroIn(r, 0)
<1>1. DOMAIN f = {} /\ f = [t \in DOMAIN f |-> f[t]] OBVIOUS
<1>2. ~ \E j \in 1..0 : TRUE OBVIOUS
<1> QED BY <1>1, <1>2 DEF Decoded, NonzeroIn

LEMMA OneMoreDecoded ==
  ASSUME NEW r, NEW f, NEW k \in Nat, Decoded(f, r, k), NEW g,
         g = IF r.records[k + 1].type \in Measurements
             THEN [t \in DOMAIN f \cup {r.records[k + 1].type} |->
                     IF t = r.records[k + 1].type THEN r.records[k + 1].value ELSE f[t]]
             ELSE f
  PROVE  /\ Decoded(g, r, k + 1)
         /\ NonzeroIn(r, k + 1) <=> \/ NonzeroIn(r, k)
                                   \/ /\ r.records[k + 1].type \in Measurements
                                      /\ r.records[k + 1].value # 0
<1> DEFINE ty(j) == r.records[j].type
           v(j) == r.records[j].value
<1>1. /\ f = [t \in DOMAIN f |-> f[t]]
      /\ \A t : t \in DOMAIN f <=> t \in Measurements /\ \E j \in 1..k : ty(j) = t
      /\ \A t \in DOMAIN f : \E j \in 1..k : /\ ty(j) = t /\ f[t] = v(j)
                                           /\ \A i \in 1..k : ty(i) = t => i <= j
  BY DEF Decoded
<1>2. g = IF ty(k + 1) \in Measurements
          THEN [t \in DOMAIN f \cup {ty(k + 1)} |-> IF t = ty(k + 1) THEN v(k + 1) ELSE f[t]]
          ELSE f
  OBVIOUS
<1>3. NonzeroIn(r, k) <=> \E j \in 1..k : ty(j) \in Measurements /\ v(j) # 0 BY DEF NonzeroIn
<1>4. NonzeroIn(r, k + 1) <=> \E j \in 1..(k + 1) : ty(j) \in Measurements /\ v(j) # 0
  BY DEF NonzeroIn
<1>5. Decoded(g, r, k + 1) <=>
        /\ g = [t \in DOMAIN g |-> g[t]]
        /\ \A t : t \in DOMAIN g <=> t \in Measurements /\ \E j \in 1..(k + 1) : ty(j) = t
        /\ \A t \in DOMAIN g : \E j \in 1..(k + 1) : /\ ty(j) = t /\ g[t] = v(j)
                                                  /\ \A i \in 1..(k + 1) : ty(i) = t => i <= j
  BY DEF Decoded
<1>6. 1..(k + 1) = (1..k) \cup {k + 1} /\ (\A j \in 1..k : j \in Nat /\ j <= k + 1) /\ k + 1 <= k + 1
  OBVIOUS
<1> HIDE DEF ty, v
<1>7. NonzeroIn(r, k + 1) <=> NonzeroIn(r, k) \/ (ty(k + 1) \in Measurements /\ v(k + 1) # 0)
  BY <1>3, <1>4, <1>6
<1>8. CASE ty(k + 1) \in Measurements
  <2>1. g = [t \in DOMAIN f \cup {ty(k + 1)} |-> IF t = ty(k + 1) THEN v(k + 1) ELSE f[t]]
    BY <1>2, <1>8
  <2>2. DOMAIN g = DOMAIN f \cup {ty(k + 1)} /\ g = [t \in DOMAIN g |-> g[t]] BY <2>1
  <2>3. \A t : t \in DOMAIN g <=> t \in Measurements /\ \E j \in 1..(k + 1) : ty(j) = t
    BY <1>1, <1>6, <1>8, <2>2
  <2>4. ASSUME NEW t \in DOMAIN g
        PROVE  \E j \in 1..(k + 1) : /\ ty(j) = t /\ g[t] = v(j)
                                     /\ \A i \in 1..(k + 1) : ty(i) = t => i <= j
    <3>1. CASE t = ty(k + 1)
      <4>1. g[t] = v(k + 1) BY <2>1, <2>2, <3>1
      <4>2. \A i \in 1..(k + 1) : i <= k + 1 BY <1>6
      <4> QED BY <1>6, <3>1, <4>1, <4>2
    <3>2. CASE t # ty(k + 1)
      <4>1. t \in DOMAIN f /\ g[t] = f[t] BY <2>1, <2>2, <3>2
      <4>2. PICK j \in 1..k : ty(j) = t /\ f[t] = v(j) /\ \A i \in 1..k : ty(i) = t => i <= j
        BY <1>1, <4>1
      <4>3. \A i \in 1..(k + 1) : ty(i) = t => i <= j BY <1>6, <3>2, <4>2
      <4> QED BY <1>6, <4>1, <4>2, <4>3
    <3> QED BY <3>1, <3>2
  <2> QED BY <1>5, <1>7, <2>2, <2>3, <2>4 DEF ty, v
<1>9. CASE ty(k + 1) \notin Measurements
  <2>1. g = f BY <1>2, <1>9
  <2>2. \A t : t \in DOMAIN g <=> t \in Measurements /\ \E j \in 1..(k + 1) : ty(j) = t
    BY <1>1, <1>6, <1>9, <2>1
  <2>3. ASSUME NEW t \in DOMAIN g
        PROVE  \E j \in 1..(k + 1) : /\ ty(j) = t /\ g[t] = v(j)
                                     /\ \A i \in 1..(k + 1) : ty(i) = t => i <= j
    <3>1. PICK j \in 1..k : ty(j) = t /\ f[t] = v(j) /\ \A i \in 1..k : ty(i) = t => i <= j
      BY <1>1, <2>1
    <3>2. t # ty(k + 1) BY <1>1, <1>9, <2>1
    <3>3. \A i \in 1..(k + 1) : ty(i) = t => i <= j BY <1>6, <3>1, <3>2
    <3> QED BY <1>6, <2>1, <3>1, <3>3
  <2> QED BY <1>1, <1>5, <1>7, <2>1, <2>2, <2>3 DEF ty, v
<1> QED BY <1>8, <1>9

\* When the first k records are all those known, that is the report's meaning.
LEMMA AllDecoded ==
  ASSUME NEW r, NEW f, NEW k \in Nat, Decoded(f, r, k), Known(r) = 1..k
  PROVE  f = Meaning(r) /\ (NonzeroIn(r, k) <=> ~Template(r))
<1> DEFINE ty(j) == r.records[j].type
           v(j) == r.records[j].value
           D == {ty(j) : j \in 1..k} \cap Measurements
<1>1. /\ f = [t \in DOMAIN f |-> f[t]]
      /\ \A t : t \in DOMAIN f <=> t \in Measurements /\ \E j \in 1..k : ty(j) = t
      /\ \A t \in DOMAIN f : \E j \in 1..k : /\ ty(j) = t /\ f[t] = v(j)
                                           /\ \A i \in 1..k : ty(i) = t => i <= j
  BY DEF Decoded
<1>2. DOMAIN f = D BY <1>1
<1>3. Meaning(r) = [t \in D |-> v(LastOf(r, t))] BY DEF Meaning
<1>4. \A t : LastOf(r, t) = CHOOSE j \in 1..k : ty(j) = t /\ \A i \in 1..k : ty(i) = t => i <= j
  BY DEF LastOf
<1>5. NonzeroIn(r, k) <=> ~Template(r) BY DEF NonzeroIn, Template
<1> HIDE DEF ty, v, D
<1>6. ASSUME NEW t \in D PROVE f[t] = v(LastOf(r, t))
  <2>1. PICK j \in 1..k : ty(j) = t /\ f[t] = v(j) /\ \A i \in 1..k : ty(i) = t => i <= j
    BY <1>1, <1>2
  <2> DEFINE l == LastOf(r, t)
  <2>2. l \in 1..k /\ ty(l) = t /\ \A i \in 1..k : ty(i) = t => i <= l BY <1>4, <2>1
  <2> HIDE DEF l
  <2>3. l = j BY <2>1, <2>2
  <2> QED BY <2>1, <2>3 DEF l
<1>7. f = Meaning(r) BY <1>1, <1>2, <1>3, <1>6
<1> QED BY <1>5, <1>7

(***************************************************************************)
(* The specification                                                        *)
(***************************************************************************)

\* What the master puts on the wire is one frame from end to end that the pack's checks
\* accept, and a response assigns kProbeId.
SentIsWhole ==
  sent # <<>> =>
    /\ 1 \in Verified(sent) /\ Cksum(sent, 1) = Len(sent)
    /\ Source(sent, 1) = Master
    /\ Flag(sent, 1) = Rsp => ProvId(1) < Len(sent) /\ sent[ProvId(1)] = ProbeId

IInv == TypeOK /\ SentIsWhole

LEMMA Constants ==
  /\ SeqRange \in Nat /\ SeqRange >= 2 /\ SeqRange <= 256
  /\ MaxSends \in Nat /\ RxCapacity \in Nat
  /\ ProvIdOffset \in Nat /\ ProvIdOffset <= 253
  /\ PackSeqs \subseteq Byte /\ Cuts \subseteq Nat /\ Breaks \subseteq Nat
<1>1. /\ SeqRange \in 2..256 /\ MaxSends \in 1..SeqRange /\ RxCapacity \in Nat
      /\ ProvIdOffset \in 0..253
      /\ PackSeqs \subseteq Byte /\ Cuts \subseteq Nat /\ Breaks \subseteq Nat
  BY OnewireAssumption, Zenon DEF OnewireAssumption
<1> QED BY <1>1

LEMMA NothingWalked == NoWalk /\ phase' # "walk" => WalkOK'
<1> SUFFICES ASSUME NoWalk, phase' # "walk" PROVE WalkOK' OBVIOUS
<1>1. buf' \in Seq(Byte) BY DEF NoWalk
<1>2. DOMAIN out' = {} BY DEF NoWalk
<1>3. nonzero' \in BOOLEAN BY DEF NoWalk
<1> QED BY <1>1, <1>2, <1>3 DEF WalkOK

LEMMA WalkUndisturbed == WalkOK /\ UNCHANGED <<buf, frame, at, out, nonzero>> /\ phase' # "walk"
                           => WalkOK'
<1> SUFFICES ASSUME WalkOK, UNCHANGED <<buf, frame, at, out, nonzero>>, phase' # "walk"
             PROVE  WalkOK'
  OBVIOUS
<1>1. buf' = buf /\ out' = out /\ nonzero' = nonzero OBVIOUS
<1>2. /\ buf \in Seq(Byte) /\ nonzero \in BOOLEAN
      /\ DOMAIN out \subseteq Measurements /\ \A t \in DOMAIN out : out[t] \in Uint16
  BY DEF WalkOK
<1>3. /\ buf' \in Seq(Byte) /\ nonzero' \in BOOLEAN
      /\ DOMAIN out' \subseteq Measurements /\ \A t \in DOMAIN out' : out'[t] \in Uint16
  BY <1>1, <1>2
<1> QED BY <1>3 DEF WalkOK

LEMMA InitHolds == Init => IInv
<1> SUFFICES ASSUME Init PROVE IInv OBVIOUS
<1>1. <<>> \in Seq(Byte) /\ DOMAIN <<>> = {} OBVIOUS
<1>2. 0 \in 0..MaxSends /\ 0 \in 0..(SeqRange - 1) BY Constants
<1>3. pid \in Byte /\ held \in Byte BY DEF Init, ProbeId, Broadcast, Byte
<1>4. ControlOK BY <1>2, <1>3 DEF Init, ControlOK, Parsed
<1>5. WireOK BY <1>1 DEF Init, WireOK
<1>6. WalkOK
  <2>1. buf \in Seq(Byte) /\ phase # "walk" BY DEF Init
  <2>2. DOMAIN out = {} BY DEF Init
  <2>3. nonzero \in BOOLEAN BY DEF Init
  <2> QED BY <2>1, <2>2, <2>3 DEF WalkOK
<1>7. SentIsWhole BY DEF Init, SentIsWhole
<1> QED BY <1>4, <1>5, <1>6, <1>7 DEF IInv, TypeOK

LEMMA BeginKeeps == IInv /\ Begin => IInv'
<1> SUFFICES ASSUME IInv, Begin PROVE IInv' OBVIOUS
<1>0. ControlOK /\ WireOK BY DEF IInv, TypeOK
<1>1. <<>> \in Seq(Byte) OBVIOUS
<1>2. 0 \in 0..MaxSends BY Constants
<1>3. ControlOK' BY <1>0, <1>2 DEF Begin, ControlOK, Parsed
<1>4. WireOK' BY <1>1 DEF Begin, WireOK
<1>5. WalkOK' BY NothingWalked DEF Begin
<1>6. SentIsWhole' BY DEF Begin, SentIsWhole
<1> QED BY <1>3, <1>4, <1>5, <1>6 DEF IInv, TypeOK

LEMMA SendKeeps ==
  ASSUME ControlOK, NEW dest \in Byte, NEW type \in Byte, NEW payloadType \in Byte,
         Send(dest, type, payloadType)
  PROVE  /\ sends' \in 0..MaxSends /\ seq' \in 0..(SeqRange - 1)
         /\ sent' \in Seq(Byte) /\ Len(sent') = MinFrame /\ SentIsWhole'
<1>1. /\ sends \in 0..MaxSends /\ seq \in 0..(SeqRange - 1)
      /\ sends < MaxSends /\ sends' = sends + 1 /\ seq' = (seq + 1) % SeqRange
      /\ sent' = Request(dest, seq', type, payloadType)
  BY Zenon DEF ControlOK, Send
<1>2. sends' \in 0..MaxSends BY <1>1, Constants
<1>3. seq + 1 \in Nat BY <1>1, Constants
<1>4. seq' \in Nat /\ seq' < SeqRange BY <1>1, <1>3, Constants
<1>5. seq' \in Byte /\ seq' \in 0..(SeqRange - 1)
  <2>1. seq' <= 255 BY <1>4, Constants
  <2> QED BY <1>4, <2>1, Constants, SmallIsByte
<1> DEFINE c == Request(dest, seq', type, payloadType)
<1>6. /\ c \in Seq(Byte) /\ Len(c) = MinFrame
      /\ 1 \in Verified(c) /\ Cksum(c, 1) = Len(c)
      /\ Flag(c, 1) # Rsp /\ Source(c, 1) = Master
  BY <1>5, RequestIsWhole
<1>7. sent' = c BY <1>1
<1> HIDE DEF c
<1> QED BY <1>2, <1>5, <1>6, <1>7 DEF SentIsWhole

LEMMA QueryKeeps == IInv /\ Query => IInv'
<1> SUFFICES ASSUME IInv, Query PROVE IInv' OBVIOUS
<1>1. ControlOK /\ WireOK BY DEF IInv, TypeOK
<1>2. PICK dest \in {ProbeId, Broadcast, pid} : Send(dest, SendData, DataPayload) BY DEF Query
<1>3. dest \in Byte /\ SendData \in Byte /\ DataPayload \in Byte
  <2>1. pid \in Byte BY <1>1 DEF ControlOK
  <2> QED BY <2>1 DEF ProbeId, Broadcast, SendData, DataPayload, Byte
<1>4. /\ sends' \in 0..MaxSends /\ seq' \in 0..(SeqRange - 1)
      /\ sent' \in Seq(Byte) /\ Len(sent') = MinFrame /\ SentIsWhole'
  BY <1>1, <1>2, <1>3, SendKeeps
<1>5. line' \in Seq(Byte)
  <2>1. line \in Seq(Byte) /\ Flush BY <1>1 DEF WireOK, Query
  <2> QED BY <2>1, Constants, FlushTyped
<1>6. ControlOK' BY <1>1, <1>4 DEF Query, ControlOK, Parsed
<1>7. WireOK'
  <2>1. \A q \in owed' : q \in Seq(Byte) /\ Len(q) = MinFrame BY <1>1, <1>4 DEF Query, WireOK
  <2>2. told' \subseteq Seq(Byte) /\ query' = sent' BY <1>1 DEF Query, WireOK
  <2> QED BY <1>4, <1>5, <2>1, <2>2 DEF WireOK
<1>8. WalkOK' BY NothingWalked DEF Query
<1> QED BY <1>4, <1>6, <1>7, <1>8 DEF IInv, TypeOK

LEMMA ListenKeeps == IInv /\ Listen => IInv'
<1> SUFFICES ASSUME IInv, Listen PROVE IInv' OBVIOUS
<1>1. ControlOK /\ WireOK /\ SentIsWhole BY DEF IInv, TypeOK
<1>2. ControlOK' BY <1>1 DEF ControlOK, Listen, Parsed, packVars
<1>3. WireOK'
  <2>1. <<>> \in Seq(Byte) OBVIOUS
  <2> QED BY <1>1, <2>1 DEF WireOK, Listen, packVars
<1>4. WalkOK' BY NothingWalked DEF Listen
<1>5. SentIsWhole' BY <1>1 DEF SentIsWhole, Listen
<1> QED BY <1>2, <1>3, <1>4, <1>5 DEF IInv, TypeOK

LEMMA SendBootKeeps == IInv /\ SendBoot => IInv'
<1> SUFFICES ASSUME IInv, SendBoot PROVE IInv' OBVIOUS
<1>1. ControlOK /\ WireOK /\ WalkOK BY DEF IInv, TypeOK
<1>2. Broadcast \in Byte /\ Provision \in Byte /\ Boot \in Byte
  BY DEF Broadcast, Provision, Boot, Byte
<1>3. Send(Broadcast, Provision, Boot) BY DEF SendBoot
<1>4. /\ sends' \in 0..MaxSends /\ seq' \in 0..(SeqRange - 1)
      /\ sent' \in Seq(Byte) /\ SentIsWhole'
  BY <1>1, <1>2, <1>3, SendKeeps
<1>5. ControlOK' BY <1>1, <1>4 DEF ControlOK, SendBoot, packVars
<1>6. WireOK' BY <1>1, <1>4 DEF WireOK, SendBoot, packVars
<1>7. WalkOK'
  <2>1. UNCHANGED <<buf, frame, at, out, nonzero>> /\ phase' # "walk"
    BY DEF SendBoot, walkVars
  <2> QED BY <1>1, <2>1, WalkUndisturbed
<1> QED BY <1>4, <1>5, <1>6, <1>7 DEF IInv, TypeOK

LEMMA ReceiveKeeps == IInv /\ Receive => IInv'
<1> SUFFICES ASSUME IInv, Receive PROVE IInv' OBVIOUS
<1>1. ControlOK /\ WireOK /\ WalkOK /\ SentIsWhole BY DEF IInv, TypeOK
<1>2. line \in Seq(Byte) BY <1>1 DEF WireOK
<1>3. PICK h \in Heard : Take(Capped(h)) /\ Parse(SubSeq(line, 1, Capped(h)))
  BY DEF Receive
<1> DEFINE n == Capped(h)
           b == SubSeq(line, 1, n)
<1>4. n \in Nat /\ n <= Len(line) BY <1>2, Constants, HeardIsThere
<1>5. b \in Seq(Byte) /\ line' \in Seq(Byte) BY <1>2, <1>3, <1>4, Pieces DEF Take
<1>6. Parse(b) BY <1>3
<1> HIDE DEF b, n
<1>7. Refusal(b) \in Parsed BY DEF Refusal, Parsed
<1>8. UNCHANGED <<sends, seq, out, nonzero, pid, latched, sent, owed, held, said, told>>
  BY DEF Receive
<1>9. ControlOK' BY <1>1, <1>6, <1>7, <1>8 DEF ControlOK, Parse, Parsed
<1>10. WireOK'
  <2>1. query' \in {query, <<>>} BY <1>6 DEF Parse
  <2>2. <<>> \in Seq(Byte) OBVIOUS
  <2> QED BY <1>1, <1>5, <1>8, <2>1, <2>2 DEF WireOK
<1>11. WalkOK'
  <2>1. /\ nonzero' \in BOOLEAN /\ buf \in Seq(Byte)
        /\ DOMAIN out' \subseteq Measurements /\ \A t \in DOMAIN out' : out'[t] \in Uint16
    BY <1>1, <1>8 DEF WalkOK
  <2>2. CASE Matches(b) = {}
    <3>1. buf' = buf /\ phase' # "walk" BY <1>6, <2>2 DEF Parse
    <3> QED BY <2>1, <3>1 DEF WalkOK
  <2>3. CASE Matches(b) # {}
    <3>1. buf' = b /\ frame' = First(Matches(b)) /\ at' = Body(frame') BY <1>6, <2>3 DEF Parse
    <3>2. Matches(b) \subseteq Verified(b) BY DEF Matches
    <3>3. Verified(b) \subseteq Nat BY <1>5, ArrivedFields DEF Verified
    <3>4. frame' \in Verified(b) BY <2>3, <3>1, <3>2, <3>3, FirstIsMember
    <3>5. at' \in Nat /\ at' >= Body(frame') BY <3>1, <3>3, <3>4 DEF Body, HeaderBytes
    <3> QED BY <1>5, <2>1, <3>1, <3>4, <3>5 DEF WalkOK
  <2> QED BY <2>2, <2>3
<1>12. SentIsWhole' BY <1>1, <1>8 DEF SentIsWhole
<1> QED BY <1>9, <1>10, <1>11, <1>12 DEF IInv, TypeOK

\* While a record is left, its four bytes up to the frame's end are bytes of the buffer.
LEMMA RecordIsInside ==
  ASSUME WalkOK, phase = "walk", NEW k \in 1..3, at + k < End
  PROVE  /\ at + k \in 1..Len(buf) /\ buf[at + k] \in Byte
<1>1. buf \in Seq(Byte) /\ frame \in Arrived(buf) /\ at \in Nat /\ at >= Body(frame)
  BY DEF WalkOK, Verified
<1>2. End \in Nat /\ End <= Len(buf) BY <1>1, ArrivedFields DEF End
<1>3. Len(buf) \in Nat /\ \A i \in 1..Len(buf) : buf[i] \in Byte BY <1>1
<1>4. at + k \in 1..Len(buf) BY <1>1, <1>2, <1>3
<1> QED BY <1>3, <1>4

LEMMA DecodeKeeps ==
  ASSUME IInv, phase = "walk", NEW value \in Uint16, Decode(value)
  PROVE  IInv'
<1>1. ControlOK /\ WireOK /\ WalkOK /\ SentIsWhole BY DEF IInv, TypeOK
<1>a. /\ phase' = phase /\ sends' = sends /\ seq' = seq /\ result' = result
      /\ latched' = latched /\ pid' = pid /\ held' = held
  BY Zenon DEF Decode, packVars
<1>b. /\ line' = line /\ sent' = sent /\ told' = told /\ query' = query /\ owed' = owed
  BY Zenon DEF Decode, packVars
<1>c. buf' = buf /\ frame' = frame /\ at' = at + Width(Type) BY Zenon DEF Decode
<1>d. nonzero' \in BOOLEAN BY Zenon DEF Decode
<1>e. out' = IF Type \in Measurements THEN Set(Type, value) ELSE out BY Zenon DEF Decode
<1>2. ControlOK' BY <1>1, <1>a DEF ControlOK
<1>3. WireOK' BY <1>1, <1>b DEF WireOK
<1>4. WalkOK'
  <2>1. /\ buf \in Seq(Byte) /\ nonzero \in BOOLEAN
        /\ DOMAIN out \subseteq Measurements /\ \A t \in DOMAIN out : out[t] \in Uint16
        /\ frame \in Verified(buf) /\ at \in Nat /\ at >= Body(frame) /\ Body(frame) \in Nat
    <3>1. /\ buf \in Seq(Byte) /\ nonzero \in BOOLEAN
          /\ DOMAIN out \subseteq Measurements /\ \A t \in DOMAIN out : out[t] \in Uint16
          /\ frame \in Verified(buf) /\ at \in Nat /\ at >= Body(frame)
      BY <1>1 DEF WalkOK
    <3>2. frame \in Arrived(buf) BY <3>1 DEF Verified
    <3>3. frame \in Nat BY <3>1, <3>2, ArrivedFields
    <3> QED BY <3>1, <3>3 DEF Body, HeaderBytes
  <2>2. buf' = buf /\ frame' = frame /\ at' = at + Width(Type) BY <1>c
  <2>3. at' \in Nat /\ at' >= Body(frame') BY <2>1, <2>2 DEF Width
  <2>5. DOMAIN out' \subseteq Measurements /\ \A t \in DOMAIN out' : out'[t] \in Uint16
    <3>1. CASE Type \notin Measurements BY <1>e, <2>1, <3>1
    <3>2. CASE Type \in Measurements
      <4>1. out' = Set(Type, value) BY <1>e, <3>2
      <4>2. DOMAIN out' = DOMAIN out \cup {Type} BY <4>1 DEF Set
      <4>3. \A t \in DOMAIN out' : out'[t] = IF t = Type THEN value ELSE out[t]
        BY <4>1, <4>2 DEF Set
      <4> QED BY <2>1, <3>2, <4>2, <4>3
    <3> QED BY <3>1, <3>2
  <2> QED BY <1>d, <2>1, <2>2, <2>3, <2>5 DEF WalkOK
<1>5. SentIsWhole' BY <1>1, <1>b DEF SentIsWhole
<1> QED BY <1>2, <1>3, <1>4, <1>5 DEF IInv, TypeOK

LEMMA WalkKeeps == IInv /\ Walk => IInv'
<1> SUFFICES ASSUME IInv, Walk PROVE IInv' OBVIOUS
<1>1. ControlOK /\ WireOK /\ WalkOK /\ SentIsWhole BY DEF IInv, TypeOK
<1>2. ASSUME WalkCapacity PROVE IInv'
  <2>1. phase = "walk" /\ at + 2 < End /\ Decode(buf[at + 2]) BY <1>2 DEF WalkCapacity, More
  <2>2. buf[at + 2] \in Byte BY <1>1, <2>1, RecordIsInside
  <2>3. buf[at + 2] \in Uint16
    <3>1. buf[at + 2] \in Nat /\ buf[at + 2] <= 255 BY <2>2, ByteBounds
    <3>2. buf[at + 2] <= 65535 BY <3>1
    <3> QED BY <3>1, <3>2, SmallIsUint16
  <2> QED BY <2>1, <2>3, DecodeKeeps
<1>3. ASSUME WalkWord PROVE IInv'
  <2>1. phase = "walk" /\ at + 2 < End /\ at + 3 < End /\ Decode(Word(buf, at + 2, Flag(buf, frame)))
    BY <1>3 DEF WalkWord, More, Fits
  <2>2. buf[at + 2] \in Byte /\ buf[at + 3] \in Byte BY <1>1, <2>1, RecordIsInside
  <2>3. at \in Nat BY <1>1, <2>1 DEF WalkOK
  <2>4. Word(buf, at + 2, Flag(buf, frame)) \in
          {buf[at + 2] + 256 * buf[at + 3], 256 * buf[at + 2] + buf[at + 3]}
    <3>1. (at + 2) + 1 = at + 3 BY <2>3
    <3> QED BY <3>1 DEF Word
  <2>5. /\ buf[at + 2] \in Nat /\ buf[at + 2] <= 255 /\ buf[at + 3] \in Nat /\ buf[at + 3] <= 255
    BY <2>2, ByteBounds
  <2> DEFINE value == Word(buf, at + 2, Flag(buf, frame))
  <2>6. value \in Uint16
    <3>1. value \in Nat /\ value <= 65535 BY <2>4, <2>5
    <3> HIDE DEF value
    <3> QED BY <3>1, SmallIsUint16
  <2>7. Decode(value) BY <2>1
  <2> HIDE DEF value
  <2> QED BY <2>1, <2>6, <2>7, DecodeKeeps
<1>4. ASSUME WalkCut PROVE IInv'
  <2>1. ControlOK' BY <1>1, <1>4 DEF WalkCut, ControlOK, Parsed, packVars
  <2>2. WireOK'
    <3>1. <<>> \in Seq(Byte) OBVIOUS
    <3> QED BY <1>1, <1>4, <3>1 DEF WalkCut, WireOK, packVars
  <2>3. WalkOK' BY <1>4, NothingWalked DEF WalkCut
  <2>4. SentIsWhole' BY <1>1, <1>4 DEF WalkCut, SentIsWhole
  <2> QED BY <2>1, <2>2, <2>3, <2>4 DEF IInv, TypeOK
<1>5. ASSUME Judge PROVE IInv'
  <2>1. query # <<>> => Dest(query, 1) \in Byte
    <3> SUFFICES ASSUME query # <<>> PROVE Dest(query, 1) \in Byte OBVIOUS
    <3>1. query \in Seq(Byte) /\ Len(query) = 12 BY <1>1 DEF WireOK, MinFrame, HeaderBytes
    <3>2. query \in Seq(Byte) /\ Len(query) >= 6 BY <3>1
    <3>3. query[6] \in Byte BY <3>2
    <3>4. Dest(query, 1) = query[6] BY DEF Dest
    <3> QED BY <3>3, <3>4
  <2>2. pid' \in Byte /\ result' \in Parsed
    <3>1. pid \in Byte BY <1>1 DEF ControlOK
    <3> QED BY <1>5, <2>1, <3>1 DEF Judge, Verdict, Parsed
  <2>3. ControlOK' BY <1>1, <1>5, <2>2 DEF Judge, ControlOK, packVars
  <2>4. WireOK' BY <1>1, <1>5 DEF Judge, WireOK, packVars
  <2>5. WalkOK'
    <3>1. /\ DOMAIN out \subseteq Measurements /\ \A t \in DOMAIN out : out[t] \in Uint16
      BY <1>1 DEF WalkOK
    <3>2. <<>> \in Seq(Byte) /\ DOMAIN <<>> = {} OBVIOUS
    <3>3. out' \in {out, <<>>} /\ buf' = <<>> /\ nonzero' = FALSE /\ phase' # "walk"
      BY <1>5 DEF Judge
    <3>4. DOMAIN out' \subseteq Measurements /\ \A t \in DOMAIN out' : out'[t] \in Uint16
      <4>1. CASE out' = out BY <3>1, <4>1
      <4>2. CASE out' = <<>> BY <3>2, <4>2
      <4> QED BY <3>3, <4>1, <4>2
    <3> QED BY <3>2, <3>3, <3>4 DEF WalkOK
  <2>6. SentIsWhole' BY <1>1, <1>5 DEF Judge, SentIsWhole
  <2> QED BY <2>3, <2>4, <2>5, <2>6 DEF IInv, TypeOK
<1> QED BY <1>2, <1>3, <1>4, <1>5 DEF Walk

LEMMA PackKeeps == IInv /\ Pack => IInv'
<1> SUFFICES ASSUME IInv, Pack PROVE IInv' OBVIOUS
<1>1. ControlOK /\ WireOK /\ WalkOK /\ SentIsWhole BY DEF IInv, TypeOK
<1>2. phase \in {"await", "window"} BY DEF Pack
<1>3. ASSUME NEW f \in Seq(Byte), Talk(f), held' = held, told' \subseteq Seq(Byte),
             owed' \subseteq owed
      PROVE  IInv'
  <2>1. line' \in Seq(Byte)
    <3>1. line \in Seq(Byte) BY <1>1 DEF WireOK
    <3> QED BY <1>3, <3>1, Constants, TalkTyped
  <2>2. /\ phase' = phase /\ sends' = sends /\ seq' = seq /\ result' = result
        /\ latched' = latched /\ pid' = pid /\ sent' = sent /\ query' = query
    BY <1>3 DEF Talk
  <2>3. ControlOK' BY <1>1, <1>3, <2>2 DEF ControlOK
  <2>4. WireOK' BY <1>1, <1>3, <2>1, <2>2 DEF WireOK
  <2>5. WalkOK'
    <3>1. UNCHANGED <<buf, frame, at, out, nonzero>> /\ phase' # "walk"
      BY <1>2, <1>3, <2>2 DEF Talk, walkVars
    <3> QED BY <1>1, <3>1, WalkUndisturbed
  <2>6. SentIsWhole' BY <1>1, <2>2 DEF SentIsWhole
  <2> QED BY <2>3, <2>4, <2>5, <2>6 DEF IInv, TypeOK
<1>4. held \in Byte /\ told \subseteq Seq(Byte) BY <1>1 DEF ControlOK, WireOK
<1>5. /\ SendData \in Byte /\ DataPayload \in Byte /\ Provision \in Byte /\ Ver3 \in Byte
      /\ Req \in Byte /\ Rsp \in Byte /\ 0 \in Byte
  BY DEF SendData, DataPayload, Provision, Ver3, Req, Rsp, Byte
<1>6. ASSUME NEW flag \in {Req, Rsp}, NEW s \in Byte, NEW to, Report(flag, s, to),
             held' = held, told' = told, owed' \subseteq owed
      PROVE  IInv'
  <2>1. PICK r \in Reports : Talk(ReportFrame(flag, held, s, r)) BY <1>6 DEF Report
  <2>2. ReportBytes(r, flag) \in Seq(Byte) /\ Len(ReportBytes(r, flag)) <= 254
    BY ReportAssumption DEF ReportAssumption
  <2>3. ReportFrame(flag, held, s, r) \in Seq(Byte)
    BY <1>4, <1>5, <1>6, <2>2, PackFrameIsWhole DEF ReportFrame
  <2> QED BY <1>3, <1>4, <1>6, <2>1, <2>3
<1>7. ASSUME PackReplies PROVE IInv'
  <2>1. PICK q \in owed : /\ owed' = owed \ {q} /\ UNCHANGED <<held, told>>
                          /\ Report(Rsp, Sequence(q, 1), q)
    BY <1>7 DEF PackReplies
  <2>2. q \in Seq(Byte) /\ Len(q) = 12 BY <1>1 DEF WireOK, MinFrame, HeaderBytes
  <2>6. q \in Seq(Byte) /\ Len(q) >= 8 BY <2>2
  <2>3. q[8] \in Byte BY <2>6
  <2>4. Sequence(q, 1) = q[8] BY DEF Sequence
  <2>5. Sequence(q, 1) \in Byte BY <2>3, <2>4
  <2> QED BY <1>6, <2>1, <2>5
<1>8. ASSUME PackPushes PROVE IInv'
  <2>1. PICK s \in PackSeqs : Report(Req, s, <<>>) BY <1>8 DEF PackPushes
  <2>2. s \in Byte BY <2>1, Constants
  <2>3. UNCHANGED <<owed, held, told>> BY <1>8 DEF PackPushes
  <2> QED BY <1>6, <2>1, <2>2, <2>3
<1>9. ASSUME PackAnnounces PROVE IInv'
  <2>1. PICK n \in {ProvIdOffset, ProvIdOffset + 1}, s \in PackSeqs :
          LET body == [k \in 1..n |-> IF k = ProvIdOffset + 1 THEN held ELSE 0]
              f == PackFrame(Req, held, s, Provision, Ver3, body)
          IN told' = told \cup {f} /\ UNCHANGED <<owed, held, said>> /\ Talk(f)
    BY <1>9 DEF PackAnnounces
  <2> DEFINE body == [k \in 1..n |-> IF k = ProvIdOffset + 1 THEN held ELSE 0]
             f == PackFrame(Req, held, s, Provision, Ver3, body)
  <2>2. told' = told \cup {f} /\ owed' = owed /\ held' = held /\ Talk(f) BY <2>1
  <2>3. n \in Nat /\ n <= 254 /\ s \in Byte BY <2>1, Constants
  <2>4. body \in Seq(Byte) /\ Len(body) = n BY <1>4, <1>5, <2>3
  <2>5. Len(body) <= 254 BY <2>3, <2>4
  <2> HIDE DEF body
  <2>6. f \in Seq(Byte) BY <1>4, <1>5, <2>3, <2>4, <2>5, PackFrameIsWhole
  <2> HIDE DEF f
  <2>7. told' \subseteq Seq(Byte) BY <1>4, <2>2, <2>6
  <2> QED BY <1>3, <2>2, <2>6, <2>7
<1>10. ASSUME held' \in Byte,
              UNCHANGED <<phase, sends, seq, query, walkVars, result, pid, latched, sent, line>>,
              told' = told, owed' \subseteq owed
       PROVE  IInv'
  <2>1. ControlOK' BY <1>1, <1>10 DEF ControlOK
  <2>2. WireOK' BY <1>1, <1>10 DEF WireOK
  <2>3. WalkOK'
    <3>1. UNCHANGED <<buf, frame, at, out, nonzero>> /\ phase' # "walk"
      BY <1>2, <1>10 DEF walkVars
    <3> QED BY <1>1, <3>1, WalkUndisturbed
  <2>4. SentIsWhole' BY <1>1, <1>10 DEF SentIsWhole
  <2> QED BY <2>1, <2>2, <2>3, <2>4 DEF IInv, TypeOK
<1>11. ASSUME PackAdopts PROVE IInv'
  <2>1. 1 \in Arrived(sent) /\ ProvId(1) < Cksum(sent, 1) /\ held' = sent[ProvId(1)]
    BY <1>11 DEF PackAdopts, Verified
  <2>2. sent \in Seq(Byte) BY <1>1 DEF WireOK
  <2>3. Cksum(sent, 1) \in Nat /\ Cksum(sent, 1) <= Len(sent)
        /\ \A i \in 1..Len(sent) : sent[i] \in Byte
    BY <2>1, <2>2, ArrivedFields
  <2>4. ProvId(1) \in Nat /\ ProvId(1) >= 1 BY Constants DEF ProvId, Body, HeaderBytes
  <2>5. ProvId(1) \in 1..Len(sent) BY <2>1, <2>2, <2>3, <2>4
  <2>6. held' \in Byte BY <2>1, <2>3, <2>5
  <2> QED BY <1>10, <1>11, <2>6 DEF PackAdopts
<1>12. ASSUME PackResets PROVE IInv'
  <2>1. held' \in Byte BY <1>12 DEF PackResets, Broadcast, Byte
  <2> QED BY <1>10, <1>12, <2>1 DEF PackResets
<1> QED BY <1>7, <1>8, <1>9, <1>11, <1>12 DEF Pack

LEMMA OpenKeeps == IInv /\ OpenWindow => IInv'
<1> SUFFICES ASSUME IInv, OpenWindow PROVE IInv' OBVIOUS
<1>1. ControlOK /\ WireOK /\ SentIsWhole BY DEF IInv, TypeOK
<1>2. ControlOK' BY <1>1 DEF OpenWindow, ControlOK, Parsed
<1>3. line' \in Seq(Byte)
  <2>1. line \in Seq(Byte) /\ Flush BY <1>1 DEF WireOK, OpenWindow
  <2> QED BY <2>1, Constants, FlushTyped
<1>4. <<>> \in Seq(Byte) OBVIOUS
<1>5. WireOK' BY <1>1, <1>3, <1>4 DEF OpenWindow, WireOK
<1>6. WalkOK' BY NothingWalked DEF OpenWindow
<1>7. SentIsWhole' BY <1>1 DEF OpenWindow, SentIsWhole
<1> QED BY <1>2, <1>5, <1>6, <1>7 DEF IInv, TypeOK

LEMMA CloseKeeps == IInv /\ CloseWindow => IInv'
<1> SUFFICES ASSUME IInv, CloseWindow PROVE IInv' OBVIOUS
<1>1. ControlOK /\ WireOK /\ SentIsWhole BY DEF IInv, TypeOK
<1>2. ControlOK' BY <1>1 DEF CloseWindow, ControlOK
<1>3. line' \in Seq(Byte)
  <2>1. line \in Seq(Byte) /\ Flush BY <1>1 DEF WireOK, CloseWindow
  <2> QED BY <2>1, Constants, FlushTyped
<1>4. WireOK' BY <1>1, <1>3 DEF CloseWindow, WireOK
<1>5. WalkOK' BY NothingWalked DEF CloseWindow
<1>6. SentIsWhole' BY <1>1 DEF CloseWindow, SentIsWhole
<1> QED BY <1>2, <1>4, <1>5, <1>6 DEF IInv, TypeOK

\* Whatever is received in the window, the answer is a whole frame and the id a byte.
LEMMA AnswerIsWhole ==
  ASSUME NEW b \in Seq(Byte), Answerable(b) # {}, Answer(b)
  PROVE  /\ sent' \in Seq(Byte) /\ SentIsWhole'
         /\ latched' \in BOOLEAN /\ pid' \in Byte
         /\ phase' \in {phase, "latched"}
<1> DEFINE d == First(Answerable(b))
           r == SubSeq(Reply(b, d, ProvId(d)), d, Cksum(b, d))
<1>1. Answerable(b) \in SUBSET Nat
  <2>1. Answerable(b) \subseteq Arrived(b) BY DEF Answerable, Verified
  <2> QED BY <2>1, ArrivedFields
<1>2. d \in Answerable(b) BY <1>1, FirstIsMember
<1>3. sent' = r BY DEF Answer
<1>4. phase' \in {phase, "latched"} /\ latched' \in BOOLEAN BY DEF Answer
<1>5. pid' \in {Announced(b, d), Broadcast} BY DEF Answer
<1> HIDE DEF d
<1>6. Announced(b, d) \in Byte
  <2>1. d \in Arrived(b) /\ ProvId(d) < Cksum(b, d) BY <1>2 DEF Answerable, Verified
  <2>2. d \in Nat /\ d >= 1 /\ Cksum(b, d) \in Nat /\ Cksum(b, d) <= Len(b)
        /\ \A i \in 1..Len(b) : b[i] \in Byte
    BY <2>1, ArrivedFields
  <2>3. ProvId(d) \in Nat /\ ProvId(d) >= 1
    BY <2>2, Constants DEF ProvId, Body, HeaderBytes
  <2>4. ProvId(d) \in 1..Len(b) BY <2>1, <2>2, <2>3
  <2> QED BY <2>2, <2>4 DEF Announced
<1>7. pid' \in Byte BY <1>5, <1>6 DEF Broadcast, Byte
<1>8. /\ r \in Seq(Byte) /\ 1 \in Verified(r) /\ Cksum(r, 1) = Len(r)
      /\ Source(r, 1) = Master /\ ProvId(1) < Len(r) /\ r[ProvId(1)] = ProbeId
  BY <1>2, Constants, ReplyIsWhole
<1> HIDE DEF r
<1> QED BY <1>3, <1>4, <1>7, <1>8 DEF SentIsWhole

LEMMA WindowKeeps == IInv /\ WindowReceive => IInv'
<1> SUFFICES ASSUME IInv, WindowReceive PROVE IInv' OBVIOUS
<1>1. ControlOK /\ WireOK /\ WalkOK /\ SentIsWhole BY DEF IInv, TypeOK
<1>2. line \in Seq(Byte) /\ sent \in Seq(Byte) BY <1>1 DEF WireOK
<1>3. phase = "window" /\ latched \in BOOLEAN /\ pid \in Byte
  BY <1>1 DEF ControlOK, WindowReceive
<1>4. PICK h \in Heard :
        LET n == Stop(Capped(h))
            b == SubSeq(line, 1, n)
        IN /\ Take(n)
           /\ IF Answerable(b) = {} THEN UNCHANGED <<sent, latched, pid, phase>> ELSE Answer(b)
  BY DEF WindowReceive
<1> DEFINE n == Stop(Capped(h))
           b == SubSeq(line, 1, n)
<1>5. Take(n) /\ IF Answerable(b) = {} THEN UNCHANGED <<sent, latched, pid, phase>> ELSE Answer(b)
  BY <1>4
<1>6. n \in Nat /\ n <= Len(line)
  <2>1. Capped(h) \in Nat /\ Capped(h) <= Len(line) BY <1>2, Constants, HeardIsThere
  <2>2. Stop(Capped(h)) \in Nat /\ Stop(Capped(h)) <= Capped(h) BY <2>1, StopIsThere
  <2> QED BY <1>2, <2>1, <2>2
<1>7. b \in Seq(Byte) /\ line' \in Seq(Byte) BY <1>2, <1>5, <1>6, Pieces DEF Take
<1> HIDE DEF b, n
<1>8. /\ sent' \in Seq(Byte) /\ SentIsWhole'
      /\ latched' \in BOOLEAN /\ pid' \in Byte
      /\ phase' \in {phase, "latched"}
  <2>1. CASE Answerable(b) = {} BY <1>1, <1>2, <1>3, <1>5, <2>1 DEF SentIsWhole
  <2>2. CASE Answerable(b) # {} BY <1>5, <1>7, <2>2, AnswerIsWhole
  <2> QED BY <2>1, <2>2
<1>9. UNCHANGED <<sends, seq, query, walkVars, result, owed, held, said, told>>
  BY DEF WindowReceive
<1>10. ControlOK' BY <1>1, <1>3, <1>8, <1>9 DEF ControlOK
<1>11. WireOK' BY <1>1, <1>7, <1>8, <1>9 DEF WireOK
<1>12. WalkOK'
  <2>1. UNCHANGED <<buf, frame, at, out, nonzero>> /\ phase' # "walk"
    BY <1>3, <1>8, <1>9 DEF walkVars
  <2> QED BY <1>1, <2>1, WalkUndisturbed
<1> QED BY <1>8, <1>10, <1>11, <1>12 DEF IInv, TypeOK

LEMMA StutterKeeps == IInv /\ UNCHANGED vars => IInv'
<1> SUFFICES ASSUME IInv, UNCHANGED vars PROVE IInv' OBVIOUS
<1>1. ControlOK /\ WireOK /\ WalkOK /\ SentIsWhole BY DEF IInv, TypeOK
<1>2. ControlOK' BY <1>1 DEF vars, packVars, ControlOK
<1>3. WireOK' BY <1>1 DEF vars, packVars, WireOK
<1>4. SentIsWhole' BY <1>1 DEF vars, SentIsWhole
<1>5. WalkOK'
  <2>1. buf' = buf /\ frame' = frame /\ at' = at /\ out' = out /\ nonzero' = nonzero
        /\ phase' = phase
    BY DEF vars, walkVars
  <2> QED BY <1>1, <2>1 DEF WalkOK
<1> QED BY <1>2, <1>3, <1>4, <1>5 DEF IInv, TypeOK

LEMMA Inductive == Spec => []IInv
<1>1. IInv /\ [Next]_vars => IInv'
  BY BeginKeeps, QueryKeeps, ListenKeeps, SendBootKeeps, ReceiveKeeps, WalkKeeps,
     OpenKeeps, WindowKeeps, CloseKeeps, PackKeeps, StutterKeeps DEF Next
<1> QED BY InitHolds, <1>1, PTL DEF Spec

\* Every variable has its type; in particular the record walk of battery_decode_frame()
\* stays inside a frame whose lengths and checksum were verified, whatever bytes came.
THEOREM TypeCorrect == Spec => []TypeOK
<1>1. IInv => TypeOK BY DEF IInv
<1> QED BY Inductive, <1>1, PTL

\* Whatever bytes came, what the master sends is one frame its peer's checks accept; the
\* answer provision() builds in place assigns kProbeId and carries a checksum that holds
\* for the bytes it rewrote.
THEOREM SentFramesVerify == Spec => []SentIsWhole
<1>1. IInv => SentIsWhole BY DEF IInv
<1> QED BY Inductive, <1>1, PTL

(***************************************************************************)
(* What the master has heard, while nothing on the line is forged           *)
(***************************************************************************)

\* What needs no hypothesis about the line: which frame a query is, that announcements
\* are nothing else, and that nothing is concluded before a reply is judged.
Asked ==
  /\ query # <<>> => query = Request(Dest(query, 1), Sequence(query, 1), SendData, DataPayload)
  /\ \A a \in told : HubType(a, 1) = Provision
  /\ phase # "idle" => result = "none"
  /\ phase = "await" => out = <<>> /\ nonzero = FALSE

LEMMA InitAsked == Init => Asked
BY DEF Init, Asked

LEMMA QueryIsRequest ==
  ASSUME IInv, Query
  PROVE  query' = Request(Dest(query', 1), Sequence(query', 1), SendData, DataPayload)
<1>1. ControlOK BY DEF IInv, TypeOK
<1>2. PICK dest \in {ProbeId, Broadcast, pid} : Send(dest, SendData, DataPayload) BY DEF Query
<1>3. dest \in Byte /\ SendData \in Byte /\ DataPayload \in Byte
  <2>1. pid \in Byte BY <1>1 DEF ControlOK
  <2> QED BY <2>1 DEF ProbeId, Broadcast, SendData, DataPayload, Byte
<1>4. seq' \in 0..(SeqRange - 1) BY <1>1, <1>2, <1>3, SendKeeps
<1>5. seq' \in Byte BY <1>4, Constants, SmallIsByte
<1> DEFINE c == Request(dest, seq', SendData, DataPayload)
<1>6. Dest(c, 1) = dest /\ Sequence(c, 1) = seq' BY <1>3, <1>5, RequestIsWhole
<1>7. query' = c BY <1>2 DEF Query, Send
<1> HIDE DEF c
<1>8. Dest(query', 1) = dest /\ Sequence(query', 1) = seq' BY <1>6, <1>7
<1> QED BY <1>7, <1>8 DEF c

LEMMA AskedKept == IInv /\ Asked /\ [Next]_vars => Asked'
<1> SUFFICES ASSUME IInv, Asked, [Next]_vars PROVE Asked' OBVIOUS
<1>0. ControlOK /\ WireOK /\ WalkOK BY DEF IInv, TypeOK
<1>1. CASE Begin BY <1>1 DEF Begin, Asked
<1>2. CASE Query
  <2>1. query' = Request(Dest(query', 1), Sequence(query', 1), SendData, DataPayload)
    BY <1>2, QueryIsRequest
  <2>2. result' = "none" /\ out' = <<>> /\ nonzero' = FALSE /\ told' = told
    BY <1>2 DEF Query, NoWalk
  <2> QED BY <2>1, <2>2 DEF Asked
<1>3. CASE Listen BY <1>3 DEF Listen, NoWalk, packVars, Asked
<1>4. CASE SendBoot BY <1>4 DEF SendBoot, walkVars, packVars, Asked
<1>5. CASE Receive
  <2>1. PICK h \in Heard : Parse(SubSeq(line, 1, Capped(h))) BY <1>5 DEF Receive
  <2>2. phase' \in {"idle", "walk"} /\ query' \in {query, <<>>} /\ phase = "await" /\ told' = told
    BY <1>5, <2>1 DEF Parse, Receive
  <2>3. phase' = "walk" => result' = result BY <2>1 DEF Parse
  <2> QED BY <2>2, <2>3 DEF Asked
<1>6. CASE Walk
  <2>1. ASSUME NEW value, phase = "walk", Decode(value) PROVE Asked'
    <3>1. phase' = phase /\ query' = query /\ result' = result /\ told' = told
      BY <2>1, Zenon DEF Decode, packVars
    <3> QED BY <2>1, <3>1 DEF Asked
  <2>2. CASE WalkCapacity BY <2>1, <2>2 DEF WalkCapacity
  <2>3. CASE WalkWord BY <2>1, <2>3 DEF WalkWord
  <2>4. CASE WalkCut BY <2>4 DEF WalkCut, packVars, Asked
  <2>5. CASE Judge
    <3>1. phase' = "idle" /\ query' = query /\ told' = told BY <2>5, Zenon DEF Judge, packVars
    <3> QED BY <3>1 DEF Asked
  <2> QED BY <1>6, <2>2, <2>3, <2>4, <2>5 DEF Walk
<1>7. CASE OpenWindow BY <1>7 DEF OpenWindow, Asked
<1>8. CASE WindowReceive
  <2>1. phase' \in {"window", "latched"} BY <1>8 DEF WindowReceive, Answer
  <2>2. query' = query /\ told' = told /\ result' = result /\ phase = "window"
    BY <1>8 DEF WindowReceive
  <2> QED BY <2>1, <2>2 DEF Asked
<1>9. CASE CloseWindow BY <1>9 DEF CloseWindow, Asked
<1>10. CASE Pack
  <2>1. ASSUME \A a \in told' : HubType(a, 1) = Provision,
               UNCHANGED <<phase, query, result, out, nonzero>>
        PROVE  Asked'
    BY <2>1 DEF Asked
  <2>2. ASSUME NEW flag, NEW s, NEW to, Report(flag, s, to), told' = told PROVE Asked'
    <3>1. UNCHANGED <<phase, query, result, out, nonzero>>
      BY <2>2, Zenon DEF Report, Talk, walkVars
    <3> QED BY <2>1, <2>2, <3>1 DEF Asked
  <2>3. CASE PackReplies BY <2>2, <2>3, Zenon DEF PackReplies
  <2>4. CASE PackPushes BY <2>2, <2>4, Zenon DEF PackPushes
  <2>5. CASE PackAnnounces
    <3>1. PICK n \in {ProvIdOffset, ProvIdOffset + 1}, s \in PackSeqs :
            LET body == [k \in 1..n |-> IF k = ProvIdOffset + 1 THEN held ELSE 0]
                f == PackFrame(Req, held, s, Provision, Ver3, body)
            IN told' = told \cup {f} /\ Talk(f)
      BY <2>5 DEF PackAnnounces
    <3> DEFINE body == [k \in 1..n |-> IF k = ProvIdOffset + 1 THEN held ELSE 0]
               f == PackFrame(Req, held, s, Provision, Ver3, body)
    <3>2. told' = told \cup {f} /\ Talk(f) BY <3>1
    <3>3. n \in Nat /\ n <= 254 /\ s \in Byte BY <3>1, Constants
    <3>4. /\ held \in Byte /\ Provision \in Byte /\ Ver3 \in Byte /\ Req \in Byte
          /\ 0 \in Byte
      BY <1>0 DEF ControlOK, Provision, Ver3, Req, Byte
    <3>5. body \in Seq(Byte) /\ Len(body) = n BY <3>3, <3>4
    <3>6. Len(body) <= 254 BY <3>3, <3>5
    <3> HIDE DEF body
    <3>7. HubType(f, 1) = Provision BY <3>3, <3>4, <3>5, <3>6, PackFrameIsWhole
    <3> HIDE DEF f
    <3>8. UNCHANGED <<phase, query, result, out, nonzero>> BY <3>2 DEF Talk, walkVars
    <3> QED BY <2>1, <3>2, <3>7, <3>8 DEF Asked
  <2>6. CASE PackAdopts BY <2>1, <2>6 DEF PackAdopts, walkVars, Asked
  <2>7. CASE PackResets BY <2>1, <2>7 DEF PackResets, walkVars, Asked
  <2> QED BY <1>10, <2>3, <2>4, <2>5, <2>6, <2>7 DEF Pack
<1>11. CASE UNCHANGED vars BY <1>11 DEF vars, walkVars, packVars, Asked
<1> QED BY <1>1, <1>2, <1>3, <1>4, <1>5, <1>6, <1>7, <1>8, <1>9, <1>10, <1>11 DEF Next

\* A frame verified in what has been received is verified on the line it came from.
LEMMA PrefixVerifies ==
  ASSUME NEW l \in Seq(Byte), NEW n \in Nat, n <= Len(l), NEW d \in Verified(SubSeq(l, 1, n))
  PROVE  LET b == SubSeq(l, 1, n)
         IN /\ d \in Verified(l) /\ Cksum(l, d) = Cksum(b, d)
            /\ b \in Seq(Byte) /\ Len(b) = n /\ \A i \in 1..n : b[i] = l[i]
<1> DEFINE b == SubSeq(l, 1, n)
<1>1. b \in Seq(Byte) /\ Len(b) = n BY Pieces
<1>2. \A i \in 1..n : b[i] = l[i]
  <2>1. \A i \in 1..n : l[i] \in Byte OBVIOUS
  <2>2. \A i \in 1..n : b[i] = l[1 + i - 1] BY <2>1, SubSeqProperties
  <2> QED BY <2>2
<1>3. d \in Verified(b) OBVIOUS
<1> HIDE DEF b
<1>4. d \in Arrived(b) /\ d \notin Damaged(b) /\ LengthsAgree(b, d) BY <1>3 DEF Verified
<1>5. /\ d \in Nat /\ d >= 1 /\ d + 10 <= n
      /\ PayloadLen(b, d) \in Nat /\ PayloadLen(b, d) >= 6
      /\ Cksum(b, d) = d + 5 + PayloadLen(b, d) /\ Cksum(b, d) \in Nat
      /\ d + 11 <= Cksum(b, d) /\ Cksum(b, d) <= n
  BY <1>1, <1>4, ArrivedFields
<1>6. b[d] = Delimiter /\ b[d + 3] = SensorHub BY <1>4 DEF Arrived, Candidates
<1>7. \A i \in 0..10 : d + i \in 1..n BY <1>5
<1>8. \A i \in 0..10 : b[d + i] = l[d + i] BY <1>2, <1>7
<1>9. /\ b[d + 0] = l[d + 0] /\ b[d + 1] = l[d + 1] /\ b[d + 2] = l[d + 2]
      /\ b[d + 3] = l[d + 3] /\ b[d + 9] = l[d + 9]
  BY <1>8
<1>10. PayloadLen(l, d) = PayloadLen(b, d) BY <1>9 DEF PayloadLen
<1>11. Cksum(l, d) = Cksum(b, d) BY <1>10 DEF Cksum
<1>12. d \in Candidates(l)
  <2>1. Len(l) \in Nat /\ d \in 1..(Len(l) - 4 - 6) BY <1>5
  <2>2. l[d] = Delimiter /\ l[d + 3] = SensorHub BY <1>5, <1>6, <1>9
  <2> QED BY <1>5, <1>10, <2>1, <2>2 DEF Candidates, HeaderBytes
<1>13. d \notin Truncated(l)
  <2>1. ~(Cksum(l, d) > Len(l)) BY <1>5, <1>11
  <2> QED BY <2>1 DEF Truncated
<1>14. Checksum(l, d) = Checksum(b, d)
  <2>1. \A i \in (d + 3)..(Cksum(b, d) - 1) : i \in 1..n BY <1>5
  <2>2. \A i \in (d + 3)..(Cksum(b, d) - 1) : b[i] = l[i] BY <1>2, <2>1
  <2>3. {{i} \X Bits[b[i]] : i \in (d + 3)..(Cksum(b, d) - 1)}
          = {{i} \X Bits[l[i]] : i \in (d + 3)..(Cksum(b, d) - 1)}
    BY <2>2
  <2>4. BitsSet(b, d) = BitsSet(l, d) BY <1>11, <2>3 DEF BitsSet
  <2> QED BY <2>4 DEF Checksum
<1>15. l[Cksum(l, d)] = Checksum(l, d)
  <2>1. b[Cksum(b, d)] = Checksum(b, d) BY <1>4 DEF Damaged
  <2>2. Cksum(b, d) \in 1..n BY <1>5
  <2> QED BY <1>2, <1>11, <1>14, <2>1, <2>2
<1>16. LengthsAgree(l, d)
  BY <1>4, <1>9, <1>10 DEF LengthsAgree, HubLen
<1>17. d \in Verified(l)
  <2>1. d \in Arrived(l) BY <1>12, <1>13 DEF Arrived
  <2>2. d \notin Damaged(l) BY <1>15 DEF Damaged
  <2> QED BY <1>16, <2>1, <2>2 DEF Verified
<1> QED BY <1>1, <1>2, <1>11, <1>17 DEF b

\* What passes the checks in a buffer just received is, byte for byte, a frame the pack
\* has sent in this read.
LEMMA WhatIsHeard ==
  ASSUME NoForgery, line \in Seq(Byte), NEW n \in Nat, n <= Len(line),
         NEW d \in Verified(SubSeq(line, 1, n))
  PROVE  LET b == SubSeq(line, 1, n)
             c == Cut(line, d)
         IN /\ c \in told \/ Reported(c)
            /\ c \in Seq(Byte) /\ Len(c) \in Nat /\ Cksum(b, d) = d + Len(c) - 1
            /\ Cksum(c, 1) = Len(c) /\ Len(c) >= 12
            /\ d \in Nat /\ d >= 1
            /\ \A k \in 1..Len(c) : c[k] = b[d + k - 1]
            /\ Flag(c, 1) = Flag(b, d) /\ Source(c, 1) = Source(b, d)
            /\ Sequence(c, 1) = Sequence(b, d) /\ HubType(c, 1) = HubType(b, d)
<1> DEFINE b == SubSeq(line, 1, n)
           c == Cut(line, d)
<1>1. /\ d \in Verified(line) /\ Cksum(line, d) = Cksum(b, d)
      /\ b \in Seq(Byte) /\ Len(b) = n /\ \A i \in 1..n : b[i] = line[i]
  BY PrefixVerifies
<1>2. d \in Verified(b) OBVIOUS
<1> HIDE DEF b
<1>3. c \in told \/ Reported(c) BY <1>1 DEF NoForgery
<1>4. d \in Arrived(line) /\ d \in Arrived(b) BY <1>1, <1>2 DEF Verified
<1>5. /\ d \in Nat /\ d >= 1 /\ PayloadLen(line, d) \in Nat /\ PayloadLen(line, d) >= 6
      /\ Cksum(line, d) \in Nat /\ Cksum(line, d) <= Len(line) /\ d + 11 <= Cksum(line, d)
  BY <1>4, ArrivedFields
<1>6. Cksum(b, d) <= n BY <1>1, <1>4, ArrivedFields
<1>7. /\ c \in Seq(Byte) /\ Len(c) = Cksum(line, d) - d + 1
      /\ \A k \in 1..Len(c) : c[k] = line[d + k - 1]
      /\ Cksum(c, 1) = Len(c)
  BY <1>5, ChecksumMoves DEF Cut
<1> HIDE DEF c
<1>8. Len(c) \in Nat /\ Len(c) >= 12 /\ Cksum(b, d) = d + Len(c) - 1
  <2>1. /\ Len(c) = Cksum(b, d) - d + 1 /\ Cksum(b, d) \in Nat /\ d + 11 <= Cksum(b, d)
    BY <1>1, <1>5, <1>7
  <2> QED BY <1>5, <2>1
<1>9. ASSUME NEW k \in 1..Len(c) PROVE c[k] = b[d + k - 1]
  <2>1. d + k - 1 \in 1..n BY <1>5, <1>6, <1>8
  <2> QED BY <1>1, <1>7, <2>1
<1>10. /\ c[5] = b[d + 4] /\ c[7] = b[d + 6] /\ c[8] = b[d + 7] /\ c[9] = b[d + 8]
  <2>1. /\ 5 \in 1..Len(c) /\ 7 \in 1..Len(c) /\ 8 \in 1..Len(c) /\ 9 \in 1..Len(c) BY <1>8
  <2>2. /\ d + 5 - 1 = d + 4 /\ d + 7 - 1 = d + 6 /\ d + 8 - 1 = d + 7 /\ d + 9 - 1 = d + 8 BY <1>5
  <2>3. c[5] = b[d + 5 - 1] /\ c[7] = b[d + 7 - 1] /\ c[8] = b[d + 8 - 1] /\ c[9] = b[d + 9 - 1]
    BY <1>9, <2>1
  <2> QED BY <2>2, <2>3
<1>11. /\ Flag(c, 1) = Flag(b, d) /\ Source(c, 1) = Source(b, d)
       /\ Sequence(c, 1) = Sequence(b, d) /\ HubType(c, 1) = HubType(b, d)
  BY <1>10 DEF Flag, Source, Sequence, HubType
<1> QED BY <1>3, <1>5, <1>7, <1>8, <1>9, <1>11 DEF b, c

LEMMA SendDataFrame ==
  ASSUME NEW flag \in Byte, NEW source \in Byte, NEW s \in Byte, NEW body \in Seq(Byte),
         Len(body) <= 254
  PROVE  LET c == PackFrame(flag, source, s, SendData, DataPayload, body)
         IN Len(c) = 12 + Len(body) /\ HubType(c, 1) = SendData /\ Carries(c, body)
<1>1. SendData \in Byte /\ DataPayload \in Byte BY DEF SendData, DataPayload, Byte
<1> QED BY <1>1, PackFrameIsWhole

LEMMA ReportFrameIsWhole ==
  ASSUME NEW flag \in Byte, flag \in {Req, Rsp}, NEW source \in Byte, NEW s \in Byte,
         NEW r \in Reports
  PROVE  LET c == ReportFrame(flag, source, s, r)
         IN /\ Len(c) = 12 + Len(ReportBytes(r, flag)) /\ HubType(c, 1) = SendData
            /\ Carries(c, ReportBytes(r, flag))
<1>1. PICK body \in Seq(Byte) : body = ReportBytes(r, flag) /\ Len(body) <= 254
  BY ReportAssumption DEF ReportAssumption
<1> DEFINE c == PackFrame(flag, source, s, SendData, DataPayload, body)
<1>2. Len(c) = 12 + Len(body) /\ HubType(c, 1) = SendData /\ Carries(c, body)
  BY <1>1, SendDataFrame
<1>3. ReportFrame(flag, source, s, r) = c BY <1>1 DEF ReportFrame
<1> HIDE DEF c
<1> QED BY <1>1, <1>2, <1>3

\* The frame of a report carries its bytes.
LEMMA ReportedFrame ==
  ASSUME NEW f \in Seq(Byte), Len(f) >= 12, Flag(f, 1) \in {Req, Rsp}, Reported(f)
  PROVE  /\ HubType(f, 1) = SendData
         /\ \E r \in Reports :
              /\ Len(f) = 12 + Len(ReportBytes(r, Flag(f, 1)))
              /\ Carries(f, ReportBytes(r, Flag(f, 1)))
              /\ Said(IF Flag(f, 1) = Rsp
                      THEN Request(Source(f, 1), Sequence(f, 1), SendData, DataPayload)
                      ELSE <<>>, r) \in said
<1>1. PICK r \in Reports :
        /\ f = ReportFrame(Flag(f, 1), Source(f, 1), Sequence(f, 1), r)
        /\ Said(IF Flag(f, 1) = Rsp
                THEN Request(Source(f, 1), Sequence(f, 1), SendData, DataPayload)
                ELSE <<>>, r) \in said
  BY Zenon DEF Reported
<1>2. Source(f, 1) \in Byte /\ Sequence(f, 1) \in Byte
  <2>1. f[7] \in Byte /\ f[8] \in Byte OBVIOUS
  <2> QED BY <2>1 DEF Source, Sequence
<1> DEFINE fl == Flag(f, 1)
           src == Source(f, 1)
           sq == Sequence(f, 1)
           c == ReportFrame(fl, src, sq, r)
<1>3. f = c /\ fl \in {Req, Rsp} /\ src \in Byte /\ sq \in Byte BY <1>1, <1>2
<1>4. fl \in Byte BY <1>3 DEF Req, Rsp, Byte
<1> HIDE DEF fl, src, sq
<1>5. /\ Len(c) = 12 + Len(ReportBytes(r, fl)) /\ HubType(c, 1) = SendData
      /\ Carries(c, ReportBytes(r, fl))
  BY <1>3, <1>4, ReportFrameIsWhole
<1> HIDE DEF c
<1> QED BY <1>1, <1>3, <1>5, Zenon DEF fl

(* The window *)

LEMMA AnnouncementWasTold ==
  ASSUME NoForgery, Asked, line \in Seq(Byte), NEW n \in Nat, n <= Len(line),
         NEW d \in Answerable(SubSeq(line, 1, n))
  PROVE  Cut(line, d) \in told
<1> DEFINE b == SubSeq(line, 1, n)
           c == Cut(line, d)
<1>1. d \in Verified(b) /\ HubType(b, d) = Provision /\ Flag(b, d) = Req
  BY DEF Answerable, Announces
<1>2. /\ c \in told \/ Reported(c)
      /\ c \in Seq(Byte) /\ Len(c) >= 12
      /\ Flag(c, 1) = Flag(b, d) /\ HubType(c, 1) = HubType(b, d)
  BY <1>1, WhatIsHeard
<1> HIDE DEF b, c
<1>3. Flag(c, 1) \in {Req, Rsp} /\ HubType(c, 1) # SendData
  BY <1>1, <1>2 DEF Provision, SendData
<1>4. ~Reported(c) BY <1>2, <1>3, ReportedFrame
<1> QED BY <1>2, <1>4 DEF c

LEMMA AnsweredWasTold ==
  ASSUME NoForgery, IInv, Asked, LatchIsAnnounced, ReplyAssigns, WindowReceive
  PROVE  LatchIsAnnounced' /\ ReplyAssigns'
<1>1. line \in Seq(Byte) BY DEF IInv, TypeOK, WireOK
<1>2. PICK h \in Heard :
        LET n == Stop(Capped(h))
            b == SubSeq(line, 1, n)
        IN /\ Take(n)
           /\ IF Answerable(b) = {} THEN UNCHANGED <<sent, latched, pid, phase>> ELSE Answer(b)
  BY DEF WindowReceive
<1> DEFINE n == Stop(Capped(h))
           b == SubSeq(line, 1, n)
<1>3. IF Answerable(b) = {} THEN UNCHANGED <<sent, latched, pid, phase>> ELSE Answer(b)
  BY <1>2
<1>4. n \in Nat /\ n <= Len(line)
  <2>1. Capped(h) \in Nat /\ Capped(h) <= Len(line) BY <1>1, Constants, HeardIsThere
  <2>2. Stop(Capped(h)) \in Nat /\ Stop(Capped(h)) <= Capped(h) BY <2>1, StopIsThere
  <2> QED BY <1>1, <2>1, <2>2
<1> HIDE DEF n
<1>5. told' = told /\ phase = "window" BY DEF WindowReceive
<1>6. CASE Answerable(b) = {}
  <2>1. sent' = sent /\ pid' = pid /\ phase' = phase BY <1>3, <1>6
  <2> QED BY <1>5, <2>1 DEF LatchIsAnnounced, ReplyAssigns
<1>7. CASE Answerable(b) # {}
  <2> DEFINE d == First(Answerable(b))
             c == Cut(line, d)
             r == SubSeq(Reply(b, d, ProvId(d)), d, Cksum(b, d))
  <2>1. /\ sent' = r
        /\ latched' = (Announced(b, d) \notin {Broadcast, Master})
        /\ pid' = IF latched' THEN Announced(b, d) ELSE Broadcast
        /\ phase' = IF latched' THEN "latched" ELSE phase
    BY <1>3, <1>7 DEF Answer
  <2>2. b \in Seq(Byte) BY <1>1, <1>4, Pieces
  <2>3. d \in Answerable(b)
    <3>1. Answerable(b) \subseteq Arrived(b) BY DEF Answerable, Verified
    <3>2. Answerable(b) \in SUBSET Nat
      <4> HIDE DEF b
      <4> QED BY <2>2, <3>1, ArrivedFields
    <3> QED BY <1>7, <3>2, FirstIsMember
  <2> HIDE DEF d
  <2>4. d \in Verified(b) /\ ProvId(d) < Cksum(b, d) BY <2>3 DEF Answerable
  <2>5. c \in told BY <1>1, <1>4, <2>3, AnnouncementWasTold
  <2>6. /\ c \in Seq(Byte) /\ Len(c) \in Nat /\ Cksum(b, d) = d + Len(c) - 1
        /\ Cksum(c, 1) = Len(c) /\ Len(c) >= 12
        /\ d \in Nat /\ d >= 1
        /\ \A k \in 1..Len(c) : c[k] = b[d + k - 1]
        /\ Source(c, 1) = Source(b, d)
    BY <1>1, <1>4, <2>4, WhatIsHeard
  <2>7. /\ r \in Seq(Byte) /\ Len(r) = Cksum(b, d) - d + 1 /\ Len(r) >= 12
        /\ 1 \in Verified(r) /\ Cksum(r, 1) = Len(r)
        /\ Dest(r, 1) = Source(b, d) /\ Source(r, 1) = Master
        /\ r[ProvId(1)] = ProbeId
        /\ \A k \in 1..Len(r) \ {5, 6, 7, ProvId(1), Len(r)} : r[k] = b[d + k - 1]
    BY <2>2, <2>3, Constants, ReplyIsWhole
  <2> HIDE DEF c, r, b
  <2>8. Len(r) = Len(c) BY <2>6, <2>7
  <2>9. \A k \in 1..Len(c) \ {5, 6, 7, ProvId(1), Len(c)} : r[k] = c[k] BY <2>6, <2>7, <2>8
  <2>10. ReplyAssigns' BY <1>5, <2>1, <2>5, <2>6, <2>7, <2>8, <2>9 DEF ReplyAssigns
  <2>11. LatchIsAnnounced'
    <3>1. ProvId(1) = ProvId(d) - d + 1 /\ ProvId(1) \in Nat /\ ProvId(1) >= 1
          /\ d + ProvId(1) - 1 = ProvId(d)
      BY <2>6, Constants DEF ProvId, Body, HeaderBytes
    <3>2. ProvId(1) < Len(c) BY <2>4, <2>6, <3>1
    <3>3. c[ProvId(1)] = Announced(b, d)
      <4>1. ProvId(1) \in 1..Len(c) BY <2>6, <3>1, <3>2
      <4>2. c[ProvId(1)] = b[d + ProvId(1) - 1] BY <2>6, <4>1
      <4> QED BY <3>1, <4>2 DEF Announced
    <3> QED BY <1>5, <2>1, <2>5, <2>6, <3>2, <3>3 DEF LatchIsAnnounced
  <2> QED BY <2>10, <2>11
<1> QED BY <1>6, <1>7

\* No other step adds a response or latches, and none forgets an announcement in between.
LEMMA AnswersKept ==
  ASSUME NoForgery, IInv, Asked, LatchIsAnnounced, ReplyAssigns, [Next]_vars
  PROVE  LatchIsAnnounced' /\ ReplyAssigns'
<1>0. ControlOK /\ WireOK BY DEF IInv, TypeOK
<1>1. CASE Begin BY <1>1 DEF Begin, LatchIsAnnounced, ReplyAssigns
<1>2. ASSUME NEW dest \in Byte, NEW type \in Byte, NEW payloadType \in Byte,
             Send(dest, type, payloadType), phase' # "latched"
      PROVE  LatchIsAnnounced' /\ ReplyAssigns'
  <2>1. seq' \in 0..(SeqRange - 1) BY <1>0, <1>2, SendKeeps
  <2>2. seq' \in Byte BY <2>1, Constants, SmallIsByte
  <2>3. Flag(sent', 1) # Rsp BY <1>2, <2>2, RequestIsWhole DEF Send
  <2> QED BY <1>2, <2>3 DEF LatchIsAnnounced, ReplyAssigns
<1>3. CASE Query
  <2>1. PICK dest \in {ProbeId, Broadcast, pid} : Send(dest, SendData, DataPayload)
    BY <1>3 DEF Query
  <2>2. dest \in Byte /\ SendData \in Byte /\ DataPayload \in Byte
    <3>1. pid \in Byte BY <1>0 DEF ControlOK
    <3> QED BY <3>1 DEF ProbeId, Broadcast, SendData, DataPayload, Byte
  <2>3. phase' # "latched" BY <1>3 DEF Query
  <2> QED BY <1>2, <2>1, <2>2, <2>3
<1>4. CASE SendBoot
  <2>1. Send(Broadcast, Provision, Boot) /\ phase' # "latched" BY <1>4 DEF SendBoot
  <2>2. Broadcast \in Byte /\ Provision \in Byte /\ Boot \in Byte
    BY DEF Broadcast, Provision, Boot, Byte
  <2> QED BY <1>2, <2>1, <2>2
<1>5. ASSUME sent' = sent, told \subseteq told', phase' # "latched"
      PROVE  LatchIsAnnounced' /\ ReplyAssigns'
  BY <1>5 DEF LatchIsAnnounced, ReplyAssigns
<1>6. CASE Listen BY <1>5, <1>6 DEF Listen, packVars
<1>7. CASE Receive
  <2>1. PICK h \in Heard : Parse(SubSeq(line, 1, Capped(h))) BY <1>7 DEF Receive
  <2>2. phase' \in {"idle", "walk"} BY <2>1 DEF Parse
  <2> QED BY <1>5, <1>7, <2>2 DEF Receive
<1>8. CASE Walk
  <2>1. sent' = sent /\ told' = told /\ phase' \in {"walk", "idle"}
    BY <1>8, Zenon DEF Walk, WalkCapacity, WalkWord, WalkCut, Judge, Decode, packVars
  <2> QED BY <1>5, <2>1
<1>9. CASE OpenWindow BY <1>5, <1>9 DEF OpenWindow
<1>10. CASE CloseWindow BY <1>5, <1>10 DEF CloseWindow
<1>11. CASE Pack
  <2>1. phase # "latched" BY <1>11 DEF Pack
  <2>2. phase' = phase /\ sent' = sent /\ told \subseteq told'
    <3>1. CASE PackReplies BY <3>1, Zenon DEF PackReplies, Report, Talk
    <3>2. CASE PackPushes BY <3>2, Zenon DEF PackPushes, Report, Talk
    <3>3. CASE PackAnnounces BY <3>3 DEF PackAnnounces, Talk
    <3>4. CASE PackAdopts BY <3>4 DEF PackAdopts
    <3>5. CASE PackResets BY <3>5 DEF PackResets
    <3> QED BY <1>11, <3>1, <3>2, <3>3, <3>4, <3>5 DEF Pack
  <2> QED BY <1>5, <2>1, <2>2
<1>12. CASE WindowReceive BY <1>12, AnsweredWasTold
<1>13. CASE UNCHANGED vars BY <1>13 DEF vars, packVars, LatchIsAnnounced, ReplyAssigns
<1> QED BY <1>1, <1>3, <1>4, <1>6, <1>7, <1>8, <1>9, <1>10, <1>11, <1>12, <1>13 DEF Next

(* The walk *)

\* The frame being walked is the report r.
IsReport(r) ==
  LET flag == Flag(buf, frame)
      w == ReportBytes(r, flag)
  IN /\ flag \in {Req, Rsp}
     /\ End = Body(frame) + Len(w)
     /\ \A i \in 1..Len(w) : buf[Body(frame) + i - 1] = w[i]

\* Its first k records have been decoded.
Reached(r, p, k) ==
  /\ k \in 0..Len(r.records)
  /\ at = Body(frame) + p[k]
  /\ \A j \in 1..k : j \in Known(r)
  /\ Decoded(out, r, k)
  /\ nonzero <=> NonzeroIn(r, k)

Walking ==
  phase = "walk" =>
    \E r \in Reports :
      /\ Said(query, r) \in said
      /\ IsReport(r)
      /\ \E p, k : Spread(r, Flag(buf, frame), p) /\ Reached(r, p, k)

LEMMA WalkStarts ==
  ASSUME NoForgery, IInv, Asked, Receive
  PROVE  Walking'
<1> SUFFICES ASSUME phase' = "walk" PROVE Walking' BY DEF Walking
<1>1. line \in Seq(Byte) BY DEF IInv, TypeOK, WireOK
<1>2. PICK h \in Heard : Take(Capped(h)) /\ Parse(SubSeq(line, 1, Capped(h))) BY DEF Receive
<1> DEFINE n == Capped(h)
           b == SubSeq(line, 1, n)
           d == First(Matches(b))
           c == Cut(line, d)
<1>3. n \in Nat /\ n <= Len(line) BY <1>1, Constants, HeardIsThere
<1>4. Parse(b) BY <1>2
<1> HIDE DEF n
<1>5. b \in Seq(Byte) BY <1>1, <1>3, Pieces
<1>6. /\ Matches(b) # {} /\ buf' = b /\ frame' = d /\ at' = Body(d) /\ query' = query
  BY <1>4 DEF Parse
<1>7. d \in Matches(b)
  <2>1. Matches(b) \subseteq Arrived(b) BY DEF Matches, Verified
  <2>2. Matches(b) \in SUBSET Nat
    <3> HIDE DEF b
    <3> QED BY <1>5, <2>1, ArrivedFields
  <2> QED BY <1>6, <2>2, FirstIsMember
<1> HIDE DEF d
<1>8. /\ d \in Verified(b) /\ HubType(b, d) = SendData
      /\ IF query = <<>> THEN Pushes(b, d)
         ELSE Answers(b, d, Dest(query, 1), Sequence(query, 1))
  BY <1>7 DEF Matches
<1>9. /\ c \in told \/ Reported(c)
      /\ c \in Seq(Byte) /\ Len(c) \in Nat /\ Cksum(b, d) = d + Len(c) - 1
      /\ Len(c) >= 12 /\ d \in Nat /\ d >= 1
      /\ \A k \in 1..Len(c) : c[k] = b[d + k - 1]
      /\ Flag(c, 1) = Flag(b, d) /\ Source(c, 1) = Source(b, d)
      /\ Sequence(c, 1) = Sequence(b, d) /\ HubType(c, 1) = HubType(b, d)
  BY <1>1, <1>3, <1>8, WhatIsHeard
<1> HIDE DEF c, b
<1>10. c \notin told BY <1>8, <1>9 DEF Asked, SendData, Provision
<1>11. /\ query = <<>> => Flag(c, 1) = Req
       /\ query # <<>> => /\ Flag(c, 1) = Rsp
                         /\ Source(c, 1) = Dest(query, 1)
                         /\ Sequence(c, 1) = Sequence(query, 1)
  BY <1>8, <1>9 DEF Pushes, Answers
<1>12. Flag(c, 1) \in {Req, Rsp} BY <1>11
<1> DEFINE to == IF Flag(c, 1) = Rsp
                 THEN Request(Source(c, 1), Sequence(c, 1), SendData, DataPayload)
                 ELSE <<>>
<1>13. to = query
  <2>1. CASE query = <<>> BY <1>11, <2>1 DEF Req, Rsp
  <2>2. CASE query # <<>>
    <3>1. query = Request(Dest(query, 1), Sequence(query, 1), SendData, DataPayload)
      BY <2>2 DEF Asked
    <3> QED BY <1>11, <2>2, <3>1, Zenon
  <2> QED BY <2>1, <2>2
<1>14. PICK r \in Reports :
         /\ Len(c) = 12 + Len(ReportBytes(r, Flag(c, 1)))
         /\ Carries(c, ReportBytes(r, Flag(c, 1)))
         /\ Said(to, r) \in said
  BY <1>9, <1>10, <1>12, ReportedFrame
<1> HIDE DEF to
<1>15. Said(query', r) \in said'
  <2>1. said' = said BY DEF Receive
  <2> QED BY <1>6, <1>13, <1>14, <2>1
<1> DEFINE flag == Flag(c, 1)
           w == ReportBytes(r, flag)
<1>16. w \in Seq(Byte) BY <1>12, ReportAssumption DEF ReportAssumption
<1>17. Len(c) = 12 + Len(w) /\ Carries(c, w) BY <1>14
<1>18. Flag(b, d) = flag BY <1>9
<1> HIDE DEF flag
<1>19. IsReport(r)'
  <2>1. Flag(buf', frame') = flag BY <1>6, <1>18
  <2>2. End' = Body(frame') + Len(w)
    <3>1. End' = Cksum(b, d) BY <1>6 DEF End
    <3>2. Body(frame') = d + 11 BY <1>6, <1>9 DEF Body, HeaderBytes
    <3>3. Len(w) \in Nat /\ Len(c) = 12 + Len(w) /\ d \in Nat BY <1>9, <1>16, <1>17
    <3>4. Cksum(b, d) = d + Len(c) - 1 BY <1>9
    <3>5. d + Len(c) - 1 = d + 11 + Len(w) BY <3>3
    <3> QED BY <3>1, <3>2, <3>4, <3>5
  <2>3. ASSUME NEW i \in 1..Len(w) PROVE buf'[Body(frame') + i - 1] = w[i]
    <3>1. 11 + i \in 1..Len(c) /\ d + (11 + i) - 1 = Body(frame') + i - 1
      BY <1>6, <1>9, <1>16, <1>17 DEF Body, HeaderBytes
    <3>2. c[11 + i] = w[i] BY <1>17 DEF Carries
    <3>3. c[11 + i] = b[d + (11 + i) - 1] BY <1>9, <3>1
    <3> QED BY <1>6, <3>1, <3>2, <3>3
  <2>4. flag \in {Req, Rsp} BY <1>12 DEF flag
  <2> HIDE DEF w
  <2> QED BY <2>1, <2>2, <2>3, <2>4 DEF IsReport, w
<1>20. PICK p : Spread(r, flag, p) BY <1>12, ReportIsSpread DEF flag
<1>21. Reached(r, p, 0)'
  <2>1. out' = <<>> /\ nonzero' = FALSE BY DEF Asked, Receive
  <2>2. Decoded(out', r, 0) /\ ~NonzeroIn(r, 0) BY <2>1, NothingDecoded
  <2>3. p[0] = 0 BY <1>20 DEF Spread
  <2>4. at' = Body(frame') + p[0] BY <1>6, <1>9, <2>3 DEF Body, HeaderBytes
  <2>5. 0 \in 0..Len(r.records) BY RecordIsTyped
  <2>6. \A j \in 1..0 : j \in Known(r) OBVIOUS
  <2> QED BY <2>1, <2>2, <2>4, <2>5, <2>6 DEF Reached
<1>22. Spread(r, Flag(buf', frame'), p) BY <1>6, <1>18, <1>20
<1> QED BY <1>15, <1>19, <1>21, <1>22 DEF Walking

\* Where the walk stands in the report: what is left of it and what comes next.
LEMMA WalkStands ==
  ASSUME IInv, phase = "walk", NEW r \in Reports, IsReport(r), NEW p,
         Spread(r, Flag(buf, frame), p), NEW k, Reached(r, p, k)
  PROVE  LET flag == Flag(buf, frame)
             w == ReportBytes(r, flag)
         IN /\ flag \in {Req, Rsp} /\ k \in 0..Len(r.records) /\ k \in Nat
            /\ p[k] \in Nat /\ Len(w) \in Nat
            /\ at \in Nat /\ Body(frame) \in Nat /\ at = Body(frame) + p[k]
            /\ More <=> p[k] + 2 < Len(w)
            /\ at + 3 < End <=> p[k] + 3 < Len(w)
            /\ More => buf[at + 1] = w[p[k] + 2] /\ buf[at + 2] = w[p[k] + 3]
            /\ at + 3 < End => buf[at + 3] = w[p[k] + 4]
<1> DEFINE flag == Flag(buf, frame)
           w == ReportBytes(r, flag)
<1>1. WalkOK BY DEF IInv, TypeOK
<1>2. buf \in Seq(Byte) /\ frame \in Arrived(buf) /\ at \in Nat BY <1>1 DEF WalkOK, Verified
<1>3. frame \in Nat BY <1>2, ArrivedFields
<1>4. Body(frame) \in Nat BY <1>3 DEF Body, HeaderBytes
<1>5. /\ flag \in {Req, Rsp}
      /\ End = Body(frame) + Len(w)
      /\ \A i \in 1..Len(w) : buf[Body(frame) + i - 1] = w[i]
  BY DEF IsReport
<1>6. k \in 0..Len(r.records) /\ at = Body(frame) + p[k] BY DEF Reached
<1>7. Len(r.records) \in Nat BY RecordIsTyped
<1>8. p \in [0..Len(r.records) -> Nat] /\ w \in Seq(Byte) BY DEF Spread
<1> HIDE DEF flag, w
<1>9. p[k] \in Nat /\ Len(w) \in Nat /\ k \in Nat BY <1>6, <1>7, <1>8
<1>10. /\ at + 2 < End <=> p[k] + 2 < Len(w)
       /\ at + 3 < End <=> p[k] + 3 < Len(w)
  BY <1>4, <1>5, <1>6, <1>9
<1>11. ASSUME NEW j \in 1..4, p[k] + j <= Len(w) PROVE buf[at + j - 1] = w[p[k] + j]
  <2>1. p[k] + j \in 1..Len(w) /\ Body(frame) + (p[k] + j) - 1 = at + j - 1
    BY <1>4, <1>6, <1>9, <1>11
  <2> QED BY <1>5, <2>1
<1>12. at + 2 - 1 = at + 1 /\ at + 3 - 1 = at + 2 /\ at + 4 - 1 = at + 3 BY <1>2
<1>13. p[k] + 2 < Len(w) => buf[at + 1] = w[p[k] + 2] /\ buf[at + 2] = w[p[k] + 3]
  <2> SUFFICES ASSUME p[k] + 2 < Len(w)
               PROVE  buf[at + 1] = w[p[k] + 2] /\ buf[at + 2] = w[p[k] + 3]
    OBVIOUS
  <2>1. 2 \in 1..4 /\ 3 \in 1..4 /\ p[k] + 2 <= Len(w) /\ p[k] + 3 <= Len(w) BY <1>9
  <2>2. buf[at + 2 - 1] = w[p[k] + 2] /\ buf[at + 3 - 1] = w[p[k] + 3] BY <1>11, <2>1
  <2> QED BY <1>12, <2>2
<1>14. p[k] + 3 < Len(w) => buf[at + 3] = w[p[k] + 4]
  <2> SUFFICES ASSUME p[k] + 3 < Len(w) PROVE buf[at + 3] = w[p[k] + 4] OBVIOUS
  <2>1. 4 \in 1..4 /\ p[k] + 4 <= Len(w) BY <1>9
  <2>2. buf[at + 4 - 1] = w[p[k] + 4] BY <1>11, <2>1
  <2> QED BY <1>12, <2>2
<1> QED BY <1>2, <1>4, <1>5, <1>6, <1>9, <1>10, <1>13, <1>14 DEF More, flag, w

\* A record is decoded only if all of it is there, and to the value that was sent.
LEMMA WalkGoesOn ==
  ASSUME IInv, Asked, Walking, phase = "walk", More, NEW value, Decode(value),
         \/ Type = Capacity /\ value = buf[at + 2]
         \/ Type \in Words /\ Fits /\ value = Word(buf, at + 2, Flag(buf, frame))
  PROVE  Walking'
<1>1. PICK r \in Reports :
        /\ Said(query, r) \in said /\ IsReport(r)
        /\ \E p, k : Spread(r, Flag(buf, frame), p) /\ Reached(r, p, k)
  BY DEF Walking
<1>2. PICK p, k : Spread(r, Flag(buf, frame), p) /\ Reached(r, p, k) BY <1>1
<1> DEFINE flag == Flag(buf, frame)
           w == ReportBytes(r, flag)
           rec == r.records[k + 1]
<1>3. /\ flag \in {Req, Rsp} /\ k \in 0..Len(r.records) /\ k \in Nat
      /\ p[k] \in Nat /\ Len(w) \in Nat
      /\ at \in Nat /\ Body(frame) \in Nat /\ at = Body(frame) + p[k]
      /\ p[k] + 2 < Len(w)
      /\ at + 3 < End <=> p[k] + 3 < Len(w)
      /\ buf[at + 1] = w[p[k] + 2] /\ buf[at + 2] = w[p[k] + 3]
      /\ at + 3 < End => buf[at + 3] = w[p[k] + 4]
  BY <1>1, <1>2, WalkStands
<1>4. /\ k + 1 \in 1..Len(r.records) /\ w[p[k] + 2] = rec.type
      /\ p[k + 1] = p[k] + Width(rec.type)
      /\ rec.type = Capacity => w[p[k] + 3] = rec.value /\ Present(r, k + 1)
      /\ rec.type # Capacity /\ p[k] + 3 < Len(w) =>
           /\ Present(r, k + 1)
           /\ flag = Rsp => w[p[k] + 3] + 256 * w[p[k] + 4] = rec.value
           /\ flag # Rsp => 256 * w[p[k] + 3] + w[p[k] + 4] = rec.value
  BY <1>2, <1>3, NextRecord
<1>5. Type = rec.type BY <1>3, <1>4 DEF Type
<1>6. /\ at' = at + Width(Type) /\ buf' = buf /\ frame' = frame
      /\ query' = query /\ said' = said
      /\ out' = IF Type \in Measurements THEN Set(Type, value) ELSE out
      /\ nonzero' = (nonzero \/ (Type \in Measurements /\ value # 0))
  BY Zenon DEF Decode, packVars
<1> HIDE DEF rec, flag, w
<1>7. Type \in Words \cup {Capacity} /\ Present(r, k + 1) /\ value = rec.value
  <2>1. CASE Type = Capacity /\ value = buf[at + 2] BY <1>3, <1>4, <1>5, <2>1
  <2>2. CASE Type \in Words /\ Fits /\ value = Word(buf, at + 2, Flag(buf, frame))
    <3>1. at + 3 < End /\ Type # Capacity
      BY <2>2 DEF Fits, Words, Capacity, Temperature, DcCurrent, DcVoltage, BitValues
    <3>2. buf[at + 3] = w[p[k] + 4] /\ p[k] + 3 < Len(w) BY <1>3, <3>1
    <3>3. (at + 2) + 1 = at + 3 BY <1>3
    <3>4. value = IF flag = Rsp THEN buf[at + 2] + 256 * buf[at + 3]
                  ELSE 256 * buf[at + 2] + buf[at + 3]
      BY <2>2, <3>3 DEF Word, flag
    <3>5. buf[at + 2] = w[p[k] + 3] BY <1>3, Zenon
    <3>6. value = IF flag = Rsp THEN w[p[k] + 3] + 256 * w[p[k] + 4]
                  ELSE 256 * w[p[k] + 3] + w[p[k] + 4]
      BY <3>2, <3>4, <3>5, Zenon
    <3>7. /\ Present(r, k + 1)
          /\ flag = Rsp => w[p[k] + 3] + 256 * w[p[k] + 4] = rec.value
          /\ flag # Rsp => 256 * w[p[k] + 3] + w[p[k] + 4] = rec.value
      BY <1>4, <1>5, <3>1, <3>2, Zenon
    <3>8. value = rec.value BY <3>6, <3>7, Zenon
    <3> QED BY <2>2, <3>7, <3>8, Zenon
  <2> QED BY <2>1, <2>2
<1>8. \A j \in 1..(k + 1) : j \in Known(r)
  <2>1. \A j \in 1..k : j \in Known(r) BY <1>2 DEF Reached
  <2>2. k + 1 \in Known(r)
    <3>1. \A j \in 1..k : r.records[j].type \in Words \cup {Capacity} BY <2>1 DEF Known
    <3>2. r.records[k + 1].type \in Words \cup {Capacity} BY <1>5, <1>7 DEF rec
    <3>3. \A j \in 1..(k + 1) : j \in 1..k \/ j = k + 1 BY <1>3
    <3>4. \A j \in 1..(k + 1) : r.records[j].type \in Words \cup {Capacity} BY <3>1, <3>2, <3>3
    <3> QED BY <1>7, <3>4 DEF Known, Present
  <2>3. \A j \in 1..(k + 1) : j \in 1..k \/ j = k + 1 BY <1>3
  <2> QED BY <2>1, <2>2, <2>3
<1>9. Decoded(out, r, k) /\ (nonzero <=> NonzeroIn(r, k)) BY <1>2 DEF Reached
<1>10. out' = IF rec.type \in Measurements
              THEN [t \in DOMAIN out \cup {rec.type} |->
                      IF t = rec.type THEN rec.value ELSE out[t]]
              ELSE out
  BY <1>5, <1>6, <1>7 DEF Set
<1>11. /\ Decoded(out', r, k + 1)
       /\ NonzeroIn(r, k + 1) <=> NonzeroIn(r, k) \/ (rec.type \in Measurements /\ rec.value # 0)
  BY <1>3, <1>9, <1>10, OneMoreDecoded DEF rec
<1>12. Reached(r, p, k + 1)'
  <2>1. at' = Body(frame') + p[k + 1]
    <3>1. Width(rec.type) \in Nat BY DEF Width
    <3>2. at' = at + Width(rec.type) BY <1>5, <1>6
    <3>3. at' = Body(frame) + (p[k] + Width(rec.type))
      <4>1. at = Body(frame) + p[k] /\ p[k] \in Nat /\ Body(frame) \in Nat BY <1>3, Zenon
      <4> QED BY <3>1, <3>2, <4>1
    <3>4. at' = Body(frame) + p[k + 1] BY <1>4, <3>3
    <3> QED BY <1>6, <3>4
  <2>2. nonzero' <=> NonzeroIn(r, k + 1) BY <1>5, <1>6, <1>7, <1>9, <1>11
  <2>3. k + 1 \in 0..Len(r.records) BY <1>4
  <2> QED BY <1>8, <1>11, <2>1, <2>2, <2>3 DEF Reached
<1>13. IsReport(r)' BY <1>1, <1>6 DEF IsReport, End
<1>14. Spread(r, Flag(buf', frame'), p) BY <1>2, <1>6
<1>15. Said(query', r) \in said' BY <1>1, <1>6
<1> QED BY <1>12, <1>13, <1>14, <1>15 DEF Walking

\* Where the walk stops, all that the report says has been decoded.
LEMMA WalkEnds ==
  ASSUME IInv, Walking, phase = "walk", More => Type \notin Words \cup {Capacity}
  PROVE  \E r \in Reports : Said(query, r) \in said /\ out = Meaning(r) /\ (nonzero <=> ~Template(r))
<1>1. PICK r \in Reports :
        /\ Said(query, r) \in said /\ IsReport(r)
        /\ \E p, k : Spread(r, Flag(buf, frame), p) /\ Reached(r, p, k)
  BY DEF Walking
<1>2. PICK p, k : Spread(r, Flag(buf, frame), p) /\ Reached(r, p, k) BY <1>1
<1> DEFINE flag == Flag(buf, frame)
           w == ReportBytes(r, flag)
<1>3. /\ flag \in {Req, Rsp} /\ k \in 0..Len(r.records) /\ k \in Nat
      /\ More <=> p[k] + 2 < Len(w)
      /\ More => buf[at + 1] = w[p[k] + 2]
  BY <1>1, <1>2, WalkStands
<1>4. /\ p[k] + 2 < Len(w) => w[p[k] + 2] = r.records[k + 1].type
      /\ Present(r, k + 1) => p[k] + 2 < Len(w)
  BY <1>2, <1>3, NextRecord
<1> HIDE DEF flag, w
<1>5. ~(Present(r, k + 1) /\ r.records[k + 1].type \in Words \cup {Capacity})
  BY <1>3, <1>4 DEF Type
<1>6. ASSUME NEW x \in Known(r) PROVE x \in 1..k
  <2>1. /\ x \in 1..(Len(r.records) - (IF r.short > 0 THEN 1 ELSE 0))
        /\ \A j \in 1..x : r.records[j].type \in Words \cup {Capacity}
    BY DEF Known
  <2>2. Len(r.records) \in Nat BY RecordIsTyped
  <2>3. ASSUME ~(x <= k) PROVE FALSE
    <3>1. k + 1 \in 1..x /\ k + 1 \in 1..(Len(r.records) - (IF r.short > 0 THEN 1 ELSE 0))
      BY <1>3, <2>1, <2>2, <2>3
    <3> QED BY <1>5, <2>1, <3>1 DEF Present
  <2> QED BY <1>3, <2>1, <2>2, <2>3
<1>7. \A j \in 1..k : j \in Known(r) BY <1>2 DEF Reached
<1>8. Known(r) = 1..k BY <1>6, <1>7
<1>9. Decoded(out, r, k) /\ (nonzero <=> NonzeroIn(r, k)) BY <1>2 DEF Reached
<1>10. out = Meaning(r) /\ (NonzeroIn(r, k) <=> ~Template(r)) BY <1>3, <1>8, <1>9, AllDecoded
<1> QED BY <1>1, <1>9, <1>10

LEMMA WalkKept ==
  ASSUME NoForgery, IInv, Asked, Walking, [Next]_vars
  PROVE  Walking'
<1>1. CASE Receive BY <1>1, WalkStarts
<1>2. CASE WalkCapacity BY <1>2, WalkGoesOn DEF WalkCapacity
<1>3. CASE WalkWord BY <1>3, WalkGoesOn DEF WalkWord, Fits
<1>4. ASSUME phase' # "walk" PROVE Walking' BY <1>4 DEF Walking
<1>5. CASE WalkCut BY <1>4, <1>5 DEF WalkCut
<1>6. CASE Judge BY <1>4, <1>6 DEF Judge
<1>7. CASE Begin \/ SendBoot BY <1>4, <1>7 DEF Begin, SendBoot
<1>8. CASE Query \/ Listen \/ OpenWindow \/ CloseWindow
  BY <1>4, <1>8 DEF Query, Listen, OpenWindow, CloseWindow
<1>9. CASE WindowReceive
  <2>1. phase' \in {"window", "latched"} BY <1>9 DEF WindowReceive, Answer
  <2> QED BY <1>4, <2>1
<1>10. CASE Pack
  <2>1. phase \in {"await", "window"} BY <1>10 DEF Pack
  <2>2. phase' = phase
    BY <1>10, Zenon DEF Pack, PackReplies, PackPushes, PackAnnounces, PackAdopts, PackResets,
       Report, Talk
  <2> QED BY <1>4, <2>1, <2>2
<1>11. CASE UNCHANGED vars
  <2>1. /\ phase' = phase /\ buf' = buf /\ frame' = frame /\ at' = at /\ out' = out
        /\ nonzero' = nonzero /\ query' = query /\ said' = said
    BY <1>11 DEF vars, walkVars, packVars
  <2> QED BY <2>1 DEF Walking, IsReport, End, Reached
<1> QED BY <1>1, <1>2, <1>3, <1>5, <1>6, <1>7, <1>8, <1>9, <1>10, <1>11 DEF Next, Walk

LEMMA ReadingKept ==
  ASSUME IInv, Asked, Walking, ReadingWasSaid, [Next]_vars
  PROVE  ReadingWasSaid'
<1>1. ASSUME result' \notin {"ok", "unsampled"} PROVE ReadingWasSaid'
  BY <1>1 DEF ReadingWasSaid
<1>2. ASSUME result' = result, query' = query, out' = out, said \subseteq said'
      PROVE  ReadingWasSaid'
  BY <1>2 DEF ReadingWasSaid
<1>3. CASE Begin BY <1>1, <1>3 DEF Begin
<1>4. CASE Query \/ Listen \/ OpenWindow BY <1>1, <1>4 DEF Query, Listen, OpenWindow
<1>5. CASE SendBoot BY <1>2, <1>5 DEF SendBoot, walkVars, packVars
<1>6. CASE Receive
  <2>1. PICK h \in Heard : Parse(SubSeq(line, 1, Capped(h))) BY <1>6 DEF Receive
  <2> DEFINE b == SubSeq(line, 1, Capped(h))
  <2>2. Parse(b) BY <2>1
  <2> HIDE DEF b
  <2>3. phase = "await" /\ result = "none" BY <1>6 DEF Receive, Asked
  <2>4. result' \in {Refusal(b), result} BY <2>2 DEF Parse
  <2>5. Refusal(b) \notin {"ok", "unsampled"} BY DEF Refusal
  <2> QED BY <1>1, <2>3, <2>4, <2>5
<1>7. CASE Walk
  <2>1. phase = "walk" /\ result = "none"
    BY <1>7 DEF Walk, WalkCapacity, WalkWord, WalkCut, Judge, Asked
  <2>2. CASE WalkCapacity BY <1>1, <2>1, <2>2, Zenon DEF WalkCapacity, Decode
  <2>3. CASE WalkWord BY <1>1, <2>1, <2>3, Zenon DEF WalkWord, Decode
  <2>4. CASE WalkCut BY <1>1, <2>4 DEF WalkCut
  <2>5. CASE Judge
    <3>1. More => Type \notin Words \cup {Capacity} BY <2>5 DEF Judge
    <3>2. PICK r \in Reports : /\ Said(query, r) \in said /\ out = Meaning(r)
                               /\ nonzero <=> ~Template(r)
      BY <2>1, <3>1, WalkEnds
    <3>3. /\ result' = Verdict /\ query' = query /\ said' = said
          /\ out' = IF result' = "ok" THEN out ELSE <<>>
      BY <2>5, Zenon DEF Judge, packVars
    <3> DEFINE x == Said(query, r)
    <3>4. x.to = query /\ x.values = Meaning(r) /\ x.template = Template(r) BY DEF Said
    <3>5. x \in said' BY <3>2, <3>3
    <3> HIDE DEF x
    <3>6. CASE result' = "ok"
      <4>1. nonzero BY <3>3, <3>6 DEF Verdict
      <4>2. out' = x.values /\ ~x.template /\ x.to = query' BY <3>2, <3>3, <3>4, <3>6, <4>1
      <4> QED BY <3>5, <3>6, <4>2 DEF ReadingWasSaid
    <3>7. CASE result' = "unsampled"
      <4>1. ~nonzero BY <3>3, <3>7 DEF Verdict
      <4>2. x.template /\ x.to = query' BY <3>2, <3>3, <3>4, <4>1
      <4> QED BY <3>5, <3>7, <4>2 DEF ReadingWasSaid
    <3> QED BY <1>1, <3>6, <3>7
  <2> QED BY <1>7, <2>2, <2>3, <2>4, <2>5 DEF Walk
<1>8. CASE WindowReceive BY <1>2, <1>8 DEF WindowReceive, walkVars
<1>9. CASE CloseWindow
  <2>1. result' = "none" BY <1>9 DEF CloseWindow, Asked
  <2> QED BY <1>1, <2>1
<1>10. CASE Pack
  <2>1. result' = result /\ query' = query /\ out' = out /\ said \subseteq said'
    <3>1. CASE PackReplies BY <3>1, Zenon DEF PackReplies, Report, Talk, walkVars
    <3>2. CASE PackPushes BY <3>2, Zenon DEF PackPushes, Report, Talk, walkVars
    <3>3. CASE PackAnnounces BY <3>3 DEF PackAnnounces, Talk, walkVars
    <3>4. CASE PackAdopts BY <3>4 DEF PackAdopts, walkVars
    <3>5. CASE PackResets BY <3>5 DEF PackResets, walkVars
    <3> QED BY <1>10, <3>1, <3>2, <3>3, <3>4, <3>5 DEF Pack
  <2> QED BY <1>2, <2>1
<1>11. CASE UNCHANGED vars BY <1>2, <1>11 DEF vars, walkVars, packVars
<1> QED BY <1>3, <1>4, <1>5, <1>6, <1>7, <1>8, <1>9, <1>10, <1>11 DEF Next

(* The three together *)

Told == IInv /\ Asked /\ Walking /\ ReadingWasSaid /\ LatchIsAnnounced /\ ReplyAssigns

LEMMA ToldIsInvariant == Spec /\ []NoForgery => []Told
<1>1. Init => Told
  <2> SUFFICES ASSUME Init PROVE Told OBVIOUS
  <2>1. Walking /\ ReadingWasSaid /\ LatchIsAnnounced /\ ReplyAssigns
    BY DEF Init, Walking, ReadingWasSaid, LatchIsAnnounced, ReplyAssigns
  <2> QED BY <2>1, InitHolds, InitAsked DEF Told
<1>2. Told /\ NoForgery /\ IInv' /\ [Next]_vars => Told'
  <2> SUFFICES ASSUME Told, NoForgery, IInv', [Next]_vars PROVE Told' OBVIOUS
  <2>1. IInv /\ Asked /\ Walking /\ ReadingWasSaid /\ LatchIsAnnounced /\ ReplyAssigns
    BY DEF Told
  <2>2. Asked' BY <2>1, AskedKept
  <2>3. Walking' BY <2>1, WalkKept
  <2>4. ReadingWasSaid' BY <2>1, ReadingKept
  <2>5. LatchIsAnnounced' /\ ReplyAssigns' BY <2>1, AnswersKept
  <2> QED BY <2>2, <2>3, <2>4, <2>5 DEF Told
<1> QED BY Inductive, <1>1, <1>2, PTL DEF Spec

\* As long as the checks of battery_frame.cpp let no foreign bytes through, a reading is
\* what the pack said in answer to this very query, and not to one still under way:
\* whatever is late, lost, cut short or run together, battery_decode_frame() takes each
\* value from the report's own records, in the sender's byte order.
THEOREM ReadingsAreSaid == Spec /\ []NoForgery => []ReadingWasSaid
<1>1. Told => ReadingWasSaid BY DEF Told
<1> QED BY ToldIsInvariant, <1>1, PTL

\* As long as no foreign bytes pass, acquire_pid() latches only on an id that the pack has
\* announced in this read.
THEOREM LatchesAreAnnounced == Spec /\ []NoForgery => []LatchIsAnnounced
<1>1. Told => LatchIsAnnounced BY DEF Told
<1> QED BY ToldIsInvariant, <1>1, PTL

\* As long as no foreign bytes pass, every response provision() puts on the wire is made
\* of an announcement of this read, goes to its sender, assigns kProbeId and passes the
\* sender's checks.
THEOREM RepliesAssign == Spec /\ []NoForgery => []ReplyAssigns
<1>1. Told => ReplyAssigns BY DEF Told
<1> QED BY ToldIsInvariant, <1>1, PTL

-----------------------------------------------------------------------------
(* The sequence numbers of one read *)

\* One of the numbers the last `sends' frames of this read went out with.
Recent(s) == (IF s <= seq THEN seq - s ELSE seq - s + SeqRange) < sends
IsRecent(q) == Sequence(q, 1) \in 0..(SeqRange - 1) /\ Recent(Sequence(q, 1))

\* Every query of this read that is unanswered or was answered carries such a number.
Numbered ==
  /\ \A q \in owed : IsRecent(q)
  /\ \A x \in said : x.to # <<>> => IsRecent(x.to)

\* A query goes out with a number no query of this read has that the pack may still answer
\* or whose answer may still be on the line.
QueryIsFresh ==
  Query =>
    /\ \A q \in owed : Sequence(q, 1) # Sequence(sent', 1)
    /\ \A x \in said : x.to # <<>> => Sequence(x.to, 1) # Sequence(sent', 1)

LEMMA Uncounted == Numbered /\ UNCHANGED <<seq, sends, owed, said>> => Numbered'
BY DEF Numbered, IsRecent, Recent, Sequence

\* What the next number is, and how far the ones before it are behind it.
LEMMA NextNumber ==
  ASSUME NEW r \in Nat, r >= 2, NEW s \in 0..(r - 1)
  PROVE  (s + 1) % r = IF s = r - 1 THEN 0 ELSE s + 1
<1>1. CASE s = r - 1
  <2>1. s + 1 = r BY <1>1
  <2>2. r % r = 0 OBVIOUS
  <2> QED BY <1>1, <2>1, <2>2
<1>2. CASE s # r - 1
  <2>1. s + 1 \in Nat /\ s + 1 < r BY <1>2
  <2>2. \A n \in Nat : n < r => n % r = n OBVIOUS
  <2> QED BY <1>2, <2>1, <2>2
<1> QED BY <1>1, <1>2

\* A frame of the master's own goes out with a number not used for the last ones, and
\* counts from then on as one of them.
LEMMA SendNumbers ==
  ASSUME ControlOK, NEW dest, NEW type, NEW payloadType, Send(dest, type, payloadType)
  PROVE  /\ seq' \in 0..(SeqRange - 1)
         /\ \A s \in 0..(SeqRange - 1) :
              /\ Recent(s) => s # seq' /\ Recent(s)'
              /\ s = seq' => Recent(s)'
<1>1. /\ sends \in 0..MaxSends /\ seq \in 0..(SeqRange - 1)
      /\ sends < MaxSends /\ sends' = sends + 1 /\ seq' = (seq + 1) % SeqRange
  BY Zenon DEF ControlOK, Send
<1>2. /\ SeqRange \in Nat /\ SeqRange >= 2 /\ MaxSends \in Nat /\ MaxSends <= SeqRange
  BY OnewireAssumption DEF OnewireAssumption
<1>3. seq' = IF seq = SeqRange - 1 THEN 0 ELSE seq + 1 BY <1>1, <1>2, NextNumber
<1>4. seq' \in 0..(SeqRange - 1) BY <1>1, <1>2, <1>3
<1>5. ASSUME NEW s \in 0..(SeqRange - 1), s = seq' PROVE Recent(s)'
  BY <1>1, <1>2, <1>5 DEF Recent
<1>6. ASSUME NEW s \in 0..(SeqRange - 1), Recent(s) PROVE s # seq' /\ Recent(s)'
  <2>1. (IF s <= seq THEN seq - s ELSE seq - s + SeqRange) < sends BY <1>6 DEF Recent
  <2>2. sends < SeqRange BY <1>1, <1>2
  <2>3. s # seq' BY <1>1, <1>2, <1>3, <2>1, <2>2
  <2>4. (IF s <= seq' THEN seq' - s ELSE seq' - s + SeqRange) < sends + 1
    BY <1>1, <1>2, <1>3, <2>1, <2>2, <2>3
  <2>5. Recent(s)' BY <1>1, <2>4 DEF Recent
  <2> QED BY <2>3, <2>5
<1> QED BY <1>4, <1>5, <1>6

LEMMA SentIsNumbered ==
  ASSUME ControlOK, NEW dest \in Byte, NEW type \in Byte, NEW payloadType \in Byte,
         Send(dest, type, payloadType)
  PROVE  Sequence(sent', 1) = seq'
<1>1. sent' = Request(dest, seq', type, payloadType) BY Zenon DEF Send
<1>2. seq' \in Byte
  <2>1. seq' \in 0..(SeqRange - 1) BY SendNumbers
  <2> QED BY <2>1, Constants, SmallIsByte
<1> QED BY <1>1, <1>2, RequestIsWhole

LEMMA QueryIsNumbered ==
  ASSUME IInv, Numbered, Query
  PROVE  Numbered' /\ QueryIsFresh
<1>1. ControlOK BY DEF IInv, TypeOK
<1>2. PICK dest \in {ProbeId, Broadcast, pid} : Send(dest, SendData, DataPayload) BY DEF Query
<1>3. dest \in Byte /\ SendData \in Byte /\ DataPayload \in Byte
  <2>1. pid \in Byte BY <1>1 DEF ControlOK
  <2> QED BY <2>1 DEF ProbeId, Broadcast, SendData, DataPayload, Byte
<1>4. Sequence(sent', 1) = seq' BY <1>1, <1>2, <1>3, SentIsNumbered
<1>5. /\ seq' \in 0..(SeqRange - 1)
      /\ \A s \in 0..(SeqRange - 1) :
           /\ Recent(s) => s # seq' /\ Recent(s)'
           /\ s = seq' => Recent(s)'
  BY <1>1, <1>2, SendNumbers
<1>6. owed' = owed \cup {sent'} /\ said' = said BY DEF Query
<1>7. IsRecent(sent)'
  <2>1. PICK s \in 0..(SeqRange - 1) : s = seq' BY <1>5
  <2>2. Recent(s)' /\ Sequence(sent', 1) = s BY <1>4, <1>5, <2>1
  <2> QED BY <2>2 DEF IsRecent
<1>8. ASSUME NEW q, IsRecent(q) PROVE IsRecent(q)' /\ Sequence(q, 1) # Sequence(sent', 1)
  BY <1>4, <1>5, <1>8 DEF IsRecent
<1>9. \A q \in owed : IsRecent(q) /\ \A x \in said : x.to # <<>> => IsRecent(x.to)
  BY DEF Numbered
<1>10. QueryIsFresh BY <1>8 DEF QueryIsFresh, Numbered
<1>11. \A q \in owed' : IsRecent(q)' BY <1>6, <1>7, <1>8 DEF Numbered
<1>12. \A x \in said' : x.to # <<>> => IsRecent(x.to)' BY <1>6, <1>8 DEF Numbered
<1> QED BY <1>10, <1>11, <1>12 DEF Numbered

LEMMA BootIsNumbered == ASSUME IInv, Numbered, SendBoot PROVE Numbered'
<1>1. ControlOK BY DEF IInv, TypeOK
<1>2. Send(Broadcast, Provision, Boot) /\ owed' = owed /\ said' = said
  BY DEF SendBoot, packVars
<1>3. \A s \in 0..(SeqRange - 1) : Recent(s) => Recent(s)' BY <1>1, <1>2, SendNumbers
<1>4. ASSUME NEW q, IsRecent(q) PROVE IsRecent(q)' BY <1>3, <1>4 DEF IsRecent
<1> QED BY <1>2, <1>4 DEF Numbered

LEMMA PackIsNumbered == ASSUME IInv, Numbered, Pack PROVE Numbered'
<1>1. ASSUME NEW flag, NEW s, NEW to, Report(flag, s, to), owed' \subseteq owed,
             to = <<>> \/ IsRecent(to)
      PROVE  Numbered'
  <2>1. PICK r \in Reports : said' = said \cup {Said(to, r)} /\ Talk(ReportFrame(flag, held, s, r))
    BY <1>1, Zenon DEF Report
  <2>2. seq' = seq /\ sends' = sends BY <2>1, Zenon DEF Talk
  <2>3. Said(to, r).to = to BY DEF Said
  <2>4. \A q : IsRecent(q) => IsRecent(q)' BY <2>2 DEF IsRecent, Recent, Sequence
  <2>5. \A q \in owed' : IsRecent(q)' BY <1>1, <2>4 DEF Numbered
  <2>6. \A x \in said' : x.to # <<>> => IsRecent(x.to)' BY <1>1, <2>1, <2>3, <2>4 DEF Numbered
  <2> QED BY <2>5, <2>6 DEF Numbered
<1>2. CASE PackReplies
  <2>1. PICK q \in owed : owed' = owed \ {q} /\ Report(Rsp, Sequence(q, 1), q)
    BY <1>2, Zenon DEF PackReplies
  <2>2. IsRecent(q) BY <2>1 DEF Numbered
  <2> QED BY <1>1, <2>1, <2>2
<1>3. CASE PackPushes BY <1>1, <1>3 DEF PackPushes
<1>4. CASE PackAnnounces BY <1>4, Uncounted DEF PackAnnounces, Talk
<1>5. CASE PackAdopts BY <1>5, Uncounted DEF PackAdopts
<1>6. CASE PackResets
  <2>1. owed' = {} /\ UNCHANGED <<seq, sends, said>> BY <1>6 DEF PackResets
  <2> QED BY <2>1 DEF Numbered, IsRecent, Recent, Sequence
<1> QED BY <1>2, <1>3, <1>4, <1>5, <1>6 DEF Pack

LEMMA NumberedKept == IInv /\ Numbered /\ [Next]_vars => Numbered'
<1> SUFFICES ASSUME IInv, Numbered, [Next]_vars PROVE Numbered' OBVIOUS
<1>1. CASE Begin
  <2>1. owed' = {} /\ said' = {} BY <1>1 DEF Begin
  <2> QED BY <2>1 DEF Numbered
<1>2. CASE Query BY <1>2, QueryIsNumbered
<1>3. CASE SendBoot BY <1>3, BootIsNumbered
<1>4. CASE Pack BY <1>4, PackIsNumbered
<1>5. CASE Listen \/ Receive \/ OpenWindow \/ WindowReceive \/ CloseWindow
  <2>1. UNCHANGED <<seq, sends, owed, said>>
    BY <1>5 DEF Listen, Receive, OpenWindow, WindowReceive, CloseWindow, packVars
  <2> QED BY <2>1, Uncounted
<1>6. CASE Walk
  <2>1. UNCHANGED <<seq, sends, owed, said>>
    BY <1>6, Zenon DEF Walk, WalkCapacity, WalkWord, WalkCut, Judge, Decode, packVars
  <2> QED BY <2>1, Uncounted
<1>7. CASE UNCHANGED vars BY <1>7, Uncounted DEF vars, packVars
<1> QED BY <1>1, <1>2, <1>3, <1>4, <1>5, <1>6, <1>7 DEF Next

\* send_frame() numbers the queries of one read apart, across the wrap of m_seq: no answer
\* to an earlier query of the read, however late, carries the number of a new one, so that
\* "in answer to this very query" is what the match on m_seq decides.  It needs no more
\* than MaxSends <= SeqRange.
THEOREM QueriesAreFresh == Spec => [][QueryIsFresh]_vars
<1>1. Init => Numbered BY DEF Init, Numbered
<1>2. IInv /\ Numbered /\ [Next]_vars => Numbered' BY NumberedKept
<1>3. IInv /\ Numbered /\ [Next]_vars => [QueryIsFresh]_vars
  <2>1. ASSUME IInv, Numbered, Query PROVE QueryIsFresh BY <2>1, QueryIsNumbered
  <2>2. ASSUME ~Query PROVE QueryIsFresh BY <2>2 DEF QueryIsFresh
  <2> QED BY <2>1, <2>2
<1> QED BY Inductive, <1>1, <1>2, <1>3, PTL DEF Spec
=============================================================================
