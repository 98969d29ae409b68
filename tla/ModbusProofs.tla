------------------------------ MODULE ModbusProofs ------------------------------
(* Proofs about module Modbus, for every value of its constants. *)
EXTENDS Modbus, SequenceTheorems, TLAPS

(***************************************************************************)
(* Numbers and sequences                                                    *)
(***************************************************************************)

LEMMA Constants ==
  /\ Count \in Nat /\ Count >= 1 /\ Count <= 127
  /\ Retries \in Nat /\ MaxDrain \in Nat /\ MaxDrain >= 1
  /\ Noise \subseteq Octet /\ Cuts \subseteq Nat /\ Damaged \subseteq Nat
  /\ Spans \subseteq [Registers -> Uint16]
<1>1. /\ Count \in 1..127 /\ Retries \in Nat /\ MaxDrain \in Nat \ {0}
      /\ Noise \subseteq Octet /\ Cuts \subseteq Nat /\ Damaged \subseteq Nat
      /\ Spans \subseteq [Registers -> Uint16]
  BY ModbusAssumption DEF ModbusAssumption
<1> QED BY <1>1

LEMMA SmallIsOctet ==
  ASSUME NEW n \in Nat, n <= 255
  PROVE  n \in Octet
BY DEF Octet

LEMMA SmallIsUint16 ==
  ASSUME NEW n \in Nat, n <= 65535
  PROVE  n \in Uint16
<1>1. MaxUint16 \in Int /\ n <= MaxUint16 BY DEF MaxUint16
<1>2. \A m \in Int : n <= m => n \in 0..m OBVIOUS
<1> QED BY <1>1, <1>2 DEF Uint16

\* The two bytes of a register, and the register back from them.
LEMMA Split ==
  ASSUME NEW n \in Uint16
  PROVE  /\ n \div 256 \in Octet /\ n % 256 \in Octet
         /\ 256 * (n \div 256) + (n % 256) = n
<1>1. n \in Nat /\ n <= MaxUint16
  <2>1. MaxUint16 \in Int BY DEF MaxUint16
  <2> QED BY <2>1 DEF Uint16
<1>2. n <= 65535 BY <1>1 DEF MaxUint16
<1>3. n \div 256 \in Nat /\ n \div 256 <= 255 BY <1>1, <1>2
<1>4. n % 256 \in Nat /\ n % 256 <= 255 BY <1>1
<1>5. 256 * (n \div 256) + (n % 256) = n BY <1>1
<1> QED BY <1>3, <1>4, <1>5, SmallIsOctet

LEMMA Join ==
  ASSUME NEW x \in Octet, NEW y \in Octet
  PROVE  256 * x + y \in Uint16
<1>1. x \in Nat /\ x <= 255 /\ y \in Nat /\ y <= 255 BY DEF Octet
<1>2. 256 * x + y \in Nat /\ 256 * x + y <= 65535 BY <1>1
<1> QED BY <1>2, SmallIsUint16

LEMMA Concatenated ==
  ASSUME NEW S, NEW h \in Seq(S), NEW t \in Seq(S)
  PROVE  /\ h \o t \in Seq(S) /\ Len(h \o t) = Len(h) + Len(t)
         /\ \A i \in 1..Len(h) : (h \o t)[i] = h[i]
         /\ \A i \in 1..Len(t) : (h \o t)[Len(h) + i] = t[i]
<1>1. \A i \in 1..(Len(h) + Len(t)) :
        (h \o t)[i] = IF i <= Len(h) THEN h[i] ELSE t[i - Len(h)]
  BY ConcatProperties, Zenon
<1>2. \A i \in 1..Len(h) : i \in 1..(Len(h) + Len(t)) /\ i <= Len(h) OBVIOUS
<1>3. h \o t \in Seq(S) /\ Len(h \o t) = Len(h) + Len(t) BY ConcatProperties, Zenon
<1>4. \A i \in 1..Len(t) : /\ Len(h) + i \in 1..(Len(h) + Len(t)) /\ ~(Len(h) + i <= Len(h))
                           /\ (Len(h) + i) - Len(h) = i
  OBVIOUS
<1> QED BY <1>1, <1>2, <1>3, <1>4

(***************************************************************************)
(* Replies                                                                  *)
(***************************************************************************)

LEMMA SpanBytesAre ==
  ASSUME NEW s \in [Registers -> Uint16]
  PROVE  /\ SpanBytes(s) \in Seq(Octet) /\ Len(SpanBytes(s)) = 2 * Count
         /\ \A i \in Registers : /\ SpanBytes(s)[2 * i - 1] = s[i] \div 256
                                 /\ SpanBytes(s)[2 * i] = s[i] % 256
<1> DEFINE n == 2 * Count
           f == [i \in 1..n |-> IF i % 2 = 1 THEN s[(i + 1) \div 2] \div 256 ELSE s[i \div 2] % 256]
<1>1. n \in Nat /\ SpanBytes(s) = f BY Constants DEF SpanBytes
<1>2. \A i \in 1..n : f[i] \in Octet
  <2> SUFFICES ASSUME NEW i \in 1..n
               PROVE  (IF i % 2 = 1 THEN s[(i + 1) \div 2] \div 256 ELSE s[i \div 2] % 256) \in Octet
    OBVIOUS
  <2>1. CASE i % 2 = 1
    <3>1. (i + 1) \div 2 \in Registers BY <2>1, Constants DEF Registers
    <3>2. s[(i + 1) \div 2] \in Uint16 BY <3>1
    <3> QED BY <2>1, <3>2, Split
  <2>2. CASE i % 2 # 1
    <3>1. i \div 2 \in Registers BY <2>2, Constants DEF Registers
    <3>2. s[i \div 2] \in Uint16 BY <3>1
    <3> QED BY <2>2, <3>2, Split
  <2> QED BY <2>1, <2>2
<1>3. \A i \in Registers : f[2 * i - 1] = s[i] \div 256 /\ f[2 * i] = s[i] % 256
  <2> SUFFICES ASSUME NEW i \in Registers
               PROVE  f[2 * i - 1] = s[i] \div 256 /\ f[2 * i] = s[i] % 256
    OBVIOUS
  <2>1. i \in Nat /\ i >= 1 /\ i <= Count BY Constants DEF Registers
  <2>2. 2 * i - 1 \in 1..n /\ 2 * i \in 1..n BY <2>1, Constants
  <2>3. (2 * i - 1) % 2 = 1 /\ ((2 * i - 1) + 1) \div 2 = i BY <2>1
  <2>4. (2 * i) % 2 # 1 /\ (2 * i) \div 2 = i BY <2>1
  <2> QED BY <2>2, <2>3, <2>4
<1>4. f \in Seq(Octet) /\ Len(f) = n
  <2> HIDE DEF n
  <2>1. f \in [1..n -> Octet] BY <1>2
  <2> HIDE DEF f
  <2> QED BY <1>1, <2>1
<1> HIDE DEF f
<1> QED BY <1>1, <1>3, <1>4

LEMMA ContentIs ==
  ASSUME NEW s \in [Registers -> Uint16]
  PROVE  /\ Content(s) \in Seq(Octet) /\ Len(Content(s)) = 3 + 2 * Count
         /\ Content(s)[1] = Slave /\ Content(s)[2] = ReadHolding /\ Content(s)[3] = 2 * Count
         /\ \A i \in Registers : /\ Content(s)[2 * i + 2] = s[i] \div 256
                                 /\ Content(s)[2 * i + 3] = s[i] % 256
<1> DEFINE n == 2 * Count
           h == <<Slave, ReadHolding, n>>
           t == SpanBytes(s)
<1>1. n \in Octet
  <2>1. n \in Nat /\ n <= 255 BY Constants
  <2> QED BY <2>1, SmallIsOctet
<1>2. Slave \in Octet /\ ReadHolding \in Octet BY DEF Slave, ReadHolding, Octet
<1> HIDE DEF n
<1>3. h \in Seq(Octet) /\ Len(h) = 3 /\ h[1] = Slave /\ h[2] = ReadHolding /\ h[3] = n
  BY <1>1, <1>2
<1> HIDE DEF h
<1>4. /\ t \in Seq(Octet) /\ Len(t) = n
      /\ \A i \in Registers : t[2 * i - 1] = s[i] \div 256 /\ t[2 * i] = s[i] % 256
  BY SpanBytesAre DEF n
<1> HIDE DEF t
<1>5. Content(s) = h \o t BY DEF Content, h, t, n
<1>6. /\ h \o t \in Seq(Octet) /\ Len(h \o t) = Len(h) + Len(t)
      /\ \A i \in 1..Len(h) : (h \o t)[i] = h[i]
      /\ \A i \in 1..Len(t) : (h \o t)[Len(h) + i] = t[i]
  <2>1. h \in Seq(Octet) /\ t \in Seq(Octet) BY <1>3, <1>4
  <2>2. \A u, v \in Seq(Octet) :
          /\ u \o v \in Seq(Octet) /\ Len(u \o v) = Len(u) + Len(v)
          /\ \A i \in 1..Len(u) : (u \o v)[i] = u[i]
          /\ \A i \in 1..Len(v) : (u \o v)[Len(u) + i] = v[i]
    BY Concatenated
  <2> QED BY <2>1, <2>2, Zenon
<1> DEFINE c == h \o t
<1> HIDE DEF c
<1>7. c \in Seq(Octet) /\ Len(c) = 3 + n BY <1>3, <1>4, <1>6 DEF c
<1>8. c[1] = Slave /\ c[2] = ReadHolding /\ c[3] = n
  <2>1. 1 \in 1..Len(h) /\ 2 \in 1..Len(h) /\ 3 \in 1..Len(h) BY <1>3
  <2> QED BY <1>3, <1>6, <2>1 DEF c
<1>9. \A i \in Registers : c[2 * i + 2] = s[i] \div 256 /\ c[2 * i + 3] = s[i] % 256
  <2> SUFFICES ASSUME NEW i \in Registers
               PROVE  c[2 * i + 2] = s[i] \div 256 /\ c[2 * i + 3] = s[i] % 256
    OBVIOUS
  <2>1. i \in Nat /\ i >= 1 /\ i <= Count BY Constants DEF Registers
  <2>2. 2 * i - 1 \in 1..n /\ 2 * i \in 1..n BY <2>1, Constants DEF n
  <2>3. c[3 + (2 * i - 1)] = t[2 * i - 1] /\ c[3 + 2 * i] = t[2 * i] BY <1>3, <1>4, <1>6, <2>2 DEF c
  <2>4. 3 + (2 * i - 1) = 2 * i + 2 /\ 3 + 2 * i = 2 * i + 3 BY <2>1
  <2> QED BY <1>4, <2>3, <2>4
<1> QED BY <1>5, <1>7, <1>8, <1>9 DEF c, n

LEMMA RefusalIs ==
  /\ Refusal \in Seq(Octet) /\ Len(Refusal) = 3
  /\ Refusal[1] = Slave /\ Refusal[2] = ReadHolding + Refused
BY DEF Refusal, Slave, ReadHolding, Refused, Octet

LEMMA ContentsAre ==
  ASSUME NEW c \in Contents
  PROVE  c \in Seq(Octet) /\ c # <<>>
<1>1. CASE c = Refusal
  <2>1. c \in Seq(Octet) /\ Len(c) > 0 BY <1>1, RefusalIs
  <2> QED BY <2>1
<1>2. ASSUME NEW s \in Spans, c = Content(s) PROVE c \in Seq(Octet) /\ c # <<>>
  <2>1. s \in [Registers -> Uint16] BY Constants
  <2>2. c \in Seq(Octet) /\ Len(c) = 3 + 2 * Count BY <1>2, <2>1, ContentIs
  <2>3. Len(c) > 0 BY <2>2, Constants
  <2> QED BY <2>2, <2>3
<1> QED BY <1>1, <1>2 DEF Contents

\* Bytes that are the checksum of nothing else than contents of S.
Of(q, S) == \A i \in 1..Len(q) : q[i].of = <<>> \/ q[i].of \in S

LEMMA ByteTyped ==
  ASSUME NEW v \in Octet
  PROVE  Byte(v) \in Bytes /\ Byte(v).of = <<>>
BY DEF Byte, Bytes

LEMMA FramedTyped ==
  ASSUME NEW c \in Contents
  PROVE  Framed(c) \in Seq(Bytes) /\ Of(Framed(c), {c})
<1>1. c \in Seq(Octet) BY ContentsAre
<1> DEFINE p == [i \in 1..Len(c) |-> Byte(c[i])]
           e == Crc(c)
<1>2. p \in Seq(Bytes) /\ Len(p) = Len(c) /\ \A i \in 1..Len(c) : p[i].of = <<>>
  <2>1. Len(c) \in Nat /\ \A i \in 1..Len(c) : c[i] \in Octet BY <1>1
  <2>2. \A i \in 1..Len(c) : Byte(c[i]) \in Bytes /\ Byte(c[i]).of = <<>> BY <2>1, ByteTyped
  <2>3. p \in [1..Len(c) -> Bytes] BY <2>2
  <2>4. \A i \in 1..Len(c) : p[i].of = <<>> BY <2>2
  <2> HIDE DEF p
  <2> QED BY <2>1, <2>3, <2>4
<1>3. e \in Seq(Bytes) /\ Len(e) = 2 /\ e[1].of = c /\ e[2].of = c
  <2>1. 0 \in Octet /\ 1 \in Octet BY DEF Octet
  <2> QED BY <2>1 DEF Crc, Bytes
<1>4. Framed(c) = p \o e BY DEF Framed
<1> HIDE DEF p, e
<1>5. /\ p \o e \in Seq(Bytes) /\ Len(p \o e) = Len(p) + Len(e)
      /\ \A i \in 1..Len(p) : (p \o e)[i] = p[i]
      /\ \A i \in 1..Len(e) : (p \o e)[Len(p) + i] = e[i]
  BY <1>2, <1>3, Concatenated
<1>6. \A i \in 1..Len(p \o e) : (p \o e)[i].of \in {<<>>, c}
  <2> SUFFICES ASSUME NEW i \in 1..Len(p \o e) PROVE (p \o e)[i].of \in {<<>>, c}
    OBVIOUS
  <2>1. Len(p) \in Nat /\ i \in Nat /\ i >= 1 /\ i <= Len(p) + 2 BY <1>2, <1>3, <1>5
  <2>2. CASE i <= Len(p)
    <3>1. i \in 1..Len(p) BY <2>1, <2>2
    <3> QED BY <1>2, <1>5, <3>1
  <2>3. CASE i > Len(p)
    <3>1. PICK k \in 1..2 : i = Len(p) + k
      <4>1. i - Len(p) \in 1..2 /\ i = Len(p) + (i - Len(p)) BY <2>1, <2>3
      <4> QED BY <4>1
    <3>2. (p \o e)[i] = e[k] BY <1>3, <1>5, <3>1
    <3> QED BY <1>3, <3>1, <3>2
  <2> QED BY <2>1, <2>2, <2>3
<1> QED BY <1>4, <1>5, <1>6 DEF Of

LEMMA Repliable ==
  ASSUME NEW c \in Contents, NEW r \in {Whole(c)} \cup Torn(c)
  PROVE  r \in Seq(Bytes) /\ Of(r, {c})
<1> DEFINE w == Framed(c)
<1>1. w \in Seq(Bytes) /\ Of(w, {c}) BY FramedTyped
<1>2. Whole(c) = w BY DEF Whole
<1>3. ASSUME NEW k \in 1..Len(w), r = SubSeq(w, 1, k)
      PROVE  r \in Seq(Bytes) /\ Of(r, {c})
  <2> HIDE DEF w
  <2>1. Len(w) \in Nat /\ k \in Nat /\ k <= Len(w) BY <1>1
  <2>2. r \in Seq(Bytes) /\ Len(r) = k /\ \A i \in 1..k : r[i] = w[i] /\ i \in 1..Len(w)
    BY <1>1, <1>3, <2>1
  <2> QED BY <1>1, <2>2 DEF Of
<1>4. ASSUME NEW p \in 1..Len(w), NEW b \in Noise, r = [w EXCEPT ![p] = Byte(b)]
      PROVE  r \in Seq(Bytes) /\ Of(r, {c})
  <2> HIDE DEF w
  <2>1. Byte(b) \in Bytes /\ Byte(b).of = <<>> BY Constants, ByteTyped
  <2>2. r \in Seq(Bytes) /\ Len(r) = Len(w)
        /\ \A i \in 1..Len(w) : r[i] = IF i = p THEN Byte(b) ELSE w[i]
    BY <1>1, <1>4, <2>1
  <2> QED BY <1>1, <2>1, <2>2 DEF Of
<1>5. r = w \/ (\E k \in 1..Len(w) : r = SubSeq(w, 1, k))
      \/ (\E p \in 1..Len(w), b \in Noise : r = [w EXCEPT ![p] = Byte(b)])
  <2>1. r = Whole(c) \/ r \in Torn(c) OBVIOUS
  <2> QED BY <2>1, <1>2 DEF Torn
<1> QED BY <1>1, <1>3, <1>4, <1>5

LEMMA OfMore ==
  ASSUME NEW q, NEW S, NEW T, Of(q, S), S \subseteq T
  PROVE  Of(q, T)
BY DEF Of

LEMMA OfEmpty ==
  ASSUME NEW S
  PROVE  Of(<<>>, S) /\ <<>> \in Seq(Bytes)
BY DEF Of

LEMMA OfTail ==
  ASSUME NEW q \in Seq(Bytes), NEW S, Of(q, S), q # <<>>
  PROVE  /\ Tail(q) \in Seq(Bytes) /\ Of(Tail(q), S)
         /\ Head(q) \in Bytes /\ (Head(q).of = <<>> \/ Head(q).of \in S)
<1>1. Len(q) \in Nat /\ Len(q) >= 1 /\ Head(q) = q[1] BY EmptySeq, LenProperties
<1>2. /\ Tail(q) \in Seq(Bytes) /\ Len(Tail(q)) = Len(q) - 1
      /\ \A i \in 1..Len(Tail(q)) : Tail(q)[i] = q[i + 1]
  BY <1>1
<1>3. \A i \in 1..Len(Tail(q)) : i + 1 \in 1..Len(q) BY <1>1, <1>2
<1>4. 1 \in 1..Len(q) BY <1>1
<1> QED BY <1>1, <1>2, <1>3, <1>4 DEF Of

LEMMA OfAppend ==
  ASSUME NEW q \in Seq(Bytes), NEW S, Of(q, S), NEW b \in Bytes, b.of = <<>> \/ b.of \in S
  PROVE  Append(q, b) \in Seq(Bytes) /\ Of(Append(q, b), S)
<1>1. Len(q) \in Nat BY LenProperties
<1>2. /\ Append(q, b) \in Seq(Bytes) /\ Len(Append(q, b)) = Len(q) + 1
      /\ \A i \in 1..(Len(q) + 1) : Append(q, b)[i] = IF i \in 1..Len(q) THEN q[i] ELSE b
  BY <1>1
<1> QED BY <1>2 DEF Of

(***************************************************************************)
(* Verdicts                                                                 *)
(***************************************************************************)

\* A checksum that matches is the checksum of a reply that was sent.
LEMMA MatchIsSent ==
  ASSUME NEW r \in Seq(Bytes), NEW S, Of(r, S), NEW n \in Nat, n >= 1, n + 2 <= Len(r),
         CrcMatches(r, n)
  PROVE  Values(r, n) \in S
<1>1. Len(r) \in Nat BY LenProperties
<1>2. SubSeq(r, n + 1, n + 2)[1] = r[n + 1] BY <1>1
<1>3. r[n + 1].of = Values(r, n)
  <2>1. SubSeq(r, n + 1, n + 2) = Crc(Values(r, n)) BY Zenon DEF CrcMatches
  <2>2. Crc(Values(r, n))[1].of = Values(r, n) BY DEF Crc
  <2> QED BY <1>2, <2>1, <2>2
<1>4. n + 1 \in 1..Len(r) BY <1>1
<1>5. Values(r, n) # <<>>
  <2>1. DOMAIN Values(r, n) = 1..n /\ 1 \in 1..n BY DEF Values
  <2>2. DOMAIN <<>> = {} OBVIOUS
  <2> QED BY <2>1, <2>2
<1> QED BY <1>3, <1>4, <1>5 DEF Of

LEMMA RefusalBelieved ==
  ASSUME NEW r \in Seq(Bytes), NEW S \in SUBSET Contents, Of(r, S),
         Len(r) >= 3, r[2].v >= Refused, RefusalVerdict(r) = "exception"
  PROVE  Refusal \in S
<1>1. Len(r) >= 5 /\ CrcMatches(r, 3) BY DEF RefusalVerdict, RefusalLength
<1>2. Len(r) \in Nat BY LenProperties
<1>3. Values(r, 3) \in S BY <1>1, <1>2, MatchIsSent
<1>4. Values(r, 3)[2] = r[2].v BY DEF Values
<1>5. ASSUME NEW s \in Spans, Values(r, 3) = Content(s) PROVE FALSE
  <2>1. Content(s)[2] = ReadHolding BY Constants, ContentIs
  <2> QED BY <2>1, <1>4, <1>5 DEF ReadHolding, Refused
<1> QED BY <1>3, <1>5 DEF Contents

LEMMA SpanBelieved ==
  ASSUME NEW r \in Seq(Bytes), NEW S \in SUBSET Contents, Of(r, S),
         Len(r) >= SpanLength, SpanVerdict(r) = "ok"
  PROVE  \E s \in Spans : Content(s) \in S /\ [i \in Registers |-> Word(r, i)] = s
<1> DEFINE n == SpanLength - 2
           c == Values(r, n)
<1>1. r[2].v = ReadHolding /\ CrcMatches(r, n) BY DEF SpanVerdict
<1>2. n \in Nat /\ n = 3 + 2 * Count /\ n + 2 <= Len(r) BY Constants, LenProperties DEF SpanLength
<1>3. c \in S
  <2> HIDE DEF n
  <2>1. n >= 1 BY <1>2, Constants
  <2> QED BY <1>1, <1>2, <2>1, MatchIsSent
<1>4. \A i \in 1..n : c[i] = r[i].v BY DEF Values
<1>5. c # Refusal
  <2>1. 2 \in 1..n BY <1>2, Constants
  <2>2. c[2] = ReadHolding BY <1>1, <1>4, <2>1
  <2> QED BY <2>2, RefusalIs DEF ReadHolding, Refused
<1> HIDE DEF c, n
<1>6. PICK s \in Spans : c = Content(s) BY <1>3, <1>5 DEF Contents
<1>7. s \in [Registers -> Uint16] BY Constants
<1>8. \A i \in Registers : Word(r, i) = s[i]
  <2> SUFFICES ASSUME NEW i \in Registers PROVE Word(r, i) = s[i]
    OBVIOUS
  <2>1. i \in Nat /\ i >= 1 /\ i <= Count BY Constants DEF Registers
  <2>2. 2 * i + 2 \in 1..n /\ 2 * i + 3 \in 1..n BY <2>1, <1>2, Constants
  <2>3. r[2 * i + 2].v = s[i] \div 256 /\ r[2 * i + 3].v = s[i] % 256
    BY <1>4, <1>6, <1>7, <2>2, ContentIs
  <2>4. s[i] \in Uint16 BY <1>7
  <2> QED BY <2>3, <2>4, Split DEF Word
<1>9. [i \in Registers |-> Word(r, i)] = s BY <1>7, <1>8
<1> QED BY <1>3, <1>6, <1>9
(***************************************************************************)
(* The invariant                                                            *)
(***************************************************************************)

\* No byte is the checksum of a reply that was not sent during this read.
Traced == Of(fifo, sent) /\ Of(line, sent) /\ Of(got, sent)

\* The rail is down between reads, and an attempt's bytes do not outlive it.
Quiet ==
  /\ phase = "off" => fifo = <<>> /\ line = <<>>
  /\ phase # "reply" => got = <<>>

\* An attempt waits for an exception once it has seen one, and for a span otherwise.
Awaited == IF Len(got) >= 2 /\ got[2].v >= Refused THEN RefusalLength ELSE SpanLength
Waits == expected = Awaited

\* The registers a read ended with were sent to it.
Accepted ==
  phase = "done" /\ result = "ok" => \E s \in Spans : Content(s) \in sent /\ regs = s

Steps == {"off", "drain", "settle", "reply", "done"}
Results == {"ok", "timeout", "bad crc", "bad frame", "exception", "unsampled"}

ControlOK == phase \in Steps /\ attempt \in 0..Retries /\ dropped \in 0..MaxDrain
BusOK ==
  /\ fifo \in Seq(Bytes) /\ line \in Seq(Bytes) /\ owed \in Nat
  /\ got \in Seq(Bytes) /\ heard \in Seq(Bytes) /\ sent \subseteq Contents
ResultOK ==
  /\ expected \in {SpanLength, RefusalLength}
  /\ result \in Results
  /\ regs \in [Registers -> Uint16]
  /\ DOMAIN reading \subseteq Registers
  /\ bounded \in BOOLEAN /\ early \in BOOLEAN

LEMMA TypeGroups == TypeOK <=> ControlOK /\ BusOK /\ ResultOK
BY DEF TypeOK, ControlOK, BusOK, ResultOK, Steps, Results

IInv ==
  /\ ControlOK /\ BusOK /\ ResultOK
  /\ Traced /\ Quiet /\ Waits /\ Accepted /\ VerdictWasSent

LEMMA InitIInv == Init => IInv
<1> SUFFICES ASSUME Init PROVE IInv OBVIOUS
<1> USE DEF Init
<1>1. ControlOK
  <2>1. 0 \in 0..Retries /\ 0 \in 0..MaxDrain BY Constants
  <2> QED BY <2>1 DEF ControlOK, Steps
<1>2. BusOK BY OfEmpty DEF BusOK
<1>3. ResultOK
  <2>1. regs \in [Registers -> Uint16]
    <3>1. 0 \in Uint16 BY SmallIsUint16
    <3> QED BY <3>1 DEF Blank
  <2>2. DOMAIN reading = {} OBVIOUS
  <2> QED BY <2>1, <2>2 DEF ResultOK, Results
<1>4. Traced BY OfEmpty DEF Traced
<1>5. Quiet /\ Accepted BY DEF Quiet, Accepted
<1>6. Waits BY DEF Waits, Awaited
<1>7. VerdictWasSent
  <2>1. DOMAIN reading = {} OBVIOUS
  <2> QED BY <2>1 DEF VerdictWasSent
<1> QED BY <1>1, <1>2, <1>3, <1>4, <1>5, <1>6, <1>7 DEF IInv

\* What has been reported stays true while more is sent.
LEMMA VerdictKept ==
  ASSUME VerdictWasSent, reading' = reading, sent \subseteq sent',
         result' = "exception" => Refusal \in sent'
  PROVE  VerdictWasSent'
<1>1. DOMAIN reading' = DOMAIN reading OBVIOUS
<1>2. DOMAIN reading # {} =>
       \E s \in Spans :
         /\ Content(s) \in sent
         /\ \A i \in DOMAIN reading : reading[i] = s[i]
         /\ Count \in DOMAIN reading => s[Count] # 0
         /\ \E i \in Registers : s[i] # 0
  BY Zenon DEF VerdictWasSent
<1>3. DOMAIN reading # {} =>
       \E s \in Spans :
         /\ Content(s) \in sent'
         /\ \A i \in DOMAIN reading : reading[i] = s[i]
         /\ Count \in DOMAIN reading => s[Count] # 0
         /\ \E i \in Registers : s[i] # 0
  BY <1>2
<1>4. DOMAIN reading' # {} =>
       \E s \in Spans :
         /\ Content(s) \in sent'
         /\ \A i \in DOMAIN reading' : reading'[i] = s[i]
         /\ Count \in DOMAIN reading' => s[Count] # 0
         /\ \E i \in Registers : s[i] # 0
  BY <1>3, Zenon
<1> QED BY <1>4, Zenon DEF VerdictWasSent

LEMMA PowerOnKeeps == ASSUME IInv, PowerOn PROVE IInv'
<1> USE DEF IInv
<1>1. /\ phase = "off" /\ phase' = "drain" /\ attempt' = 0 /\ result' = "timeout"
      /\ reading' = <<>> /\ sent' = {}
      /\ UNCHANGED <<dropped, fifo, line, owed, got, expected, regs, heard, bounded, early>>
  BY DEF PowerOn
<1>2. ControlOK'
  <2>1. 0 \in 0..Retries BY Constants
  <2> QED BY <1>1, <2>1 DEF ControlOK, Steps
<1>3. BusOK' BY <1>1 DEF BusOK
<1>4. DOMAIN reading' = {} BY <1>1
<1>5. ResultOK' BY <1>1, <1>4 DEF ResultOK, Results
<1>6. fifo' = <<>> /\ line' = <<>> /\ got' = <<>> BY <1>1 DEF Quiet
<1>7. Traced' BY <1>6, OfEmpty DEF Traced
<1>8. Quiet' /\ Accepted' BY <1>1, <1>6 DEF Quiet, Accepted
<1>9. Waits' BY <1>1 DEF Waits, Awaited
<1>10. VerdictWasSent' BY <1>1, <1>4 DEF VerdictWasSent
<1> QED BY <1>2, <1>3, <1>5, <1>7, <1>8, <1>9, <1>10

LEMMA AnswerKeeps == ASSUME IInv, Answer PROVE IInv'
<1> USE DEF IInv
<1>1. PICK c \in Contents :
        /\ sent' = sent \cup {c}
        /\ \E r \in {Whole(c)} \cup Torn(c) : line' = r
  BY DEF Answer
<1>2. /\ owed > 0 /\ owed' = owed - 1
      /\ UNCHANGED <<phase, attempt, dropped, fifo, got, expected, resultVars,
                     heard, bounded, early>>
      /\ phase # "off"
  BY DEF Answer
<1>3. line' \in Seq(Bytes) /\ Of(line', {c}) BY <1>1, Repliable
<1>4. sent \subseteq sent' /\ {c} \subseteq sent' BY <1>1
<1>5. BusOK' BY <1>1, <1>2, <1>3 DEF BusOK
<1>6. ControlOK' /\ ResultOK' BY <1>2 DEF ControlOK, ResultOK, resultVars
<1>7. Traced' BY <1>2, <1>3, <1>4, OfMore DEF Traced
<1>8. Quiet' /\ Waits' BY <1>2 DEF Quiet, Waits, Awaited
<1>9. Accepted' BY <1>2, <1>4 DEF Accepted, resultVars
<1>10. VerdictWasSent'
  <2>1. reading' = reading /\ result' = result BY <1>2 DEF resultVars
  <2>2. result = "exception" => Refusal \in sent BY DEF VerdictWasSent
  <2> QED BY <2>1, <2>2, <1>4, VerdictKept
<1> QED BY <1>5, <1>6, <1>7, <1>8, <1>9, <1>10

\* A byte that reaches the buffer, wherever it came from.
LEMMA ReceiveKeeps ==
  ASSUME IInv, NEW b \in Bytes, b.of = <<>> \/ b.of \in sent, Receive(b),
         line' \in Seq(Bytes), Of(line', sent)
  PROVE  IInv'
<1> USE DEF IInv
<1>1. /\ phase # "off" /\ fifo' = Append(fifo, b)
      /\ heard' = IF phase \in {"settle", "reply"} THEN Hear(b) ELSE heard
      /\ UNCHANGED <<phase, attempt, dropped, owed, sent, got, expected, resultVars,
                     bounded, early>>
  BY DEF Receive
<1>2. fifo' \in Seq(Bytes) /\ Of(fifo', sent) BY <1>1, OfAppend DEF BusOK, Traced
<1>3. heard' \in Seq(Bytes)
  <2>1. Append(heard, b) \in Seq(Bytes) BY DEF BusOK
  <2>2. Garbled \in Seq(Bytes)
    <3>1. 255 \in Octet BY SmallIsOctet
    <3>2. Byte(255) \in Bytes BY <3>1, ByteTyped
    <3> QED BY <3>2 DEF Garbled
  <2> QED BY <1>1, <2>1, <2>2 DEF Hear, BusOK
<1>4. BusOK' BY <1>1, <1>2, <1>3 DEF BusOK
<1>5. ControlOK' /\ ResultOK' BY <1>1 DEF ControlOK, ResultOK, resultVars
<1>6. Traced' BY <1>1, <1>2 DEF Traced
<1>7. Quiet' /\ Waits' BY <1>1 DEF Quiet, Waits, Awaited
<1>8. Accepted' BY <1>1 DEF Accepted, resultVars
<1>9. VerdictWasSent' BY <1>1 DEF VerdictWasSent, resultVars
<1> QED BY <1>4, <1>5, <1>6, <1>7, <1>8, <1>9

LEMMA ArriveKeeps == ASSUME IInv, Arrive PROVE IInv'
<1>1. line # <<>> /\ Receive(Head(line)) /\ line' = Tail(line) BY DEF Arrive
<1>2. line \in Seq(Bytes) /\ Of(line, sent) BY DEF IInv, BusOK, Traced
<1>3. /\ Tail(line) \in Seq(Bytes) /\ Of(Tail(line), sent)
      /\ Head(line) \in Bytes /\ (Head(line).of = <<>> \/ Head(line).of \in sent)
  BY <1>1, <1>2, OfTail
<1> QED BY <1>1, <1>3, ReceiveKeeps

LEMMA BabbleKeeps == ASSUME IInv, Babble PROVE IInv'
<1>1. PICK b \in Noise : Receive(Byte(b)) BY DEF Babble
<1>2. line' = line BY DEF Babble
<1>3. Byte(b) \in Bytes /\ Byte(b).of = <<>> BY Constants, ByteTyped
<1>4. line \in Seq(Bytes) /\ Of(line, sent) BY DEF IInv, BusOK, Traced
<1> QED BY <1>1, <1>2, <1>3, <1>4, ReceiveKeeps

\* The end of a drain, of the two kinds.
LEMMA SettledKeeps ==
  ASSUME IInv, NEW stopped \in BOOLEAN, phase = "drain", Settled(stopped),
         fifo' \in Seq(Bytes), Of(fifo', sent),
         UNCHANGED <<attempt, line, owed, got, expected, resultVars, sent>>
  PROVE  IInv'
<1> USE DEF IInv
<1>1. /\ phase' = "settle" /\ dropped' = 0 /\ heard' = <<>> /\ bounded' = stopped
      /\ early' = FALSE
  BY DEF Settled
<1>2. ControlOK'
  <2>1. 0 \in 0..MaxDrain BY Constants
  <2> QED BY <1>1, <2>1 DEF ControlOK, Steps
<1>3. BusOK' BY <1>1, OfEmpty DEF BusOK
<1>4. ResultOK'
  <2>1. early' \in BOOLEAN BY <1>1
  <2> QED BY <1>1, <2>1 DEF ResultOK, resultVars
<1>5. Traced' BY DEF Traced
<1>6. Quiet' /\ Waits' /\ Accepted' BY <1>1 DEF Quiet, Waits, Awaited, Accepted
<1>7. VerdictWasSent' BY DEF VerdictWasSent, resultVars
<1> QED BY <1>2, <1>3, <1>4, <1>5, <1>6, <1>7

LEMMA DrainKeeps == ASSUME IInv, Drain PROVE IInv'
<1>1. /\ phase = "drain" /\ fifo # <<>> /\ fifo' = Tail(fifo)
      /\ UNCHANGED <<attempt, line, owed, got, expected, resultVars, sent>>
      /\ \E stop \in Stops(dropped + 1) :
           IF stop THEN Settled(TRUE)
           ELSE /\ dropped' = IF dropped < MaxDrain THEN dropped + 1 ELSE dropped
                /\ UNCHANGED <<phase, heard, bounded, early>>
  BY DEF Drain, Available
<1>2. fifo' \in Seq(Bytes) /\ Of(fifo', sent) BY <1>1, OfTail DEF IInv, BusOK, Traced
<1>3. CASE Settled(TRUE) BY <1>1, <1>2, <1>3, SettledKeeps
<1>4. CASE /\ dropped' = IF dropped < MaxDrain THEN dropped + 1 ELSE dropped
           /\ UNCHANGED <<phase, heard, bounded, early>>
  <2> USE DEF IInv
  <2>1. dropped' \in 0..MaxDrain BY <1>4, Constants DEF ControlOK
  <2>2. ControlOK' BY <1>1, <1>4, <2>1 DEF ControlOK
  <2>3. BusOK' BY <1>1, <1>2, <1>4 DEF BusOK
  <2>4. ResultOK' BY <1>1, <1>4 DEF ResultOK, resultVars
  <2>5. Traced' BY <1>1, <1>2 DEF Traced
  <2>6. Quiet' /\ Waits' BY <1>1, <1>4 DEF Quiet, Waits, Awaited
  <2>7. Accepted' BY <1>1, <1>4 DEF Accepted
  <2>8. VerdictWasSent' BY <1>1 DEF VerdictWasSent, resultVars
  <2> QED BY <2>2, <2>3, <2>4, <2>5, <2>6, <2>7, <2>8
<1> QED BY <1>1, <1>3, <1>4

LEMMA SilentKeeps == ASSUME IInv, Silent PROVE IInv'
<1>1. /\ phase = "drain" /\ Settled(FALSE)
      /\ UNCHANGED <<attempt, fifo, line, owed, got, expected, resultVars, sent>>
  BY DEF Silent, busVars
<1>2. fifo' \in Seq(Bytes) /\ Of(fifo', sent) BY <1>1 DEF IInv, BusOK, Traced
<1> QED BY <1>1, <1>2, SettledKeeps

LEMMA RequestKeeps == ASSUME IInv, Request PROVE IInv'
<1> USE DEF IInv
<1>1. /\ phase = "settle" /\ phase' = "reply" /\ owed' = owed + 1
      /\ UNCHANGED <<attempt, dropped, fifo, line, got, expected, resultVars, sent, heard,
                     bounded, early>>
  BY DEF Request
<1>2. ControlOK' /\ BusOK' BY <1>1 DEF ControlOK, Steps, BusOK
<1>3. ResultOK' BY <1>1 DEF ResultOK, resultVars
<1>4. Traced' BY <1>1 DEF Traced
<1>5. Quiet' /\ Waits' /\ Accepted' BY <1>1 DEF Quiet, Waits, Awaited, Accepted
<1>6. VerdictWasSent' BY <1>1 DEF VerdictWasSent, resultVars
<1> QED BY <1>2, <1>3, <1>4, <1>5, <1>6

LEMMA ReadKeeps == ASSUME IInv, Read PROVE IInv'
<1> USE DEF IInv
<1>1. /\ phase = "reply" /\ fifo # <<>> /\ got' = Append(got, Head(fifo))
      /\ fifo' = Tail(fifo) /\ expected' = Expect(got')
      /\ UNCHANGED <<phase, attempt, dropped, line, owed, resultVars, sent, heard,
                     bounded, early>>
  BY DEF Read
<1>2. /\ fifo' \in Seq(Bytes) /\ Of(fifo', sent)
      /\ Head(fifo) \in Bytes /\ (Head(fifo).of = <<>> \/ Head(fifo).of \in sent)
  BY <1>1, OfTail DEF BusOK, Traced
<1>3. got' \in Seq(Bytes) /\ Of(got', sent) BY <1>1, <1>2, OfAppend DEF BusOK, Traced
<1>4. Waits'
  <2>1. got \in Seq(Bytes) /\ Len(got) \in Nat BY LenProperties DEF BusOK
  <2>2. /\ Len(got') = Len(got) + 1
        /\ \A i \in 1..Len(got) : got'[i] = got[i]
    BY <1>1, <1>2, <2>1
  <2>3. expected' = IF Len(got') = 2 /\ got'[2].v >= Refused THEN RefusalLength ELSE expected
    BY <1>1 DEF Expect
  <2>4. Len(got) >= 2 => 2 \in 1..Len(got) BY <2>1
  <2>5. CASE Len(got) = 1 BY <2>2, <2>3, <2>5 DEF Waits, Awaited
  <2>6. CASE Len(got) # 1 BY <2>1, <2>2, <2>3, <2>4, <2>6 DEF Waits, Awaited
  <2> QED BY <2>5, <2>6
<1>5. ControlOK' /\ BusOK' BY <1>1, <1>2, <1>3 DEF ControlOK, BusOK
<1>6. ResultOK'
  <2>1. expected' \in {SpanLength, RefusalLength} BY <1>4 DEF Waits, Awaited
  <2> QED BY <1>1, <2>1 DEF ResultOK, resultVars
<1>7. Traced' BY <1>1, <1>2, <1>3 DEF Traced
<1>8. Quiet' /\ Accepted' BY <1>1 DEF Quiet, Accepted
<1>9. VerdictWasSent' BY <1>1 DEF VerdictWasSent, resultVars
<1> QED BY <1>4, <1>5, <1>6, <1>7, <1>8, <1>9

\* An attempt may only end with a verdict its bytes support.
Supported(v) ==
  /\ v \in {"ok", "timeout", "bad crc", "bad frame", "exception"}
  /\ v = "ok" =>
       \E s \in Spans : Content(s) \in sent /\ [i \in Registers |-> Word(got, i)] = s
  /\ v = "exception" => Refusal \in sent

LEMMA VerdictSupported ==
  ASSUME IInv
  PROVE  Supported(Verdict(got, expected))
<1> DEFINE v == Verdict(got, expected)
<1> USE DEF IInv
<1>1. /\ got \in Seq(Bytes) /\ Of(got, sent) /\ sent \in SUBSET Contents
      /\ Len(got) \in Nat
  BY LenProperties DEF BusOK, Traced
<1>2. CASE Len(got) < 3
  <2>1. v = "timeout" BY <1>2 DEF Verdict
  <2> QED BY <2>1 DEF Supported
<1>3. CASE Len(got) >= 3 /\ got[2].v >= Refused
  <2> DEFINE w == RefusalVerdict(got)
             u == SpanVerdict(got)
  <2>1. v = w
    <3>1. ~(Len(got) < 3) BY <1>1, <1>3
    <3>2. ~(got[2].v < Refused)
      <4>1. got[2] \in Bytes BY <1>1, <1>3
      <4>2. got[2].v \in Octet BY <4>1 DEF Bytes
      <4>3. got[2].v \in Int BY <4>2 DEF Octet
      <4> QED BY <4>3, <1>3 DEF Refused
    <3>3. v = CASE Len(got) < 3 -> "timeout"
                [] Len(got) >= 3 /\ got[2].v >= Refused -> w
                [] Len(got) >= 3 /\ got[2].v < Refused /\ Len(got) < expected -> "timeout"
                [] OTHER -> u
      BY Zenon DEF Verdict
    <3> HIDE DEF v, w, u
    <3> QED BY <1>3, <3>1, <3>2, <3>3
  <2>2. v \in {"exception", "bad frame"} BY <2>1 DEF RefusalVerdict
  <2>3. v = "exception" => Refusal \in sent BY <1>1, <1>3, <2>1, RefusalBelieved
  <2> QED BY <2>2, <2>3 DEF Supported
<1>4. CASE Len(got) >= 3 /\ ~(got[2].v >= Refused)
  <2>1. expected = SpanLength BY <1>4 DEF Waits, Awaited
  <2>2. got[2].v < Refused
    <3>1. got[2] \in Bytes BY <1>1, <1>4
    <3>2. got[2].v \in Octet BY <3>1 DEF Bytes
    <3>3. got[2].v \in Int BY <3>2 DEF Octet
    <3> QED BY <3>3, <1>4 DEF Refused
  <2>3. SpanLength \in Nat BY Constants DEF SpanLength
  <2>4. CASE Len(got) < expected
    <3>1. v = "timeout" BY <1>1, <1>4, <2>2, <2>4 DEF Verdict
    <3> QED BY <3>1 DEF Supported
  <2>5. CASE ~(Len(got) < expected)
    <3>1. v = SpanVerdict(got) BY <1>1, <1>4, <2>2, <2>5 DEF Verdict
    <3>2. v \in {"ok", "bad frame", "bad crc"} BY <3>1 DEF SpanVerdict
    <3>3. Len(got) >= SpanLength BY <1>1, <2>1, <2>3, <2>5
    <3>4. v = "ok" =>
            \E s \in Spans : Content(s) \in sent /\ [i \in Registers |-> Word(got, i)] = s
      BY <1>1, <3>1, <3>3, SpanBelieved
    <3> QED BY <3>2, <3>4 DEF Supported
  <2> QED BY <2>4, <2>5
<1> QED BY <1>1, <1>2, <1>3, <1>4

LEMMA FinishKeeps ==
  ASSUME IInv, phase = "reply", NEW v, Supported(v), Finish(v)
  PROVE  IInv'
<1> USE DEF IInv
<1>1. /\ result' = v
      /\ regs' = IF v = "ok" THEN [i \in Registers |-> Word(got, i)] ELSE regs
      /\ got' = <<>> /\ expected' = SpanLength /\ early' = (fifo # <<>>)
      /\ UNCHANGED <<dropped, busVars, reading, heard, bounded>>
      /\ \/ phase' = "done" /\ attempt' = attempt
         \/ v # "ok" /\ attempt < Retries /\ phase' = "drain" /\ attempt' = attempt + 1
  <2>1. v \in Final \/ attempt >= Retries \/ (v # "ok" /\ attempt < Retries)
    BY Constants DEF ControlOK, Final
  <2> QED BY <2>1 DEF Finish, Final
<1>2. ControlOK' BY <1>1, Constants DEF ControlOK, Steps
<1>3. BusOK' BY <1>1, OfEmpty DEF BusOK, busVars
<1>4. v = "ok" => \E s \in Spans : Content(s) \in sent /\ regs' = s
  BY <1>1 DEF Supported
<1>5. regs' \in [Registers -> Uint16]
  <2>1. CASE v = "ok" BY <1>4, <2>1, Constants
  <2>2. CASE v # "ok" BY <1>1, <2>2 DEF ResultOK
  <2> QED BY <2>1, <2>2
<1>6. ResultOK'
  <2>1. early' \in BOOLEAN BY <1>1
  <2>2. result' \in Results BY <1>1 DEF Supported, Results
  <2> QED BY <1>1, <1>5, <2>1, <2>2 DEF ResultOK
<1>7. Traced' BY <1>1, OfEmpty DEF Traced, busVars
<1>8. Quiet' /\ Waits' BY <1>1 DEF Quiet, Waits, Awaited
<1>9. Accepted' BY <1>1, <1>4 DEF Accepted, busVars
<1>10. VerdictWasSent'
  <2>1. reading' = reading /\ sent' = sent BY <1>1 DEF busVars
  <2>2. result' = "exception" => Refusal \in sent' BY <1>1, <2>1 DEF Supported
  <2> QED BY <2>1, <2>2, VerdictKept
<1> QED BY <1>2, <1>3, <1>6, <1>7, <1>8, <1>9, <1>10

LEMMA EndKeeps == ASSUME IInv, Complete \/ Gap \/ Ceiling PROVE IInv'
<1>1. CASE Complete \/ Ceiling
  <2>1. phase = "reply" /\ Finish(Verdict(got, expected)) BY <1>1 DEF Complete, Ceiling
  <2> QED BY <2>1, VerdictSupported, FinishKeeps
<1>2. CASE Gap
  <2>1. phase = "reply" /\ Finish("bad frame") BY <1>2 DEF Gap
  <2>2. Supported("bad frame") BY DEF Supported
  <2> QED BY <2>1, <2>2, FinishKeeps
<1> QED BY <1>1, <1>2

LEMMA PowerOffKeeps == ASSUME IInv, PowerOff PROVE IInv'
<1> USE DEF IInv
<1>1. /\ phase = "done" /\ phase' = "off" /\ fifo' = <<>> /\ line' = <<>> /\ owed' = 0
      /\ reading' = IF result = "ok" THEN ReadingOf(regs) ELSE <<>>
      /\ result' = IF result = "ok" /\ reading' = <<>> THEN "unsampled" ELSE result
      /\ regs' = Blank /\ heard' = <<>> /\ bounded' = FALSE /\ early' = FALSE
      /\ UNCHANGED <<attempt, dropped, got, expected, sent>>
  BY DEF PowerOff
<1>2. ControlOK' /\ BusOK' BY <1>1, OfEmpty DEF ControlOK, Steps, BusOK
<1>3. DOMAIN ReadingOf(regs) = Fields(regs)
      /\ \A i \in Fields(regs) : ReadingOf(regs)[i] = regs[i]
  BY DEF ReadingOf
<1>4. Fields(regs) \subseteq Registers BY DEF Fields
<1>5. DOMAIN <<>> = {} OBVIOUS
<1>6. ResultOK'
  <2>1. DOMAIN reading' \subseteq Registers BY <1>1, <1>3, <1>4, <1>5
  <2>2. Blank \in [Registers -> Uint16]
    <3>1. 0 \in Uint16 BY SmallIsUint16
    <3> QED BY <3>1 DEF Blank
  <2>3. bounded' \in BOOLEAN /\ early' \in BOOLEAN BY <1>1
  <2>4. result' \in Results BY <1>1 DEF ResultOK, Results
  <2> QED BY <1>1, <2>1, <2>2, <2>3, <2>4 DEF ResultOK
<1>7. Traced' BY <1>1, OfEmpty DEF Traced
<1>8. Quiet' /\ Waits' /\ Accepted' BY <1>1 DEF Quiet, Waits, Awaited, Accepted
<1>9. VerdictWasSent'
  <2>1. result' = "exception" => Refusal \in sent' BY <1>1 DEF VerdictWasSent
  <2>2. ASSUME DOMAIN reading' # {}
        PROVE  \E s \in Spans :
                 /\ Content(s) \in sent'
                 /\ \A i \in DOMAIN reading' : reading'[i] = s[i]
                 /\ Count \in DOMAIN reading' => s[Count] # 0
                 /\ \E i \in Registers : s[i] # 0
    <3>1. result = "ok" /\ reading' = ReadingOf(regs) BY <1>1, <1>5, <2>2
    <3>2. PICK s \in Spans : Content(s) \in sent /\ regs = s BY <1>1, <3>1 DEF Accepted
    <3>3. DOMAIN reading' = Fields(s) /\ \A i \in Fields(s) : reading'[i] = s[i]
      BY <1>3, <3>1, <3>2
    <3>4. \E i \in Registers : s[i] # 0 BY <2>2, <3>3 DEF Fields
    <3>5. Count \in Fields(s) => s[Count] # 0
      <4>1. ~(Count < Count) BY Constants
      <4> QED BY <4>1, <3>4 DEF Fields
    <3> QED BY <1>1, <3>2, <3>3, <3>4, <3>5
  <2> QED BY <2>1, <2>2, Zenon DEF VerdictWasSent
<1> QED BY <1>2, <1>6, <1>7, <1>8, <1>9

LEMMA StutterKeeps == ASSUME IInv, UNCHANGED vars PROVE IInv'
BY DEF IInv, vars, busVars, resultVars, ControlOK, BusOK, ResultOK, Traced, Quiet, Waits,
       Awaited, Accepted, VerdictWasSent

LEMMA NextIInv == IInv /\ [Next]_vars => IInv'
BY PowerOnKeeps, AnswerKeeps, ArriveKeeps, BabbleKeeps, DrainKeeps, SilentKeeps,
   RequestKeeps, ReadKeeps, EndKeeps, PowerOffKeeps, StutterKeeps
   DEF Next, Transact

LEMMA AlwaysIInv == Spec => []IInv
BY InitIInv, NextIInv, PTL DEF Spec

-----------------------------------------------------------------------------

\* Every variable stays in its type, for every span, retry count, drain bound and noise.
THEOREM TypeCorrect == Spec => []TypeOK
<1>1. IInv => TypeOK BY TypeGroups DEF IInv
<1> QED BY <1>1, AlwaysIInv, PTL

\* A reading comes from one whole reply sent to this very read, and a refusal was refused:
\* the checksum of a reply is the only way to a final verdict, and none that was not sent
\* during the read can reach the buffer.
THEOREM VerdictsWereSent == Spec => []VerdictWasSent
<1>1. IInv => VerdictWasSent BY DEF IInv
<1> QED BY <1>1, AlwaysIInv, PTL

(***************************************************************************)
(* What an attempt hears                                                    *)
(***************************************************************************)

LEMMA FramedIs ==
  ASSUME NEW c \in Contents
  PROVE  /\ Framed(c) \in Seq(Bytes) /\ Len(Framed(c)) = Len(c) + 2 /\ Len(c) >= 3
         /\ \A i \in 1..Len(c) : Framed(c)[i].v = c[i]
         /\ Framed(c)[Len(c) + 1] = Crc(c)[1] /\ Framed(c)[Len(c) + 2] = Crc(c)[2]
<1>1. c \in Seq(Octet) BY ContentsAre
<1> DEFINE p == [i \in 1..Len(c) |-> Byte(c[i])]
           e == Crc(c)
<1>2. p \in Seq(Bytes) /\ Len(p) = Len(c) /\ \A i \in 1..Len(c) : p[i].v = c[i]
  <2>1. Len(c) \in Nat /\ \A i \in 1..Len(c) : c[i] \in Octet BY <1>1
  <2>2. \A i \in 1..Len(c) : Byte(c[i]) \in Bytes BY <2>1, ByteTyped
  <2>3. p \in [1..Len(c) -> Bytes] BY <2>2
  <2>4. \A i \in 1..Len(c) : p[i].v = c[i] BY DEF Byte
  <2> HIDE DEF p
  <2> QED BY <2>1, <2>3, <2>4
<1>3. e \in Seq(Bytes) /\ Len(e) = 2
  <2>1. 0 \in Octet /\ 1 \in Octet BY DEF Octet
  <2> QED BY <2>1 DEF Crc, Bytes
<1>4. Len(c) >= 3
  <2>1. CASE c = Refusal BY <2>1, RefusalIs
  <2>2. ASSUME NEW s \in Spans, c = Content(s) PROVE Len(c) >= 3
    BY <2>2, Constants, ContentIs
  <2> QED BY <2>1, <2>2 DEF Contents
<1>5. Framed(c) = p \o e BY DEF Framed
<1> HIDE DEF p, e
<1>6. /\ p \o e \in Seq(Bytes) /\ Len(p \o e) = Len(p) + Len(e)
      /\ \A i \in 1..Len(p) : (p \o e)[i] = p[i]
      /\ \A i \in 1..Len(e) : (p \o e)[Len(p) + i] = e[i]
  <2>1. p \in Seq(Bytes) /\ e \in Seq(Bytes) BY <1>2, <1>3
  <2>2. \A u, v \in Seq(Bytes) :
          /\ u \o v \in Seq(Bytes) /\ Len(u \o v) = Len(u) + Len(v)
          /\ \A i \in 1..Len(u) : (u \o v)[i] = u[i]
          /\ \A i \in 1..Len(v) : (u \o v)[Len(u) + i] = v[i]
    BY Concatenated
  <2> QED BY <2>1, <2>2, Zenon
<1>7. 1 \in 1..Len(e) /\ 2 \in 1..Len(e) BY <1>3
<1> QED BY <1>2, <1>3, <1>4, <1>5, <1>6, <1>7 DEF e

LEMMA SlaveFirst ==
  ASSUME NEW c \in Contents
  PROVE  c[1] = Slave
<1>1. ASSUME NEW s \in Spans, c = Content(s) PROVE c[1] = Slave BY <1>1, Constants, ContentIs
<1> QED BY <1>1, RefusalIs DEF Contents

\* A whole reply passes its own checksum.
LEMMA FramedMatches ==
  ASSUME NEW c \in Contents
  PROVE  CrcMatches(Framed(c), Len(c))
<1> DEFINE f == Framed(c)
           n == Len(c)
<1>1. /\ f \in Seq(Bytes) /\ Len(f) = n + 2 /\ \A i \in 1..n : f[i].v = c[i]
      /\ f[n + 1] = Crc(c)[1] /\ f[n + 2] = Crc(c)[2]
  BY FramedIs
<1>2. c \in Seq(Octet) BY ContentsAre
<1>3. Values(f, n) = c
  <2>1. n \in Nat /\ DOMAIN c = 1..n /\ c = [i \in 1..n |-> c[i]] BY <1>2
  <2>2. [i \in 1..n |-> f[i].v] = [i \in 1..n |-> c[i]] BY <1>1
  <2> HIDE DEF f, n
  <2> QED BY <2>1, <2>2 DEF Values
<1>4. SubSeq(f, n + 1, n + 2) = Crc(c)
  <2>1. n \in Nat BY <1>2
  <2>2. Crc(c) = <<Crc(c)[1], Crc(c)[2]>> BY DEF Crc
  <2> HIDE DEF f, n
  <2>3. SubSeq(f, n + 1, n + 2) = <<f[n + 1], f[n + 2]>>
    <3> DEFINE q == SubSeq(f, n + 1, n + 2)
    <3>1. q \in Seq(Bytes) /\ Len(q) = 2 /\ q[1] = f[n + 1] /\ q[2] = f[n + 2] BY <1>1, <2>1
    <3> HIDE DEF q
    <3>2. q = <<q[1], q[2]>> BY <3>1
    <3> QED BY <3>1, <3>2 DEF q
  <2> QED BY <1>1, <2>2, <2>3
<1> QED BY <1>3, <1>4 DEF CrcMatches

\* Noise after noise is never taken for a reply.
LEMMA GarbledIsNoPrefix ==
  ASSUME NEW c \in Contents, NEW q \in Seq(Bytes), Len(q) >= 1, q[1] = Byte(255)
  PROVE  ~IsPrefix(q, Framed(c))
<1>1. /\ Framed(c) \in Seq(Bytes) /\ Len(Framed(c)) >= 1 /\ Framed(c)[1].v = Slave
  <2>1. c \in Seq(Octet) BY ContentsAre
  <2>2. Len(c) \in Nat /\ Len(c) >= 3 BY <2>1, FramedIs
  <2>3. 1 \in 1..Len(c) BY <2>2
  <2> QED BY <2>2, <2>3, FramedIs, SlaveFirst
<1> SUFFICES ASSUME IsPrefix(q, Framed(c)) PROVE FALSE OBVIOUS
<1>2. Len(q) <= Len(Framed(c)) /\ SubSeq(q, 1, Len(q)) = SubSeq(Framed(c), 1, Len(q))
  BY Zenon DEF IsPrefix
<1>3. Len(q) \in Nat BY LenProperties
<1>4. SubSeq(q, 1, Len(q))[1] = q[1] BY <1>3
<1>5. SubSeq(Framed(c), 1, Len(q))[1] = Framed(c)[1]
  <2> DEFINE f == Framed(c)
  <2>1. f \in Seq(Bytes) /\ Len(f) \in Nat /\ Len(q) <= Len(f) BY <1>1, <1>2, LenProperties
  <2> HIDE DEF f
  <2>2. SubSeq(f, 1, Len(q))[1] = f[1] BY <1>3, <2>1
  <2> QED BY <2>2 DEF f
<1>6. q[1].v = Slave BY <1>1, <1>2, <1>4, <1>5
<1> QED BY <1>6 DEF Byte, Slave

LEMMA HearGarbled ==
  ASSUME NEW b \in Bytes, heard = Garbled
  PROVE  Hear(b) = Garbled
<1>1. 255 \in Octet BY SmallIsOctet
<1>2. Byte(255) \in Bytes BY <1>1, ByteTyped
<1>3. Garbled \in Seq(Bytes) /\ Len(Garbled) = 1 /\ Garbled[1] = Byte(255)
  BY <1>2 DEF Garbled
<1>4. /\ Append(heard, b) \in Seq(Bytes) /\ Len(Append(heard, b)) >= 1
      /\ Append(heard, b)[1] = Byte(255)
  <2> DEFINE g == Garbled
  <2>1. g \in Seq(Bytes) /\ Len(g) = 1 /\ g[1] = Byte(255) BY <1>3
  <2> HIDE DEF g
  <2>2. Append(g, b) \in Seq(Bytes) /\ Len(Append(g, b)) = Len(g) + 1 /\ Append(g, b)[1] = g[1]
    <3>1. 1 \in 1..Len(g) BY <2>1
    <3>2. \A q \in Seq(Bytes) :
            /\ Append(q, b) \in Seq(Bytes) /\ Len(Append(q, b)) = Len(q) + 1
            /\ \A i \in 1..Len(q) : Append(q, b)[i] = q[i]
      BY AppendProperties
    <3> QED BY <2>1, <3>1, <3>2, Zenon
  <2> QED BY <2>1, <2>2 DEF g
<1>5. \A c \in Contents : ~IsPrefix(Append(heard, b), Framed(c)) BY <1>4, GarbledIsNoPrefix
<1> QED BY <1>5 DEF Hear

\* What an attempt has heard is what it has read and what it has still to read, unless it
\* is already no reply.
Followed ==
  /\ phase = "off" => heard = <<>>
  /\ phase \in {"settle", "reply"} /\ ~bounded => heard = Garbled \/ heard = got \o fifo

HeardInv == IInv /\ Followed /\ HeardIsBelieved

LEMMA FramedIsSome == ASSUME NEW c \in Contents PROVE Framed(c) # <<>> /\ Framed(c) # Garbled
<1>1. c \in Seq(Octet) BY ContentsAre
<1>2. Len(c) \in Nat /\ Len(c) >= 3 BY <1>1, FramedIs
<1>3. Len(Framed(c)) >= 5 BY <1>2, FramedIs
<1>4. Len(<<>>) = 0 /\ Len(Garbled) = 1 BY DEF Garbled
<1> QED BY <1>3, <1>4

\* The verdict on one whole reply.
LEMMA FramedIsBelieved ==
  ASSUME NEW c \in Contents, got = Framed(c), Waits
  PROVE  /\ Len(got) = expected
         /\ Verdict(got, expected) = IF c = Refusal THEN "exception" ELSE "ok"
<1>1. c \in Seq(Octet) /\ Len(c) \in Nat BY ContentsAre, LenProperties
<1>2. /\ got \in Seq(Bytes) /\ Len(got) = Len(c) + 2 /\ Len(c) >= 3
      /\ \A i \in 1..Len(c) : got[i].v = c[i]
      /\ CrcMatches(got, Len(c))
  BY FramedIs, FramedMatches
<1>3. got[1].v = c[1] /\ got[2].v = c[2] /\ got[3].v = c[3]
  <2>1. 1 \in 1..Len(c) /\ 2 \in 1..Len(c) /\ 3 \in 1..Len(c) BY <1>1, <1>2
  <2> QED BY <1>2, <2>1
<1> DEFINE v == Verdict(got, expected)
           w == RefusalVerdict(got)
           u == SpanVerdict(got)
<1>4. v = CASE Len(got) < 3 -> "timeout"
            [] Len(got) >= 3 /\ got[2].v >= Refused -> w
            [] Len(got) >= 3 /\ got[2].v < Refused /\ Len(got) < expected -> "timeout"
            [] OTHER -> u
  BY Zenon DEF Verdict
<1>5. CASE c = Refusal
  <2>1. Len(c) = 3 /\ c[1] = Slave /\ c[2] = 131 BY <1>5, RefusalIs DEF ReadHolding, Refused
  <2>2. got[2].v >= Refused /\ ~(got[2].v < Refused) BY <1>3, <2>1 DEF Refused
  <2>3. expected = 5 BY <1>2, <2>1, <2>2 DEF Waits, Awaited, RefusalLength
  <2>4. w = "exception" BY <1>2, <1>3, <2>1 DEF RefusalVerdict, RefusalLength
  <2>5. Len(got) = 5 BY <1>2, <2>1
  <2>6. v = w
    <3> HIDE DEF v, w, u
    <3> QED BY <1>4, <2>2, <2>5
  <2> QED BY <1>5, <2>3, <2>4, <2>5, <2>6
<1>6. ASSUME NEW s \in Spans, c = Content(s)
      PROVE  Len(got) = expected /\ v = IF c = Refusal THEN "exception" ELSE "ok"
  <2>1. /\ Len(c) = 3 + 2 * Count /\ c[1] = Slave /\ c[2] = ReadHolding /\ c[3] = 2 * Count
    BY <1>6, Constants, ContentIs
  <2>2. got[2].v < Refused /\ ~(got[2].v >= Refused) BY <1>3, <2>1 DEF ReadHolding, Refused
  <2>3. expected = SpanLength BY <2>2 DEF Waits, Awaited
  <2>4. Len(got) = SpanLength /\ SpanLength - 2 = Len(c) /\ Len(got) >= 5 /\ SpanLength \in Nat
    BY <1>1, <1>2, <2>1, Constants DEF SpanLength
  <2>5. u = "ok" BY <1>2, <1>3, <2>1, <2>4 DEF SpanVerdict
  <2>6. v = u
    <3> HIDE DEF v, w, u
    <3> QED BY <1>4, <2>2, <2>3, <2>4
  <2>7. c # Refusal
    <3>1. SUFFICES ASSUME c = Refusal PROVE FALSE OBVIOUS
    <3>2. c[2] = Refusal[2] BY <3>1
    <3> QED BY <2>1, <3>2, RefusalIs DEF ReadHolding, Refused
  <2> QED BY <2>3, <2>4, <2>5, <2>6, <2>7
<1> QED BY <1>5, <1>6 DEF Contents

LEMMA InitHeard == Init => HeardInv
<1> SUFFICES ASSUME Init PROVE HeardInv OBVIOUS
<1>1. IInv BY InitIInv
<1>2. Followed /\ HeardIsBelieved BY DEF Init, Followed, HeardIsBelieved
<1> QED BY <1>1, <1>2 DEF HeardInv

LEMMA ReceiveHeard ==
  ASSUME HeardInv, NEW b \in Bytes, Receive(b)
  PROVE  Followed' /\ HeardIsBelieved'
<1>1. /\ phase # "off" /\ fifo' = Append(fifo, b)
      /\ heard' = IF phase \in {"settle", "reply"} THEN Hear(b) ELSE heard
      /\ UNCHANGED <<phase, got, result, bounded, early>>
  BY DEF Receive, resultVars
<1>2. HeardIsBelieved'
  <2>1. CASE phase \in {"drain", "done"}
    <3>1. heard' = heard BY <1>1, <2>1
    <3> QED BY <1>1, <3>1 DEF HeardInv, HeardIsBelieved
  <2>2. CASE phase \notin {"drain", "done"} BY <1>1, <2>2 DEF HeardIsBelieved
  <2> QED BY <2>1, <2>2
<1>3. ASSUME phase \in {"settle", "reply"}, ~bounded
      PROVE  heard' = Garbled \/ heard' = got' \o fifo'
  <2>1. heard' = Hear(b) BY <1>1, <1>3
  <2>2. CASE heard = Garbled BY <2>1, <2>2, HearGarbled
  <2>3. CASE heard = got \o fifo
    <3>1. got \in Seq(Bytes) /\ fifo \in Seq(Bytes) BY DEF HeardInv, IInv, BusOK
    <3>2. Append(got \o fifo, b) = got \o Append(fifo, b) BY <3>1
    <3>3. heard' = Append(heard, b) \/ heard' = Garbled BY <2>1 DEF Hear
    <3> QED BY <1>1, <2>3, <3>2, <3>3
  <2> QED BY <1>3, <2>2, <2>3 DEF HeardInv, Followed
<1>4. Followed' BY <1>1, <1>3 DEF Followed
<1> QED BY <1>2, <1>4

LEMMA ReadHeard == ASSUME HeardInv, Read PROVE Followed' /\ HeardIsBelieved'
<1>1. /\ phase = "reply" /\ fifo # <<>> /\ got' = Append(got, Head(fifo))
      /\ fifo' = Tail(fifo) /\ UNCHANGED <<phase, heard, bounded>>
  BY DEF Read
<1>2. got \in Seq(Bytes) /\ fifo \in Seq(Bytes) BY DEF HeardInv, IInv, BusOK
<1>3. Append(got, Head(fifo)) \o Tail(fifo) = got \o fifo BY <1>1, <1>2
<1> QED BY <1>1, <1>3 DEF HeardInv, Followed, HeardIsBelieved

LEMMA SettledHeard ==
  ASSUME HeardInv, phase = "drain", NEW stopped \in BOOLEAN, Settled(stopped), got' = got,
         ~stopped => fifo' = <<>>
  PROVE  Followed' /\ HeardIsBelieved'
<1>1. phase' = "settle" /\ heard' = <<>> /\ bounded' = stopped BY DEF Settled
<1>2. got = <<>> BY DEF HeardInv, IInv, Quiet
<1>3. <<>> \o <<>> = <<>> OBVIOUS
<1> QED BY <1>1, <1>2, <1>3 DEF Followed, HeardIsBelieved

LEMMA DrainHeard == ASSUME HeardInv, Drain PROVE Followed' /\ HeardIsBelieved'
<1>1. /\ phase = "drain" /\ got' = got /\ result' = result
      /\ \E stop \in Stops(dropped + 1) :
           IF stop THEN Settled(TRUE)
           ELSE /\ dropped' = IF dropped < MaxDrain THEN dropped + 1 ELSE dropped
                /\ UNCHANGED <<phase, heard, bounded, early>>
  BY DEF Drain, resultVars
<1>2. CASE Settled(TRUE) BY <1>1, <1>2, SettledHeard
<1>3. CASE UNCHANGED <<phase, heard, bounded, early>>
  BY <1>1, <1>3 DEF HeardInv, Followed, HeardIsBelieved
<1> QED BY <1>1, <1>2, <1>3

LEMMA SilentHeard == ASSUME HeardInv, Silent PROVE Followed' /\ HeardIsBelieved'
<1>1. phase = "drain" /\ fifo' = <<>> /\ Settled(FALSE) /\ got' = got
  BY DEF Silent, Available, busVars
<1> QED BY <1>1, SettledHeard

LEMMA EndHeard ==
  ASSUME HeardInv, Complete \/ Gap \/ Ceiling
  PROVE  Followed' /\ HeardIsBelieved'
<1>1. /\ phase = "reply" /\ phase' \in {"drain", "done"} /\ early' = (fifo # <<>>)
      /\ UNCHANGED <<heard, bounded>>
  BY DEF Complete, Gap, Ceiling, Finish
<1>2. ASSUME NEW c \in Contents, ~bounded, fifo = <<>>, heard = Framed(c)
      PROVE  result' = IF c = Refusal THEN "exception" ELSE "ok"
  <2>1. got \in Seq(Bytes) BY DEF HeardInv, IInv, BusOK
  <2>2. heard # Garbled BY <1>2, FramedIsSome
  <2>3. heard = got \o fifo BY <1>1, <1>2, <2>2 DEF HeardInv, Followed
  <2>4. got = Framed(c) BY <1>2, <2>1, <2>3
  <2>5. /\ Len(got) = expected
        /\ Verdict(got, expected) = IF c = Refusal THEN "exception" ELSE "ok"
    BY <2>4, FramedIsBelieved DEF HeardInv, IInv
  <2>6. ~(Len(got) < expected)
    <3>1. Len(got) \in Nat BY <2>1, LenProperties
    <3> QED BY <2>5, <3>1
  <2>7. Complete BY <2>6 DEF Gap, Ceiling
  <2> QED BY <2>5, <2>7 DEF Complete, Finish
<1>3. Followed' BY <1>1 DEF Followed
<1>4. HeardIsBelieved' BY <1>1, <1>2 DEF HeardIsBelieved
<1> QED BY <1>3, <1>4

LEMMA NextHeard == HeardInv /\ [Next]_vars => HeardInv'
<1> SUFFICES ASSUME HeardInv, [Next]_vars PROVE HeardInv' OBVIOUS
<1>1. IInv' BY NextIInv DEF HeardInv
<1>2. CASE PowerOn
  <2>1. phase = "off" /\ phase' = "drain" /\ heard' = heard BY <1>2 DEF PowerOn
  <2>2. heard' = <<>> BY <2>1 DEF HeardInv, Followed
  <2>3. \A c \in Contents : heard' # Framed(c) BY <2>2, FramedIsSome
  <2> QED BY <1>1, <2>1, <2>3 DEF HeardInv, Followed, HeardIsBelieved
<1>3. CASE Answer
  BY <1>1, <1>3 DEF Answer, resultVars, HeardInv, Followed, HeardIsBelieved
<1>4. CASE Arrive
  <2>1. line # <<>> /\ Receive(Head(line)) BY <1>4 DEF Arrive
  <2>2. Head(line) \in Bytes BY <2>1 DEF HeardInv, IInv, BusOK
  <2> QED BY <1>1, <2>1, <2>2, ReceiveHeard DEF HeardInv
<1>5. CASE Babble
  <2>1. PICK b \in Noise : Receive(Byte(b)) BY <1>5 DEF Babble
  <2>2. Byte(b) \in Bytes BY Constants, ByteTyped
  <2> QED BY <1>1, <2>1, <2>2, ReceiveHeard DEF HeardInv
<1>6. CASE Drain BY <1>1, <1>6, DrainHeard DEF HeardInv
<1>7. CASE Silent BY <1>1, <1>7, SilentHeard DEF HeardInv
<1>8. CASE Request
  BY <1>1, <1>8 DEF Request, HeardInv, Followed, HeardIsBelieved
<1>9. CASE Read BY <1>1, <1>9, ReadHeard DEF HeardInv
<1>10. CASE Complete \/ Gap \/ Ceiling BY <1>1, <1>10, EndHeard DEF HeardInv
<1>11. CASE PowerOff
  <2>1. phase' = "off" /\ heard' = <<>> BY <1>11 DEF PowerOff
  <2> QED BY <1>1, <2>1 DEF HeardInv, Followed, HeardIsBelieved
<1>12. CASE UNCHANGED vars
  BY <1>1, <1>12 DEF vars, busVars, resultVars, HeardInv, Followed, HeardIsBelieved
<1> QED BY <1>2, <1>3, <1>4, <1>5, <1>6, <1>7, <1>8, <1>9, <1>10, <1>11, <1>12
        DEF Next, Transact

\* An attempt that began in silence and then received exactly one whole reply ends with
\* what that reply says, whatever earlier attempts left behind them.
THEOREM HeardRepliesAreBelieved == Spec => []HeardIsBelieved
<1>1. HeardInv => HeardIsBelieved BY DEF HeardInv
<1> QED BY <1>1, InitHeard, NextHeard, PTL DEF Spec

(***************************************************************************)
(* The end of a read                                                        *)
(***************************************************************************)

\* The most steps the master takes in one attempt: discard the backlog, settle, ask, read
\* a whole reply and judge it.
PerAttempt == MaxDrain + SpanLength + 3

\* The most steps left in this attempt, and in this read.
LeftInAttempt ==
  CASE phase = "drain" -> SpanLength + 3 + (MaxDrain - dropped)
    [] phase = "settle" -> SpanLength + 2
    [] OTHER -> SpanLength + 1 - Len(got)

LeftInRead ==
  CASE phase = "off" -> 0
    [] phase = "done" -> 1
    [] OTHER -> 1 + (Retries - attempt) * PerAttempt + LeftInAttempt

MasterSteps == Transact \/ PowerOff
BusSteps == Answer \/ Arrive \/ Babble

\* A drain stops at its bound, and the buffer of an attempt holds no more than a span.
Bounded ==
  /\ IF phase = "drain" THEN dropped < MaxDrain ELSE dropped = 0
  /\ Len(got) <= SpanLength

\* A read under way has a step left, and never more than its attempts have.
LeftIsBounded == LeftInRead \in (IF phase = "off" THEN {0} ELSE 1..(1 + (Retries + 1) * PerAttempt))

\* Every step of the master uses up one of those left, and no step of the bus gives one back.
LeftRunsOut ==
  /\ MasterSteps => LeftInRead' < LeftInRead
  /\ BusSteps => LeftInRead' = LeftInRead

BoundInv == IInv /\ Bounded

LEMMA Sizes ==
  /\ MaxDrain \in Nat /\ MaxDrain >= 1 /\ Retries \in Nat /\ SpanLength \in Nat
  /\ SpanLength >= RefusalLength /\ RefusalLength = 5
  /\ PerAttempt \in Nat /\ PerAttempt = MaxDrain + SpanLength + 3
BY Constants DEF SpanLength, RefusalLength, PerAttempt

LEMMA ZeroAttempts == 0 * PerAttempt = 0
BY Sizes

LEMMA OneAttemptMore ==
  ASSUME NEW n \in Nat PROVE n * PerAttempt \in Nat /\ (n + 1) * PerAttempt = n * PerAttempt + PerAttempt
<1> DEFINE k == PerAttempt
<1>1. k \in Nat BY Sizes
<1> HIDE DEF k
<1>2. n * k \in Nat /\ (n + 1) * k = n * k + k BY <1>1
<1> QED BY <1>2 DEF k

LEMMA FewerAttempts ==
  ASSUME NEW n \in Nat, NEW m \in Nat, n <= m PROVE n * PerAttempt <= m * PerAttempt
<1> DEFINE k == PerAttempt
<1>1. k \in Nat BY Sizes
<1> HIDE DEF k
<1>2. (m - n) * k >= 0 BY <1>1
<1>3. m * k = n * k + (m - n) * k BY <1>1
<1>4. n * k \in Int /\ m * k \in Int /\ (m - n) * k \in Int BY <1>1
<1>5. n * k <= m * k BY <1>2, <1>3, <1>4
<1> QED BY <1>5 DEF k

\* What is left of an attempt, at each of its steps.
LEMMA AttemptLeft ==
  ASSUME BoundInv
  PROVE  LeftInAttempt \in 1..PerAttempt
<1>1. dropped \in 0..MaxDrain /\ got \in Seq(Bytes) /\ Len(got) <= SpanLength
  BY DEF BoundInv, IInv, ControlOK, BusOK, Bounded
<1>2. Len(got) \in Nat BY <1>1, LenProperties
<1>3. CASE phase = "drain"
  <2>1. LeftInAttempt = SpanLength + 3 + (MaxDrain - dropped) BY <1>3 DEF LeftInAttempt
  <2> QED BY <1>1, <2>1, Sizes
<1>4. CASE phase = "settle"
  <2>1. LeftInAttempt = SpanLength + 2 BY <1>4 DEF LeftInAttempt
  <2> QED BY <2>1, Sizes
<1>5. CASE phase \notin {"drain", "settle"}
  <2>1. LeftInAttempt = SpanLength + 1 - Len(got) BY <1>5 DEF LeftInAttempt
  <2> QED BY <1>1, <1>2, <2>1, Sizes
<1> QED BY <1>3, <1>4, <1>5

LEMMA ReadLeft == BoundInv => LeftIsBounded
<1> SUFFICES ASSUME BoundInv PROVE LeftIsBounded OBVIOUS
<1> DEFINE a == (Retries - attempt) * PerAttempt
           r == Retries * PerAttempt
           all == (Retries + 1) * PerAttempt
<1>1. attempt \in 0..Retries /\ Retries - attempt \in Nat /\ Retries - attempt <= Retries
  BY Sizes DEF BoundInv, IInv, ControlOK
<1>2. a \in Nat BY <1>1, OneAttemptMore
<1>3. r \in Nat /\ all = r + PerAttempt BY Sizes, OneAttemptMore
<1>4. a <= r BY <1>1, Sizes, FewerAttempts
<1>5. LeftInAttempt \in 1..PerAttempt BY AttemptLeft
<1>6. LeftInRead = CASE phase = "off" -> 0 [] phase = "done" -> 1 [] OTHER -> 1 + a + LeftInAttempt
  BY DEF LeftInRead
<1> HIDE DEF a, r
<1>7. all \in Nat BY <1>3, Sizes
<1> HIDE DEF all
<1>8. CASE phase = "off" BY <1>6, <1>8 DEF LeftIsBounded
<1>9. CASE phase = "done"
  <2>1. LeftInRead = 1 BY <1>6, <1>9
  <2>2. LeftInRead \in 1..(1 + all) BY <2>1, <1>7
  <2> QED BY <2>2, <1>9 DEF LeftIsBounded, all
<1>10. CASE phase \notin {"off", "done"}
  <2>1. LeftInRead = 1 + a + LeftInAttempt BY <1>6, <1>10
  <2>2. LeftInRead \in 1..(1 + all) BY <2>1, <1>2, <1>3, <1>4, <1>5, Sizes
  <2> QED BY <2>2, <1>10 DEF LeftIsBounded, all
<1> QED BY <1>8, <1>9, <1>10

\* A step inside an attempt that uses up some of it uses up some of the read.
LEMMA AttemptRunsDown ==
  ASSUME IInv, phase \in {"drain", "settle", "reply"}, phase' \in {"drain", "settle", "reply"},
         attempt' = attempt, NEW m \in Int, NEW n \in Int, n < m,
         LeftInAttempt = m, LeftInAttempt' = n
  PROVE  LeftInRead' < LeftInRead
<1> DEFINE a == (Retries - attempt) * PerAttempt
<1>1. Retries - attempt \in Nat BY Sizes DEF IInv, ControlOK
<1>2. a \in Nat BY <1>1, OneAttemptMore
<1>3. LeftInRead = 1 + a + LeftInAttempt BY DEF LeftInRead
<1>4. LeftInRead' = 1 + a + LeftInAttempt' BY DEF LeftInRead, PerAttempt, SpanLength
<1> HIDE DEF a
<1> QED BY <1>2, <1>3, <1>4

LEMMA SettledRunsDown ==
  ASSUME BoundInv, phase = "drain", NEW stopped, Settled(stopped), UNCHANGED <<attempt, got>>
  PROVE  Bounded' /\ LeftInRead' < LeftInRead
<1> USE DEF BoundInv
<1>1. phase' = "settle" /\ dropped' = 0 BY DEF Settled
<1>2. Bounded' BY <1>1 DEF Bounded, SpanLength
<1>3. LeftInAttempt = SpanLength + 3 + (MaxDrain - dropped) BY DEF LeftInAttempt
<1>4. LeftInAttempt' = SpanLength + 2 BY <1>1 DEF LeftInAttempt, SpanLength
<1>5. dropped \in 0..MaxDrain BY DEF IInv, ControlOK
<1>6. LeftInAttempt \in Int /\ LeftInAttempt' \in Int /\ LeftInAttempt' < LeftInAttempt
  BY <1>3, <1>4, <1>5, Sizes
<1> QED BY <1>1, <1>2, <1>6, AttemptRunsDown

LEMMA DrainRunsDown == ASSUME BoundInv, Drain PROVE Bounded' /\ LeftInRead' < LeftInRead
<1> USE DEF BoundInv
<1>1. /\ phase = "drain" /\ UNCHANGED <<attempt, got>>
      /\ \E stop \in Stops(dropped + 1) :
           IF stop THEN Settled(TRUE)
           ELSE /\ dropped' = IF dropped < MaxDrain THEN dropped + 1 ELSE dropped
                /\ UNCHANGED <<phase, heard, bounded, early>>
  BY DEF Drain
<1>2. PICK stop \in Stops(dropped + 1) :
        IF stop THEN Settled(TRUE)
        ELSE /\ dropped' = IF dropped < MaxDrain THEN dropped + 1 ELSE dropped
             /\ UNCHANGED <<phase, heard, bounded, early>>
  BY <1>1
<1>3. CASE stop BY <1>1, <1>2, <1>3, SettledRunsDown
<1>4. CASE ~stop
  <2>1. dropped \in 0..MaxDrain /\ dropped < MaxDrain BY <1>1 DEF IInv, ControlOK, Bounded
  <2>2. ~(dropped + 1 >= MaxDrain) BY <1>2, <1>4, Zenon DEF Stops
  <2>3. phase' = "drain" /\ dropped' = dropped + 1 /\ dropped + 1 < MaxDrain
    BY <1>1, <1>2, <1>4, <2>1, <2>2, Sizes
  <2>4. Bounded' BY <1>1, <2>3 DEF Bounded, SpanLength
  <2>5. LeftInAttempt = SpanLength + 3 + (MaxDrain - dropped) BY <1>1 DEF LeftInAttempt
  <2>6. LeftInAttempt' = SpanLength + 3 + (MaxDrain - (dropped + 1))
    BY <2>3 DEF LeftInAttempt, SpanLength
  <2>7. LeftInAttempt \in Int /\ LeftInAttempt' \in Int /\ LeftInAttempt' < LeftInAttempt
    BY <2>1, <2>5, <2>6, Sizes
  <2> QED BY <1>1, <2>3, <2>4, <2>7, AttemptRunsDown
<1> QED BY <1>3, <1>4

LEMMA SilentRunsDown == ASSUME BoundInv, Silent PROVE Bounded' /\ LeftInRead' < LeftInRead
<1>1. phase = "drain" /\ Settled(FALSE) /\ UNCHANGED <<attempt, got>> BY DEF Silent
<1> QED BY <1>1, SettledRunsDown

LEMMA RequestRunsDown == ASSUME BoundInv, Request PROVE Bounded' /\ LeftInRead' < LeftInRead
<1> USE DEF BoundInv
<1>1. phase = "settle" /\ phase' = "reply" /\ UNCHANGED <<attempt, dropped, got>> BY DEF Request
<1>2. Bounded' BY <1>1 DEF Bounded, SpanLength
<1>3. got = <<>> BY <1>1 DEF IInv, Quiet
<1>4. LeftInAttempt = SpanLength + 2 BY <1>1 DEF LeftInAttempt
<1>5. LeftInAttempt' = SpanLength + 1 BY <1>1, <1>3, Sizes DEF LeftInAttempt, SpanLength
<1>6. LeftInAttempt \in Int /\ LeftInAttempt' \in Int /\ LeftInAttempt' < LeftInAttempt
  BY <1>4, <1>5, Sizes
<1> QED BY <1>1, <1>2, <1>6, AttemptRunsDown

LEMMA ReadRunsDown == ASSUME BoundInv, Read PROVE Bounded' /\ LeftInRead' < LeftInRead
<1> USE DEF BoundInv
<1>1. /\ phase = "reply" /\ phase' = "reply" /\ fifo # <<>> /\ Len(got) < expected
      /\ got' = Append(got, Head(fifo)) /\ UNCHANGED <<attempt, dropped>>
  BY DEF Read
<1>2. got \in Seq(Bytes) /\ Len(got) \in Nat /\ Head(fifo) \in Bytes
  BY <1>1, OfTail, LenProperties DEF IInv, BusOK, Traced
<1>3. Len(got') = Len(got) + 1 BY <1>1, <1>2
<1>4. expected <= SpanLength /\ expected \in Nat BY Sizes DEF IInv, ResultOK
<1>5. Len(got') <= SpanLength BY <1>1, <1>2, <1>3, <1>4, Sizes
<1>6. Bounded' BY <1>1, <1>5 DEF Bounded, SpanLength
<1>7. LeftInAttempt = SpanLength + 1 - Len(got) BY <1>1 DEF LeftInAttempt
<1>8. LeftInAttempt' = SpanLength + 1 - (Len(got) + 1) BY <1>1, <1>3 DEF LeftInAttempt, SpanLength
<1>9. LeftInAttempt \in Int /\ LeftInAttempt' \in Int /\ LeftInAttempt' < LeftInAttempt
  BY <1>2, <1>7, <1>8, Sizes
<1> QED BY <1>1, <1>6, <1>9, AttemptRunsDown

\* A whole attempt is worth more than anything left of the one before it.
LEMMA FinishRunsDown ==
  ASSUME BoundInv, phase = "reply", NEW v, Finish(v)
  PROVE  Bounded' /\ LeftInRead' < LeftInRead
<1> USE DEF BoundInv
<1> DEFINE a == (Retries - attempt) * PerAttempt
<1>1. attempt \in 0..Retries /\ Retries - attempt \in Nat BY Sizes DEF IInv, ControlOK
<1>2. a \in Nat BY <1>1, OneAttemptMore
<1>3. LeftInAttempt \in 1..PerAttempt BY AttemptLeft
<1>4. LeftInRead = 1 + a + LeftInAttempt BY DEF LeftInRead
<1>5. /\ got' = <<>> /\ dropped' = dropped /\ dropped = 0
      /\ \/ phase' = "done"
         \/ attempt < Retries /\ phase' = "drain" /\ attempt' = attempt + 1
  BY <1>1, Sizes DEF Finish, Bounded
<1>6. Bounded' BY <1>5, Sizes DEF Bounded, SpanLength
<1>7. CASE phase' = "done"
  <2>1. LeftInRead' = 1 BY <1>7 DEF LeftInRead
  <2> HIDE DEF a
  <2> QED BY <1>2, <1>3, <1>4, <1>6, <2>1, Sizes
<1>8. CASE attempt < Retries /\ phase' = "drain" /\ attempt' = attempt + 1
  <2> DEFINE n == Retries - (attempt + 1)
             b == n * PerAttempt
  <2>1. n \in Nat /\ n + 1 = Retries - attempt BY <1>1, <1>8, Sizes
  <2>2. b \in Nat /\ a = b + PerAttempt BY <2>1, OneAttemptMore
  <2>3. LeftInAttempt' = SpanLength + 3 + (MaxDrain - 0) BY <1>5, <1>8 DEF LeftInAttempt, SpanLength
  <2>4. LeftInRead' = 1 + b + LeftInAttempt' BY <1>8 DEF LeftInRead, PerAttempt, SpanLength
  <2> HIDE DEF a, b
  <2> QED BY <1>3, <1>4, <1>6, <2>2, <2>3, <2>4, Sizes
<1> QED BY <1>5, <1>7, <1>8

LEMMA EndRunsDown ==
  ASSUME BoundInv, Complete \/ Gap \/ Ceiling PROVE Bounded' /\ LeftInRead' < LeftInRead
<1>1. phase = "reply" /\ \E v : Finish(v) BY DEF Complete, Gap, Ceiling
<1> QED BY <1>1, FinishRunsDown

LEMMA PowerOffRunsDown == ASSUME BoundInv, PowerOff PROVE Bounded' /\ LeftInRead' < LeftInRead
<1>1. phase = "done" /\ phase' = "off" /\ UNCHANGED <<dropped, got>> BY DEF PowerOff
<1>2. Bounded' BY <1>1 DEF BoundInv, Bounded, SpanLength
<1> QED BY <1>1, <1>2 DEF LeftInRead

LEMMA BusKeepsLeft == ASSUME BoundInv, BusSteps PROVE Bounded' /\ LeftInRead' = LeftInRead
<1>1. UNCHANGED <<phase, attempt, dropped, got>> BY DEF BusSteps, Answer, Arrive, Babble, Receive
<1> QED BY <1>1 DEF BoundInv, Bounded, LeftInRead, LeftInAttempt, PerAttempt, SpanLength

LEMMA MasterRunsDown == ASSUME BoundInv, MasterSteps PROVE Bounded' /\ LeftInRead' < LeftInRead
BY DrainRunsDown, SilentRunsDown, RequestRunsDown, ReadRunsDown, EndRunsDown, PowerOffRunsDown
   DEF MasterSteps, Transact

LEMMA NextBound == BoundInv /\ [Next]_vars => BoundInv'
<1> SUFFICES ASSUME BoundInv, [Next]_vars PROVE BoundInv' OBVIOUS
<1>1. IInv' BY NextIInv DEF BoundInv
<1>2. CASE PowerOn
  <2>1. phase = "off" /\ phase' = "drain" /\ UNCHANGED <<dropped, got>> BY <1>2 DEF PowerOn
  <2>2. dropped' < MaxDrain BY <2>1, Sizes DEF BoundInv, Bounded
  <2> QED BY <1>1, <2>1, <2>2 DEF BoundInv, Bounded, SpanLength
<1>3. CASE MasterSteps BY <1>1, <1>3, MasterRunsDown DEF BoundInv
<1>4. CASE BusSteps BY <1>1, <1>4, BusKeepsLeft DEF BoundInv
<1>5. CASE UNCHANGED vars BY <1>1, <1>5 DEF vars, BoundInv, Bounded, SpanLength
<1> QED BY <1>2, <1>3, <1>4, <1>5 DEF Next, MasterSteps, BusSteps

LEMMA InitBound == Init => BoundInv
<1> SUFFICES ASSUME Init PROVE BoundInv OBVIOUS
<1>1. phase = "off" /\ dropped = 0 /\ got = <<>> BY DEF Init
<1> QED BY <1>1, InitIInv, Sizes DEF BoundInv, Bounded

\* The bound on a read, whatever the bus does: as long as the rail is up the master has at
\* least one and at most 1 + (Retries + 1) * PerAttempt steps to take before it goes down;
\* every step it takes (the drain, the request, the bytes read, the retries, power_off)
\* uses one up, and a sensor that answers late or a bus that babbles gives none back.
THEOREM ReadsAreBounded == Spec => []LeftIsBounded /\ [][LeftRunsOut]_vars
<1>1. Init => BoundInv BY InitBound
<1>2. BoundInv /\ [Next]_vars => BoundInv' BY NextBound
<1>3. BoundInv => LeftIsBounded BY ReadLeft
<1>4. BoundInv /\ [Next]_vars => [LeftRunsOut]_vars
  BY MasterRunsDown, BusKeepsLeft DEF LeftRunsOut
<1> QED BY <1>1, <1>2, <1>3, <1>4, PTL DEF Spec
=============================================================================
