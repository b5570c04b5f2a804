---------------------------- MODULE Messages_proofs ----------------------------
(***************************************************************************)
(* What is packed is what is unpacked, for every value of 32 bits, and the *)
(* other way round for any bytes.                                          *)
(***************************************************************************)
EXTENDS Messages, SequenceTheorems, TLAPS

\* A number is its quotient and its rest.
LEMMA QuotientAndRest ==
    ASSUME NEW n \in Nat
    PROVE  /\ Shifted(n) \in Nat /\ (n % Radix) \in Byte
           /\ n = Shifted(n) * Radix + (n % Radix)
BY RadixAssumption, SMT DEF Shifted, Byte

\* A shift divides the bound of a number.
LEMMA ShiftedIsLess ==
    ASSUME NEW n \in Nat, NEW m \in Nat, n < m * Radix
    PROVE  Shifted(n) < m
<1>1. n = Shifted(n) * Radix + (n % Radix) /\ Shifted(n) \in Nat /\ (n % Radix) \in Nat
  BY QuotientAndRest DEF Byte
<1>2. Shifted(n) * Radix < m * Radix
  BY <1>1, RadixAssumption, SMT
<1> QED BY <1>1, <1>2, RadixAssumption, SMT

\* uint32_t changes no number of 32 bits.
LEMMA Narrowed ==
    ASSUME NEW n \in UInt32
    PROVE  uint32_t(n) = n
<1> DEFINE values == Radix * Radix * Radix * Radix
<1>1. values \in Nat
  BY RadixAssumption
<1> HIDE DEF values
<1>2. n \in 0 .. values - 1 => n % values = n
  BY <1>1, SMT
<1> QED BY <1>2 DEF values, UInt32, uint32_t

\* Four bytes are a sequence of bytes.
LEMMA FourBytes ==
    ASSUME NEW w \in Byte, NEW x \in Byte, NEW y \in Byte, NEW z \in Byte
    PROVE  << w, x, y, z >> \in Seq(Byte) /\ Len(<< w, x, y, z >>) = 4
OBVIOUS

\* The four bytes of a number of 32 bits, and what they stand for.
LEMMA UnpackPack ==
    ASSUME NEW n \in UInt32
    PROVE  /\ unpack_u32(pack_u32(n), 0) = n
           /\ pack_u32(n) \in Seq(Byte) /\ Len(pack_u32(n)) = 4
<1> DEFINE a == Shifted(n)
           b == Shifted(a)
           c == Shifted(b)
<1> n \in Nat /\ Radix \in Nat
  BY RadixAssumption DEF UInt32
<1>1. a \in Nat /\ (n % Radix) \in Byte /\ n = a * Radix + (n % Radix)
  BY QuotientAndRest
<1>2. b \in Nat /\ (a % Radix) \in Byte /\ a = b * Radix + (a % Radix)
  BY <1>1, QuotientAndRest
<1>3. c \in Nat /\ (b % Radix) \in Byte /\ b = c * Radix + (b % Radix)
  BY <1>2, QuotientAndRest
<1>4. c < Radix
  <2>1. n < ((Radix * Radix) * Radix) * Radix
    BY RadixAssumption, SMT DEF UInt32
  <2>2. a < (Radix * Radix) * Radix
    BY <2>1, ShiftedIsLess
  <2>3. b < Radix * Radix
    BY <1>1, <2>2, ShiftedIsLess
  <2> QED BY <1>2, <2>3, ShiftedIsLess
<1>5. (c % Radix) = c /\ c \in Byte
  BY <1>3, <1>4, RadixAssumption, SMT DEF Byte
<1> DEFINE bytes == << c % Radix, (b % Radix), a % Radix, (n % Radix) >>
<1>6. pack_u32(n) = bytes
  BY DEF pack_u32
<1> HIDE DEF a, b, c
<1>7. bytes \in Seq(Byte) /\ Len(bytes) = 4
  BY <1>1, <1>2, <1>3, <1>5, FourBytes
<1>8. unpack_u32(bytes, 0) = ((c * Radix + (b % Radix)) * Radix + (a % Radix)) * Radix + (n % Radix)
  BY <1>5, SMT DEF unpack_u32
<1>9. unpack_u32(bytes, 0) = n
  BY <1>1, <1>2, <1>3, <1>8
<1> QED BY <1>6, <1>7, <1>9

\* Where the bytes of two sequences are when one follows the other.
LEMMA Concatenated ==
    ASSUME NEW s \in Seq(Byte), NEW t \in Seq(Byte)
    PROVE  /\ s \o t \in Seq(Byte) /\ Len(s \o t) = Len(s) + Len(t)
           /\ \A k \in 1 .. Len(s) : (s \o t)[k] = s[k]
           /\ \A k \in 1 .. Len(t) : (s \o t)[Len(s) + k] = t[k]
BY ConcatProperties

\* A number inside a message is the number by itself.
LEMMA UnpackAt ==
    ASSUME NEW msg, NEW at \in Nat, NEW n \in UInt32,
           \A k \in 1 .. 4 : msg[at + k] = pack_u32(n)[k]
    PROVE  unpack_u32(msg, at) = n
<1> DEFINE p == pack_u32(n)
<1>1. unpack_u32(p, 0) = n
  BY UnpackPack
<1> HIDE DEF p
<1>2. /\ msg[at + 1] = p[0 + 1] /\ msg[at + 2] = p[0 + 2]
      /\ msg[at + 3] = p[0 + 3] /\ msg[at + 4] = p[0 + 4]
  BY SMT DEF p
<1>3. unpack_u32(msg, at) = unpack_u32(p, 0)
  BY <1>2, Zenon DEF unpack_u32
<1> QED BY <1>1, <1>3

\* The header of a packed message is read as what it was made from, whatever
\* follows it (pack_msg_header, unpack_msg_header).
THEOREM HeaderArrives ==
    ASSUME NEW id \in MsgId, id \in Byte, NEW length \in UInt32 \ {0},
           NEW body \in Seq(Byte)
    PROVE  unpack_msg_header(pack_msg_header(id, length) \o body)
             = [id |-> id, body_length |-> length - 1]
<1> DEFINE p == pack_u32(length)
           header == p \o << id >>
           msg == header \o body
<1>1. pack_msg_header(id, length) = header
  BY Narrowed DEF pack_msg_header
<1>2. p \in Seq(Byte) /\ Len(p) = 4
  BY UnpackPack
<1>3. << id >> \in Seq(Byte) /\ Len(<< id >>) = 1 /\ << id >>[1] = id
  OBVIOUS
<1> HIDE DEF p
<1>4. /\ header \in Seq(Byte) /\ Len(header) = 5 /\ header[5] = id
      /\ \A k \in 1 .. 4 : header[k] = p[k]
  <2>1. /\ header \in Seq(Byte) /\ Len(header) = Len(p) + Len(<< id >>)
        /\ \A k \in 1 .. Len(p) : header[k] = p[k]
        /\ \A k \in 1 .. Len(<< id >>) : header[Len(p) + k] = << id >>[k]
    BY <1>2, <1>3, Concatenated
  <2> HIDE DEF header
  <2>2. header[4 + 1] = id
    BY <1>2, <1>3, <2>1
  <2> QED BY <1>2, <1>3, <2>1, <2>2
<1> HIDE DEF header
<1>5. /\ msg \in Seq(Byte) /\ Len(msg) >= 5 /\ msg[5] = id
      /\ \A k \in 1 .. 4 : msg[0 + k] = p[k]
  <2>1. /\ msg \in Seq(Byte) /\ Len(msg) = Len(header) + Len(body)
        /\ \A k \in 1 .. Len(header) : msg[k] = header[k]
    BY <1>4, Concatenated
  <2> HIDE DEF msg
  <2> QED BY <1>4, <2>1
<1> HIDE DEF msg
<1>6. unpack_u32(msg, 0) = length
  BY <1>5, UnpackAt DEF p
<1>7. length \in Nat \ {0}
  BY RadixAssumption DEF UInt32
<1>8. unpack_msg_header(msg) = [id |-> id, body_length |-> length - 1]
  BY <1>5, <1>6, <1>7, SMT DEF unpack_msg_header, SIZE_IN_BYTES
<1> QED BY <1>1, <1>8 DEF msg, header, p

\* A number is read alike by itself and with bytes before or behind it.
LEMMA UnpackBefore ==
    ASSUME NEW s \in Seq(Byte), NEW t \in Seq(Byte), NEW at \in Nat,
           at + 4 <= Len(s)
    PROVE  unpack_u32(s \o t, at) = unpack_u32(s, at)
<1> DEFINE st == s \o t
<1>1. \A k \in 1 .. Len(s) : st[k] = s[k]
  BY Concatenated
<1> HIDE DEF st
<1>2. /\ st[at + 1] = s[at + 1] /\ st[at + 2] = s[at + 2]
      /\ st[at + 3] = s[at + 3] /\ st[at + 4] = s[at + 4]
  <2>1. /\ at + 1 \in 1 .. Len(s) /\ at + 2 \in 1 .. Len(s)
        /\ at + 3 \in 1 .. Len(s) /\ at + 4 \in 1 .. Len(s)
    BY SMT
  <2> QED BY <1>1, <2>1, Zenon
<1>3. unpack_u32(st, at) = unpack_u32(s, at)
  BY <1>2, Zenon DEF unpack_u32
<1> QED BY <1>3 DEF st

\* A number in the second of two sequences.
LEMMA UnpackBehind ==
    ASSUME NEW s \in Seq(Byte), NEW t \in Seq(Byte), NEW at \in Nat,
           at + 4 <= Len(t)
    PROVE  unpack_u32(s \o t, Len(s) + at) = unpack_u32(t, at)
<1> DEFINE st == s \o t
           from == Len(s) + at
<1>1. \A k \in 1 .. Len(t) : st[Len(s) + k] = t[k]
  BY Concatenated
<1>2. Len(s) \in Nat /\ Len(t) \in Nat
  OBVIOUS
<1> HIDE DEF st
<1>3. /\ st[Len(s) + (at + 1)] = t[at + 1] /\ st[Len(s) + (at + 2)] = t[at + 2]
      /\ st[Len(s) + (at + 3)] = t[at + 3] /\ st[Len(s) + (at + 4)] = t[at + 4]
  <2>1. /\ at + 1 \in 1 .. Len(t) /\ at + 2 \in 1 .. Len(t)
        /\ at + 3 \in 1 .. Len(t) /\ at + 4 \in 1 .. Len(t)
    BY <1>2, SMT
  <2> QED BY <1>1, <2>1, Zenon
<1>4. /\ from + 1 = Len(s) + (at + 1) /\ from + 2 = Len(s) + (at + 2)
      /\ from + 3 = Len(s) + (at + 3) /\ from + 4 = Len(s) + (at + 4)
  BY <1>2, SMT
<1>5. /\ st[from + 1] = t[at + 1] /\ st[from + 2] = t[at + 2]
      /\ st[from + 3] = t[at + 3] /\ st[from + 4] = t[at + 4]
  BY <1>3, <1>4, Zenon
<1> HIDE DEF from
<1>6. unpack_u32(st, from) = unpack_u32(t, at)
  BY <1>5, Zenon DEF unpack_u32
<1> QED BY <1>6 DEF st, from

\* Three numbers behind a header, each where it is read.
LEMMA ThreeNumbers ==
    ASSUME NEW h \in Seq(Byte), Len(h) = 5,
           NEW p \in Seq(Byte), Len(p) = 4, NEW q \in Seq(Byte), Len(q) = 4,
           NEW r \in Seq(Byte), Len(r) = 4
    PROVE  LET body == (p \o q) \o r
           IN  /\ body \in Seq(Byte) /\ Len(body) = 12
               /\ Len(h \o body) = 17
               /\ unpack_u32(h \o body, 5) = unpack_u32(p, 0)
               /\ unpack_u32(h \o body, 9) = unpack_u32(q, 0)
               /\ unpack_u32(h \o body, 13) = unpack_u32(r, 0)
<1>1. p \o q \in Seq(Byte) /\ Len(p \o q) = Len(p) + Len(q)
  BY Concatenated
<1>2. /\ unpack_u32(p \o q, 0) = unpack_u32(p, 0)
      /\ unpack_u32(p \o q, Len(p) + 0) = unpack_u32(q, 0)
  <2>1. 0 \in Nat /\ 0 + 4 <= Len(p) /\ 0 + 4 <= Len(q)
    OBVIOUS
  <2> QED BY <2>1, UnpackBefore, UnpackBehind
<1>3. PICK pq \in Seq(Byte) : pq = p \o q
  BY <1>1
<1>4. Len(pq) = 8 /\ unpack_u32(pq, 0) = unpack_u32(p, 0)
        /\ unpack_u32(pq, 4) = unpack_u32(q, 0)
  BY <1>1, <1>2, <1>3
<1>5. pq \o r \in Seq(Byte) /\ Len(pq \o r) = Len(pq) + Len(r)
  BY Concatenated
<1>6. /\ unpack_u32(pq \o r, 0) = unpack_u32(pq, 0)
      /\ unpack_u32(pq \o r, 4) = unpack_u32(pq, 4)
      /\ unpack_u32(pq \o r, Len(pq) + 0) = unpack_u32(r, 0)
  <2>1. /\ 0 \in Nat /\ 0 + 4 <= Len(pq) /\ 0 + 4 <= Len(r)
        /\ 4 \in Nat /\ 4 + 4 <= Len(pq)
    BY <1>4
  <2>2. unpack_u32(pq \o r, Len(pq) + 0) = unpack_u32(r, 0)
    BY <2>1, UnpackBehind
  <2> QED BY <2>1, <2>2, UnpackBefore
<1>7. PICK body \in Seq(Byte) : body = pq \o r
  BY <1>5
<1>8. /\ Len(body) = 12
      /\ unpack_u32(body, 0) = unpack_u32(p, 0)
      /\ unpack_u32(body, 4) = unpack_u32(q, 0)
      /\ unpack_u32(body, 8) = unpack_u32(r, 0)
  BY <1>4, <1>5, <1>6, <1>7
<1>9. /\ unpack_u32(h \o body, Len(h) + 0) = unpack_u32(body, 0)
      /\ unpack_u32(h \o body, Len(h) + 4) = unpack_u32(body, 4)
      /\ unpack_u32(h \o body, Len(h) + 8) = unpack_u32(body, 8)
  <2>1. /\ 0 \in Nat /\ 0 + 4 <= Len(body) /\ 4 \in Nat /\ 4 + 4 <= Len(body)
        /\ 8 \in Nat /\ 8 + 4 <= Len(body)
    BY <1>8
  <2>2. \A at \in Nat : at + 4 <= Len(body) =>
          unpack_u32(h \o body, Len(h) + at) = unpack_u32(body, at)
    BY UnpackBehind
  <2> QED BY <2>1, <2>2, Zenon
<1>10. Len(h \o body) = Len(h) + Len(body)
  BY Concatenated
<1>11. /\ Len(h \o body) = 17
       /\ unpack_u32(h \o body, 5) = unpack_u32(p, 0)
       /\ unpack_u32(h \o body, 9) = unpack_u32(q, 0)
       /\ unpack_u32(h \o body, 13) = unpack_u32(r, 0)
  BY <1>8, <1>9, <1>10
<1> QED BY <1>3, <1>7, <1>8, <1>11

\* A request is read as the one that was meant: its id, 12 bytes of body, and in
\* them index, begin and length (pack_request_msg).
THEOREM RequestArrives ==
    ASSUME RequestId \in Byte,
           NEW piece_idx \in UInt32, NEW begin \in UInt32, NEW length \in UInt32
    PROVE  LET msg == pack_request_msg(piece_idx, begin, length)
           IN  /\ Len(msg) = SIZE_IN_BYTES + 12
               /\ unpack_msg_header(msg) = [id |-> RequestId, body_length |-> 12]
               /\ unpack_u32(msg, 5) = piece_idx
               /\ unpack_u32(msg, 9) = begin
               /\ unpack_u32(msg, 13) = length
<1>1. PICK p \in Seq(Byte), q \in Seq(Byte), r \in Seq(Byte) :
        /\ p = pack_u32(piece_idx) /\ Len(p) = 4 /\ unpack_u32(p, 0) = piece_idx
        /\ q = pack_u32(begin) /\ Len(q) = 4 /\ unpack_u32(q, 0) = begin
        /\ r = pack_u32(length) /\ Len(r) = 4 /\ unpack_u32(r, 0) = length
  BY UnpackPack
<1>2. 13 \in UInt32 \ {0}
  <2>1. Radix >= 2 /\ Radix \in Nat
    BY RadixAssumption
  <2>2. Radix * Radix >= 4 /\ Radix * Radix \in Nat
    BY <2>1, SMT
  <2>3. (Radix * Radix) * Radix >= 8 /\ (Radix * Radix) * Radix \in Nat
    BY <2>1, <2>2, SMT
  <2>4. ((Radix * Radix) * Radix) * Radix >= 16
    BY <2>1, <2>3, SMT
  <2> QED BY <2>1, <2>4 DEF UInt32
<1>3. PICK h \in Seq(Byte) : h = pack_msg_header(RequestId, 13) /\ Len(h) = 5
  <2>1. pack_msg_header(RequestId, 13) = pack_u32(13) \o << RequestId >>
    BY <1>2, Narrowed DEF pack_msg_header
  <2>2. PICK n \in Seq(Byte) : n = pack_u32(13) /\ Len(n) = 4
    BY <1>2, UnpackPack
  <2>3. << RequestId >> \in Seq(Byte) /\ Len(<< RequestId >>) = 1
    OBVIOUS
  <2>4. PICK b \in Seq(Byte) : b = << RequestId >> /\ Len(b) = 1
    BY <2>3, Zenon
  <2>5. n \o b \in Seq(Byte) /\ Len(n \o b) = Len(n) + Len(b)
    BY Concatenated
  <2>6. n \o b \in Seq(Byte) /\ Len(n \o b) = 5
    <3>1. Len(n) = 4 /\ Len(b) = 1
      BY <2>2, <2>4, Zenon
    <3> QED BY <2>5, <3>1
  <2>7. n \o b = pack_msg_header(RequestId, 13)
    BY <2>1, <2>2, <2>4, Zenon
  <2> QED BY <2>6, <2>7, Zenon
<1>4. PICK body \in Seq(Byte) :
        /\ body = (p \o q) \o r /\ Len(body) = 12 /\ Len(h \o body) = 17
        /\ unpack_u32(h \o body, 5) = piece_idx
        /\ unpack_u32(h \o body, 9) = begin
        /\ unpack_u32(h \o body, 13) = length
  <2>1. LET body == (p \o q) \o r
        IN  /\ body \in Seq(Byte) /\ Len(body) = 12
            /\ Len(h \o body) = 17
            /\ unpack_u32(h \o body, 5) = unpack_u32(p, 0)
            /\ unpack_u32(h \o body, 9) = unpack_u32(q, 0)
            /\ unpack_u32(h \o body, 13) = unpack_u32(r, 0)
    <3>1. Len(p) = 4 /\ Len(q) = 4 /\ Len(r) = 4 /\ Len(h) = 5
      BY <1>1, <1>3, Zenon
    <3> QED BY <3>1, ThreeNumbers
  <2> QED BY <1>1, <2>1, Zenon
<1>5. pack_request_msg(piece_idx, begin, length) = h \o body
  <2>1. /\ uint32_t(piece_idx) = piece_idx /\ uint32_t(begin) = begin
        /\ uint32_t(length) = length
    BY Narrowed
  <2>2. Len(body) + 1 = 13
    BY <1>4
  <2> QED BY <1>1, <1>3, <1>4, <2>1, <2>2, Zenon DEF pack_request_msg
<1>6. unpack_msg_header(h \o body) = [id |-> RequestId, body_length |-> 12]
  <2>1. RequestId \in MsgId
    BY DEF RequestId, MsgId
  <2>2. unpack_msg_header(h \o body) = [id |-> RequestId, body_length |-> 13 - 1]
    BY <1>2, <1>3, <2>1, HeaderArrives
  <2> QED BY <2>2
<1> QED BY <1>4, <1>5, <1>6 DEF SIZE_IN_BYTES

\* A part of a message is cut out as it was put in.
LEMMA CutOut ==
    ASSUME NEW s \in Seq(Byte), NEW t \in Seq(Byte), NEW u \in Seq(Byte)
    PROVE  SubSeq((s \o t) \o u, Len(s) + 1, Len(s) + Len(t)) = t
<1>1. PICK st \in Seq(Byte) :
        /\ st = s \o t /\ Len(st) = Len(s) + Len(t)
        /\ \A k \in 1 .. Len(t) : st[Len(s) + k] = t[k]
  <2>1. /\ s \o t \in Seq(Byte) /\ Len(s \o t) = Len(s) + Len(t)
        /\ \A k \in 1 .. Len(t) : (s \o t)[Len(s) + k] = t[k]
    BY Concatenated
  <2> QED BY <2>1, Zenon
<1>2. PICK stu \in Seq(Byte) :
        /\ stu = st \o u /\ Len(stu) = Len(st) + Len(u)
        /\ \A k \in 1 .. Len(st) : stu[k] = st[k]
  <2>1. /\ st \o u \in Seq(Byte) /\ Len(st \o u) = Len(st) + Len(u)
        /\ \A k \in 1 .. Len(st) : (st \o u)[k] = st[k]
    BY Concatenated
  <2> QED BY <2>1, Zenon
<1> DEFINE part == SubSeq(stu, Len(s) + 1, Len(s) + Len(t))
<1>3. Len(s) \in Nat /\ Len(t) \in Nat /\ Len(u) \in Nat
  OBVIOUS
<1>4. /\ part \in Seq(Byte) /\ Len(part) = Len(t)
      /\ \A k \in 1 .. Len(t) : part[k] = stu[Len(s) + k]
  <2>1. /\ Len(s) + 1 \in 1 .. Len(stu) + 1
        /\ Len(s) + Len(t) \in Len(s) + 1 - 1 .. Len(stu)
    BY <1>1, <1>2, <1>3
  <2>2. /\ part \in Seq(Byte)
        /\ Len(part) = Len(s) + Len(t) - (Len(s) + 1) + 1
        /\ \A k \in 1 .. Len(s) + Len(t) - (Len(s) + 1) + 1 :
             part[k] = stu[Len(s) + 1 + k - 1]
    BY <2>1, SubSeqProperties
  <2> HIDE DEF part
  <2> QED BY <1>3, <2>2
<1> HIDE DEF part
<1>5. \A k \in 1 .. Len(t) : part[k] = t[k]
  BY <1>1, <1>2, <1>3, <1>4
<1>6. part = t
  BY <1>4, <1>5, SeqEqual
<1> QED BY <1>1, <1>2, <1>6 DEF part

\* The first byte stays first.
LEMMA FirstStays ==
    ASSUME NEW s \in Seq(Byte), NEW t \in Seq(Byte), Len(s) >= 1
    PROVE  \E st \in Seq(Byte) :
             st = s \o t /\ Len(st) = Len(s) + Len(t) /\ st[1] = s[1]
<1>1. /\ s \o t \in Seq(Byte) /\ Len(s \o t) = Len(s) + Len(t)
      /\ \A k \in 1 .. Len(s) : (s \o t)[k] = s[k]
  BY Concatenated
<1>2. 1 \in 1 .. Len(s)
  OBVIOUS
<1> QED BY <1>1, <1>2, Zenon

\* A handshake whose name of the protocol has the usual 19 bytes is read with the
\* hash and the peer it was made from (pack_handshake, unpack_handshake).
THEOREM HandshakeArrives ==
    ASSUME 19 \in Byte,
           NEW header \in Seq(Byte), Len(header) = 19,
           NEW info_hash \in Seq(Byte), Len(info_hash) = HASH_SIZE,
           NEW peer_id \in Seq(Byte), Len(peer_id) = PEER_ID_SIZE
    PROVE  unpack_handshake(pack_handshake(header, info_hash, peer_id))
             = [info_hash |-> info_hash, peer_id |-> peer_id]
<1>1. Len(info_hash) = 20 /\ Len(peer_id) = 20
  BY DEF HASH_SIZE, PEER_ID_SIZE
<1>2. PICK zeros \in Seq(Byte) :
        zeros = [k \in 1 .. RESERVED_SIZE |-> 0] /\ Len(zeros) = 8
  <2>1. 0 \in Byte
    BY RadixAssumption DEF Byte
  <2>2. [k \in 1 .. 8 |-> 0] \in Seq(Byte) /\ Len([k \in 1 .. 8 |-> 0]) = 8
    BY <2>1
  <2> QED BY <2>2, Zenon DEF RESERVED_SIZE
<1>3. PICK size \in Seq(Byte) : size = << Len(header) >> /\ Len(size) = 1 /\ size[1] = 19
  <2>1. << 19 >> \in Seq(Byte) /\ Len(<< 19 >>) = 1 /\ << 19 >>[1] = 19
    OBVIOUS
  <2> QED BY <2>1, Zenon
<1>4. PICK named \in Seq(Byte) :
        named = size \o header /\ Len(named) = Len(size) + Len(header) /\ named[1] = size[1]
  <2>1. Len(size) >= 1
    BY <1>3
  <2> QED BY <2>1, FirstStays, Zenon
<1>5. Len(named) = 20 /\ named[1] = 19
  BY <1>3, <1>4
<1>6. PICK s \in Seq(Byte) :
        s = named \o zeros /\ Len(s) = Len(named) + Len(zeros) /\ s[1] = named[1]
  <2>1. Len(named) >= 1
    BY <1>5
  <2> QED BY <2>1, FirstStays, Zenon
<1>7. Len(s) = 28 /\ s[1] = 19
  <2>1. Len(zeros) = 8
    BY <1>2, Zenon
  <2> QED BY <1>5, <1>6, <2>1
<1>8. PICK hashed \in Seq(Byte) :
        hashed = s \o info_hash /\ Len(hashed) = Len(s) + Len(info_hash) /\ hashed[1] = s[1]
  <2>1. Len(s) >= 1
    BY <1>7
  <2> QED BY <2>1, FirstStays, Zenon
<1>9. Len(hashed) = 48 /\ hashed[1] = 19
  BY <1>1, <1>7, <1>8
<1>10. PICK msg \in Seq(Byte) :
        msg = hashed \o peer_id /\ Len(msg) = Len(hashed) + Len(peer_id) /\ msg[1] = hashed[1]
  <2>1. Len(hashed) >= 1
    BY <1>9
  <2> QED BY <2>1, FirstStays, Zenon
<1>11. Len(msg) = 68 /\ msg[1] = 19
  BY <1>1, <1>9, <1>10
<1>12. pack_handshake(header, info_hash, peer_id) = msg
  BY <1>2, <1>3, <1>4, <1>6, <1>8, <1>10, Zenon DEF pack_handshake
<1>13. SubSeq(msg, 29, 48) = info_hash
  <2>1. SubSeq((s \o info_hash) \o peer_id, Len(s) + 1, Len(s) + Len(info_hash)) = info_hash
    BY CutOut
  <2>2. Len(s) + 1 = 29 /\ Len(s) + Len(info_hash) = 48
    BY <1>1, <1>7
  <2> QED BY <1>8, <1>10, <2>1, <2>2, Zenon
<1>14. SubSeq(msg, 49, 68) = peer_id
  <2>1. << >> \in Seq(Byte) /\ msg \o << >> = msg
    BY ConcatEmptySeq
  <2>2. SubSeq((hashed \o peer_id) \o << >>, Len(hashed) + 1, Len(hashed) + Len(peer_id))
          = peer_id
    BY <2>1, CutOut
  <2>3. Len(hashed) + 1 = 49 /\ Len(hashed) + Len(peer_id) = 68
    BY <1>1, <1>9
  <2> QED BY <1>10, <2>1, <2>2, <2>3, Zenon
<1>15. unpack_handshake(msg) = [info_hash |-> SubSeq(msg, 29, 48),
                                peer_id |-> SubSeq(msg, 49, 68)]
  BY <1>11, SMT DEF unpack_handshake, HandshakeSIZE, HEADER_SIZE, RESERVED_SIZE,
                   HASH_SIZE, PEER_ID_SIZE
<1> QED BY <1>12, <1>13, <1>14, <1>15, Zenon

--------------------------------------------------------------------------------
\* One byte more behind a number, and back (the shifts of proto/).
LEMMA ShiftedIn ==
    ASSUME NEW q \in Nat, NEW r \in Byte
    PROVE  /\ q * Radix + r \in Nat
           /\ Shifted(q * Radix + r) = q /\ (q * Radix + r) % Radix = r
<1> DEFINE n == q * Radix + r
           s == Shifted(n)
           t == n % Radix
<1>1. Radix \in Nat /\ Radix > 0 /\ n \in Nat /\ r \in 0 .. Radix - 1
  BY RadixAssumption, SMT DEF Byte
<1>2. s \in Nat /\ t \in 0 .. Radix - 1 /\ n = s * Radix + t
  BY <1>1, QuotientAndRest DEF Byte
<1>3. n = q * Radix + r
  OBVIOUS
<1> HIDE DEF n, s, t
<1>4. s = q
  <2>1. ~(s > q)
    <3> SUFFICES ASSUME s > q PROVE FALSE
      OBVIOUS
    <3>1. s >= q + 1
      BY <1>2
    <3>2. s * Radix >= (q + 1) * Radix
      BY <1>1, <1>2, <3>1, SMT
    <3>3. (q + 1) * Radix = q * Radix + Radix
      BY <1>1, SMT
    <3> QED
      BY <1>1, <1>2, <1>3, <3>2, <3>3, SMT
  <2>2. ~(s < q)
    <3> SUFFICES ASSUME s < q PROVE FALSE
      OBVIOUS
    <3>1. q >= s + 1
      BY <1>2
    <3>2. q * Radix >= (s + 1) * Radix
      BY <1>1, <1>2, <3>1, SMT
    <3>3. (s + 1) * Radix = s * Radix + Radix
      BY <1>1, <1>2, SMT
    <3> QED
      BY <1>1, <1>2, <1>3, <3>2, <3>3, SMT
  <2> QED
    BY <1>2, <2>1, <2>2, SMT
<1>5. t = r
  BY <1>1, <1>2, <1>3, <1>4, SMT
<1> QED
  BY <1>1, <1>4, <1>5 DEF n, s, t

\* The bound of a number with one byte more.
LEMMA ShiftedInBound ==
    ASSUME NEW q \in Nat, NEW m \in Nat, q < m, NEW r \in Byte
    PROVE  q * Radix + r < m * Radix
<1>1. Radix \in Nat /\ r \in 0 .. Radix - 1 /\ q + 1 <= m
  BY RadixAssumption DEF Byte
<1>2. (q + 1) * Radix <= m * Radix
  BY <1>1, SMT
<1>3. (q + 1) * Radix = q * Radix + Radix
  BY <1>1, SMT
<1> QED
  BY <1>1, <1>2, <1>3, SMT

\* The number that four bytes stand for, and these bytes again.
LEMMA PackUnpack ==
    ASSUME NEW msg, NEW at \in Nat, \A k \in 1 .. 4 : msg[at + k] \in Byte
    PROVE  /\ unpack_u32(msg, at) \in UInt32
           /\ pack_u32(unpack_u32(msg, at))
                = << msg[at + 1], msg[at + 2], msg[at + 3], msg[at + 4] >>
<1> DEFINE w == msg[at + 1]
           x == msg[at + 2]
           y == msg[at + 3]
           z == msg[at + 4]
           c == w * Radix + x
           d == c * Radix + y
           n == d * Radix + z
<1>1. w \in Byte /\ x \in Byte /\ y \in Byte /\ z \in Byte
  BY SMT
<1>2. unpack_u32(msg, at) = n
  BY Zenon DEF unpack_u32
<1> HIDE DEF w, x, y, z
<1>3. w \in Nat /\ w < Radix /\ Radix \in Nat /\ (w % Radix) = w
  BY <1>1, RadixAssumption, SMT DEF Byte
<1>4. c \in Nat /\ Shifted(c) = w /\ c % Radix = x
  BY <1>1, <1>3, ShiftedIn
<1>5. c < Radix * Radix
  BY <1>1, <1>3, ShiftedInBound
<1> HIDE DEF c
<1>6. d \in Nat /\ Shifted(d) = c /\ d % Radix = y
  BY <1>1, <1>4, ShiftedIn
<1>7. Radix * Radix \in Nat /\ (Radix * Radix) * Radix \in Nat
  BY <1>3, SMT
<1>8. d < (Radix * Radix) * Radix
  BY <1>1, <1>4, <1>5, <1>7, ShiftedInBound
<1> HIDE DEF d
<1>9. n \in Nat /\ Shifted(n) = d /\ n % Radix = z
  BY <1>1, <1>6, ShiftedIn
<1>10. n < ((Radix * Radix) * Radix) * Radix
  BY <1>1, <1>6, <1>7, <1>8, ShiftedInBound
<1> HIDE DEF n
<1>11. n \in UInt32
  BY <1>7, <1>9, <1>10, <1>3, SMT DEF UInt32
<1>12. pack_u32(n) = << w, x, y, z >>
  BY <1>3, <1>4, <1>6, <1>9, Zenon DEF pack_u32
<1> QED
  BY <1>2, <1>11, <1>12 DEF w, x, y, z

\* What follows the header of a message, without what is packed before it.
LEMMA BehindHeader ==
    ASSUME NEW h \in Seq(Byte), Len(h) = 5, NEW p \in Seq(Byte), Len(p) = 4
    PROVE  SubSeq(h \o p, 6, 9) = p
<1>1. << >> \in Seq(Byte) /\ (h \o p) \o << >> = h \o p
  BY Concatenated, ConcatEmptySeq
<1>2. SubSeq((h \o p) \o << >>, Len(h) + 1, Len(h) + Len(p)) = p
  BY <1>1, CutOut
<1>3. Len(h) + 1 = 6 /\ Len(h) + Len(p) = 9
  OBVIOUS
<1> QED
  BY <1>1, <1>2, <1>3, Zenon

\* A sequence of four, or five, bytes is its elements.
LEMMA FirstBytes ==
    ASSUME NEW msg \in Seq(Byte), Len(msg) >= 4
    PROVE  /\ SubSeq(msg, 1, 4) = << msg[1], msg[2], msg[3], msg[4] >>
           /\ Len(msg) >= 5 =>
                SubSeq(msg, 1, 5) = << msg[1], msg[2], msg[3], msg[4] >> \o << msg[5] >>
<1>1. msg[1] \in Byte /\ msg[2] \in Byte /\ msg[3] \in Byte /\ msg[4] \in Byte
  BY SMT
<1> DEFINE b == << msg[1], msg[2], msg[3], msg[4] >>
           f == SubSeq(msg, 1, 4)
<1>2. /\ b \in Seq(Byte) /\ Len(b) = 4
      /\ b[1] = msg[1] /\ b[2] = msg[2] /\ b[3] = msg[3] /\ b[4] = msg[4]
  BY <1>1
<1>3. f \in Seq(Byte) /\ Len(f) = 4 /\ \A k \in 1 .. 4 : f[k] = msg[k]
  BY SMT
<1>4. f[1] = msg[1] /\ f[2] = msg[2] /\ f[3] = msg[3] /\ f[4] = msg[4]
  BY <1>3
<1> HIDE DEF b, f
<1>5. \A k \in 1 .. 4 : f[k] = b[k]
  BY <1>2, <1>4, SMT
<1>6. f = b
  BY <1>2, <1>3, <1>5, SeqEqual
<1>7. ASSUME Len(msg) >= 5 PROVE SubSeq(msg, 1, 5) = b \o << msg[5] >>
  <2> DEFINE g == SubSeq(msg, 1, 5)
             e == << msg[5] >>
             be == b \o e
  <2>1. msg[5] \in Byte
    BY <1>7, SMT
  <2>2. e \in Seq(Byte) /\ Len(e) = 1 /\ e[1] = msg[5]
    BY <2>1
  <2> HIDE DEF e
  <2>3. /\ be \in Seq(Byte) /\ Len(be) = 5 /\ \A k \in 1 .. 4 : be[k] = b[k]
        /\ be[5] = msg[5]
    <3>1. /\ be \in Seq(Byte) /\ Len(be) = Len(b) + Len(e)
          /\ \A k \in 1 .. Len(b) : be[k] = b[k]
          /\ \A k \in 1 .. Len(e) : be[Len(b) + k] = e[k]
      BY <1>2, <2>2, Concatenated
    <3> HIDE DEF be
    <3>2. be[4 + 1] = e[1]
      BY <1>2, <2>2, <3>1
    <3> QED
      BY <1>2, <2>2, <3>1, <3>2
  <2>4. g \in Seq(Byte) /\ Len(g) = 5 /\ \A k \in 1 .. 5 : g[k] = msg[k]
    BY <1>7, SMT
  <2> HIDE DEF be, g
  <2>5. \A k \in 1 .. 5 : g[k] = be[k]
    BY <1>3, <1>5, <2>3, <2>4, SMT
  <2>6. g = be
    BY <2>3, <2>4, <2>5, SeqEqual
  <2> QED
    BY <2>6 DEF g, be, e
<1> QED
  BY <1>6, <1>7 DEF b, f

\* The header that is read, packed again.
LEMMA HeaderPackedAgain ==
    ASSUME NEW msg \in Seq(Byte), "id" \in DOMAIN unpack_msg_header(msg)
    PROVE  LET header == unpack_msg_header(msg)
           IN  SubSeq(msg, 1, SIZE_IN_BYTES)
                 = pack_msg_header(header.id, header.body_length + 1)
<1> DEFINE n == unpack_u32(msg, 0)
           header == unpack_msg_header(msg)
<1>1. /\ Len(msg) >= 5 /\ ~(n < 1)
      /\ header.id = msg[5] /\ header.body_length = n - 1
  BY SMT DEF unpack_msg_header, SIZE_IN_BYTES, INCOMPLETE_MESSAGE, MALFORMED_MESSAGE,
             UNKNOW_MESSAGE_ID
<1>2. \A k \in 1 .. 4 : msg[0 + k] \in Byte
  BY <1>1, SMT
<1>3. /\ n \in UInt32
      /\ pack_u32(n) = << msg[0 + 1], msg[0 + 2], msg[0 + 3], msg[0 + 4] >>
  BY <1>2, PackUnpack
<1> HIDE DEF n, header
<1>4. n \in Nat
  BY <1>3, RadixAssumption DEF UInt32
<1>5. header.body_length + 1 = n
  BY <1>1, <1>4
<1>6. pack_msg_header(header.id, header.body_length + 1) = pack_u32(n) \o << msg[5] >>
  BY <1>1, <1>3, <1>5, Narrowed, Zenon DEF pack_msg_header
<1>7. SubSeq(msg, 1, 5) = << msg[1], msg[2], msg[3], msg[4] >> \o << msg[5] >>
  BY <1>1, FirstBytes
<1>8. pack_u32(n) = << msg[1], msg[2], msg[3], msg[4] >>
  BY <1>3
<1> QED
  BY <1>6, <1>7, <1>8, Zenon DEF header, SIZE_IN_BYTES

\* The body of a HAVE, packed again.
LEMMA HavePackedAgain ==
    ASSUME NEW msg \in Seq(Byte), "index" \in DOMAIN unpack_have_msg(msg), Have \in Byte
    PROVE  SubSeq(msg, 1, INDEX_SIZE)
             = SubSeq(pack_have_msg(unpack_have_msg(msg).index),
                      SIZE_IN_BYTES + 1, SIZE_IN_BYTES + INDEX_SIZE)
<1> DEFINE n == unpack_u32(msg, 0)
           p == pack_u32(n)
           length == uint32_t(Len(p) + 1)
           h == pack_u32(length) \o << Have >>
<1>1. Len(msg) >= 4 /\ unpack_have_msg(msg).index = n
  BY SMT DEF unpack_have_msg, INDEX_SIZE, INCOMPLETE_MESSAGE
<1>2. \A k \in 1 .. 4 : msg[0 + k] \in Byte
  BY <1>1, SMT
<1>3. n \in UInt32 /\ p = << msg[0 + 1], msg[0 + 2], msg[0 + 3], msg[0 + 4] >>
  BY <1>2, PackUnpack
<1> HIDE DEF n
<1>4. p \in Seq(Byte) /\ Len(p) = 4
  BY <1>3, UnpackPack
<1>5. pack_have_msg(n) = h \o p
  BY <1>3, Narrowed, Zenon DEF pack_have_msg, pack_msg_header
<1>6. length \in UInt32
  <2>1. Radix \in Nat /\ Radix > 0
    BY RadixAssumption
  <2> DEFINE values == ((Radix * Radix) * Radix) * Radix
  <2>2. values \in Nat /\ values > 0
    <3>1. Radix * Radix \in Nat /\ Radix * Radix > 0
      BY <2>1, SMT
    <3>2. (Radix * Radix) * Radix \in Nat /\ (Radix * Radix) * Radix > 0
      BY <2>1, <3>1, SMT
    <3> QED
      BY <2>1, <3>2, SMT
  <2>3. length = (Len(p) + 1) % values
    BY DEF uint32_t
  <2> HIDE DEF values
  <2>4. length \in 0 .. values - 1
    BY <1>4, <2>2, <2>3, SMT
  <2> QED
    BY <2>4 DEF values, UInt32
<1> HIDE DEF p, length
<1>7. h \in Seq(Byte) /\ Len(h) = 5
  <2> DEFINE l == pack_u32(length)
             id == << Have >>
  <2>1. l \in Seq(Byte) /\ Len(l) = 4
    BY <1>6, UnpackPack
  <2>2. id \in Seq(Byte) /\ Len(id) = 1
    OBVIOUS
  <2> HIDE DEF l, id
  <2>3. l \o id \in Seq(Byte) /\ Len(l \o id) = Len(l) + Len(id)
    BY <2>1, <2>2, Concatenated
  <2>4. Len(l) + Len(id) = 5
    BY <2>1, <2>2
  <2> QED
    BY <2>3, <2>4 DEF l, id
<1> HIDE DEF h
<1>8. SubSeq(h \o p, 6, 9) = p
  BY <1>4, <1>7, BehindHeader
<1>9. SubSeq(msg, 1, 4) = << msg[1], msg[2], msg[3], msg[4] >>
  BY <1>1, FirstBytes
<1>10. p = << msg[1], msg[2], msg[3], msg[4] >>
  BY <1>3
<1>11. INDEX_SIZE = 4 /\ SIZE_IN_BYTES + 1 = 6 /\ SIZE_IN_BYTES + INDEX_SIZE = 9
  BY DEF INDEX_SIZE, SIZE_IN_BYTES
<1> QED
  BY <1>1, <1>5, <1>8, <1>9, <1>10, <1>11, Zenon

\* What is in a PIECE behind its two numbers.
LEMMA BehindNumbers ==
    ASSUME NEW msg \in Seq(Byte), Len(msg) >= 8
    PROVE  LET rest == SubSeq(msg, 9, Len(msg))
           IN  /\ rest \in Seq(Byte) /\ Len(rest) = Len(msg) - 8
               /\ \A k \in 1 .. Len(msg) - 8 : rest[k] = msg[8 + k]
<1> DEFINE n == Len(msg)
<1>1. n \in Nat /\ n >= 8 /\ n \in Int /\ 9 \in Int
  OBVIOUS
<1>2. \A k \in 9 .. n : msg[k] \in Byte
  BY <1>1
<1> HIDE DEF n
<1> DEFINE rest == SubSeq(msg, 9, n)
<1>3. /\ rest \in Seq(Byte) /\ Len(rest) = IF 9 <= n THEN n - 9 + 1 ELSE 0
      /\ \A k \in 1 .. n - 9 + 1 : rest[k] = msg[9 + k - 1]
  BY <1>1, <1>2, SubSeqProperties
<1> HIDE DEF rest
<1>4. Len(rest) = n - 8
  BY <1>1, <1>3
<1>5. \A k \in 1 .. n - 8 : k \in 1 .. n - 9 + 1 /\ 9 + k - 1 = 8 + k
  BY <1>1, SMT
<1>6. \A k \in 1 .. n - 8 : rest[k] = msg[8 + k]
  BY <1>3, <1>5
<1> QED
  BY <1>3, <1>4, <1>6 DEF rest, n

\* The body of a PIECE, packed again.
LEMMA PiecePackedAgain ==
    ASSUME NEW msg \in Seq(Byte), "block" \in DOMAIN unpack_piece_msg(msg)
    PROVE  LET piece == unpack_piece_msg(msg)
           IN  msg = (pack_u32(piece.index) \o pack_u32(piece.begin)) \o piece.block
<1> DEFINE piece == unpack_piece_msg(msg)
           i == pack_u32(unpack_u32(msg, 0))
           b == pack_u32(unpack_u32(msg, 4))
           rest == SubSeq(msg, 9, Len(msg))
           ib == i \o b
           all == ib \o rest
<1>1. /\ Len(msg) >= 8 /\ Len(msg) \in Nat
      /\ piece.index = unpack_u32(msg, 0) /\ piece.begin = unpack_u32(msg, 4)
      /\ piece.block = rest
  BY SMT DEF unpack_piece_msg, INDEX_SIZE, BEGIN_SIZE, INCOMPLETE_MESSAGE
<1>2. (\A k \in 1 .. 4 : msg[0 + k] \in Byte) /\ (\A k \in 1 .. 4 : msg[4 + k] \in Byte)
  BY <1>1, SMT
<1>3. /\ unpack_u32(msg, 0) \in UInt32 /\ unpack_u32(msg, 4) \in UInt32
      /\ i = << msg[0 + 1], msg[0 + 2], msg[0 + 3], msg[0 + 4] >>
      /\ b = << msg[4 + 1], msg[4 + 2], msg[4 + 3], msg[4 + 4] >>
  BY <1>2, PackUnpack
<1>4. i \in Seq(Byte) /\ Len(i) = 4 /\ b \in Seq(Byte) /\ Len(b) = 4
  BY <1>3, UnpackPack
<1>5. /\ \A k \in 1 .. 4 : i[k] = msg[k]
      /\ \A k \in 1 .. 4 : b[k] = msg[4 + k]
  <2>1. /\ i[1] = msg[1] /\ i[2] = msg[2] /\ i[3] = msg[3] /\ i[4] = msg[4]
        /\ b[1] = msg[5] /\ b[2] = msg[6] /\ b[3] = msg[7] /\ b[4] = msg[8]
    BY <1>3
  <2> HIDE DEF i, b
  <2> QED
    BY <2>1, SMT
<1>6. /\ rest \in Seq(Byte) /\ Len(rest) = Len(msg) - 8
      /\ \A k \in 1 .. Len(msg) - 8 : rest[k] = msg[8 + k]
  BY <1>1, BehindNumbers
<1> HIDE DEF i, b, rest
<1>7. /\ ib \in Seq(Byte) /\ Len(ib) = 8 /\ \A k \in 1 .. 8 : ib[k] = msg[k]
  <2>1. /\ ib \in Seq(Byte) /\ Len(ib) = Len(i) + Len(b)
        /\ \A k \in 1 .. Len(i) : ib[k] = i[k]
        /\ \A k \in 1 .. Len(b) : ib[Len(i) + k] = b[k]
    BY <1>4, Concatenated
  <2> HIDE DEF ib
  <2>2. \A k \in 5 .. 8 : k - 4 \in 1 .. 4 /\ k = 4 + (k - 4)
    BY SMT
  <2>3. \A k \in 5 .. 8 : ib[k] = msg[k]
    BY <1>4, <1>5, <2>1, <2>2
  <2> QED
    BY <1>4, <1>5, <2>1, <2>3, SMT
<1> HIDE DEF ib
<1>8. /\ all \in Seq(Byte) /\ Len(all) = Len(msg)
      /\ \A k \in 1 .. Len(msg) : all[k] = msg[k]
  <2>1. /\ all \in Seq(Byte) /\ Len(all) = Len(ib) + Len(rest)
        /\ \A k \in 1 .. Len(ib) : all[k] = ib[k]
        /\ \A k \in 1 .. Len(rest) : all[Len(ib) + k] = rest[k]
    BY <1>6, <1>7, Concatenated
  <2> HIDE DEF all
  <2>2. \A k \in 1 .. 8 : all[k] = msg[k]
    BY <1>7, <2>1
  <2>3. ASSUME NEW k \in 9 .. Len(msg) PROVE all[k] = msg[k]
    <3>1. k - 8 \in 1 .. Len(rest) /\ Len(ib) + (k - 8) = k /\ 8 + (k - 8) = k
      BY <1>1, <1>6, <1>7, SMT
    <3>2. all[Len(ib) + (k - 8)] = rest[k - 8]
      BY <2>1, <3>1
    <3>3. rest[k - 8] = msg[8 + (k - 8)]
      BY <1>6, <3>1
    <3> QED
      BY <3>1, <3>2, <3>3
  <2>4. Len(all) = Len(msg)
    BY <1>1, <1>6, <1>7, <2>1, SMT
  <2>5. \A k \in 1 .. Len(msg) : k \in 1 .. 8 \/ k \in 9 .. Len(msg)
    BY <1>1, SMT
  <2> QED
    BY <2>1, <2>2, <2>3, <2>4, <2>5
<1> HIDE DEF all
<1>9. msg = all
  BY <1>8, SeqEqual
<1> QED
  BY <1>1, <1>9, Zenon DEF all, ib, i, b

--------------------------------------------------------------------------------
\* Nothing of a message is lost where it is unpacked (unpack_msg_header,
\* unpack_piece_msg, unpack_have_msg), whatever bytes a peer sends and however
\* many: packed again, its header or its body are these bytes.
THEOREM UnpackingLosesNothing ==
    ASSUME Have \in Byte, NEW msg \in Seq(Byte) PROVE PackedAgain(msg)
BY HeaderPackedAgain, HavePackedAgain, PiecePackedAgain DEF PackedAgain

================================================================================
