------------------------ MODULE PacketStream_proofs ------------------------
(* packet_read never loses its place in the stream, for packets of any     *)
(* sizes, any number of them and any way the bytes are cut.                *)
EXTENDS PacketStream, SequenceTheorems, TLAPS

Byte == [packet : Packet, nr : 1 .. MaxSent, at : Nat]

(* The bytes on their way: those in the buffer, then those on the wire.    *)
Coming == input \o wire

(* Below, q is a sequence of bytes, s the packets sent, and m how many of  *)
(* them have been handled.                                                 *)
(* Each byte is one of a packet sent, ...                                  *)
BytesSent(q, s) ==
  \A i \in 1 .. Len(q) :
    /\ q[i].nr \in 1 .. Len(s) /\ q[i].packet = s[q[i].nr]
    /\ q[i].at \in 1 .. Size[q[i].packet]

(* ... the rest of its packet is behind it, ...                            *)
Whole(q) ==
  \A i \in 1 .. Len(q) : \A k \in Nat : q[i].at + k <= Size[q[i].packet] =>
    /\ i + k <= Len(q)
    /\ q[i + k] = [packet |-> q[i].packet, nr |-> q[i].nr, at |-> q[i].at + k]

(* ... and behind a last byte is the first one of the next packet.         *)
Gapless(q, s) ==
  \A i \in 1 .. Len(q) : q[i].at = Size[q[i].packet] =>
    /\ i < Len(q) => q[i + 1].nr = q[i].nr + 1 /\ q[i + 1].at = 1
    /\ i = Len(q) => q[i].nr = Len(s)

(* The first byte is the first one of the packet to be handled next.       *)
InPlace(q, s, m) ==
  /\ q = << >> => m = Len(s)
  /\ q # << >> => q[1].nr = m + 1 /\ q[1].at = 1

Ordered(q, s, m) ==
  BytesSent(q, s) /\ Whole(q) /\ Gapless(q, s) /\ InPlace(q, s, m)

(* A header taken by itself stops the reading for good (size # 0).         *)
StreamInv ==
  /\ StreamTypeOK /\ NothingLeftBehind
  /\ size = 0 => Ordered(Coming, sent, Len(handled))

-----------------------------------------------------------------------------
(* The bytes.                                                              *)

LEMMA SizeFacts ==
  /\ HeaderSize \in Nat /\ HeaderSize >= 1
  /\ \A p \in Packet : Size[p] \in Nat /\ Size[p] > HeaderSize
BY StreamAssumption

LEMMA BytesFacts ==
  ASSUME NEW p \in Packet, NEW n \in 1 .. MaxSent
  PROVE  /\ Bytes(p, n) \in Seq(Byte) /\ Len(Bytes(p, n)) = Size[p]
         /\ \A i \in 1 .. Size[p] : Bytes(p, n)[i] = [packet |-> p, nr |-> n, at |-> i]
<1>1. Size[p] \in Nat
  BY SizeFacts
<1>2. \A i \in 1 .. Size[p] : [packet |-> p, nr |-> n, at |-> i] \in Byte
  BY <1>1 DEF Byte
<1> QED BY <1>1, <1>2 DEF Bytes

(* A packet that is sent comes behind what was sent before.                *)
LEMMA SendKeepsOrder ==
  ASSUME NEW q \in Seq(Byte), NEW s \in Seq(Packet), NEW m \in Nat,
         NEW p \in Packet, Len(s) < MaxSent, Ordered(q, s, m)
  PROVE  Ordered(q \o Bytes(p, Len(s) + 1), Append(s, p), m)
<1> DEFINE b == Bytes(p, Len(s) + 1)
           r == q \o b
           t == Append(s, p)
           z == Size[p]
<1> SUFFICES Ordered(r, t, m)
  OBVIOUS
<1>1. MaxSent \in Nat /\ z \in Nat /\ z >= 1 /\ Len(s) \in Nat /\ Len(q) \in Nat
  BY SizeFacts, StreamAssumption
<1>2. Len(s) + 1 \in 1 .. MaxSent
  BY <1>1
<1>3. b \in Seq(Byte) /\ Len(b) = z
  BY <1>2, BytesFacts
<1>4. \A i \in 1 .. z : b[i] = [packet |-> p, nr |-> Len(s) + 1, at |-> i]
  BY <1>2, BytesFacts
<1> HIDE DEF b
<1>5. /\ Len(r) = Len(q) + z
      /\ \A i \in 1 .. Len(q) + z : r[i] = IF i <= Len(q) THEN q[i] ELSE b[i - Len(q)]
  <2>1. /\ Len(r) = Len(q) + Len(b)
        /\ \A i \in 1 .. Len(q) + Len(b) : r[i] = IF i <= Len(q) THEN q[i] ELSE b[i - Len(q)]
    BY <1>3, ConcatProperties, Zenon
  <2> QED BY <2>1, <1>3, Zenon
<1> HIDE DEF r, z
<1>6. \A i \in 1 .. Len(q) : r[i] = q[i]
  BY <1>5, <1>1
<1>7. \A j \in 1 .. z : r[Len(q) + j] = [packet |-> p, nr |-> Len(s) + 1, at |-> j]
  <2> TAKE j \in 1 .. z
  <2>1. /\ Len(q) + j \in 1 .. Len(q) + z /\ ~(Len(q) + j <= Len(q))
        /\ Len(q) + j - Len(q) = j
    BY <1>1
  <2>2. r[Len(q) + j] = b[j]
    BY <2>1, <1>5
  <2> QED BY <2>2, <1>4
<1>8. /\ t \in Seq(Packet) /\ Len(t) = Len(s) + 1 /\ t[Len(s) + 1] = p
      /\ \A i \in 1 .. Len(s) : t[i] = s[i]
  BY <1>1
<1> HIDE DEF t
<1>9. \A i \in 1 .. Len(r) : i \in 1 .. Len(q) \/ \E j \in 1 .. z : i = Len(q) + j
  <2> TAKE i \in 1 .. Len(r)
  <2>1. CASE i <= Len(q)
    BY <2>1, <1>1
  <2>2. CASE i > Len(q)
    <3>1. i - Len(q) \in 1 .. z /\ i = Len(q) + (i - Len(q))
      BY <2>2, <1>1, <1>5
    <3> QED BY <3>1
  <2> QED BY <2>1, <2>2, <1>1
<1>10. BytesSent(r, t)
  <2> SUFFICES ASSUME NEW i \in 1 .. Len(r)
               PROVE  /\ r[i].nr \in 1 .. Len(t) /\ r[i].packet = t[r[i].nr]
                      /\ r[i].at \in 1 .. Size[r[i].packet]
    BY DEF BytesSent
  <2>1. CASE i \in 1 .. Len(q)
    <3>1. /\ q[i].nr \in 1 .. Len(s) /\ q[i].packet = s[q[i].nr]
          /\ q[i].at \in 1 .. Size[q[i].packet]
      BY <2>1 DEF Ordered, BytesSent
    <3> QED BY <2>1, <3>1, <1>6, <1>8, <1>1
  <2>2. CASE \E j \in 1 .. z : i = Len(q) + j
    <3> PICK j \in 1 .. z : i = Len(q) + j
      BY <2>2
    <3>1. r[i] = [packet |-> p, nr |-> Len(s) + 1, at |-> j]
      BY <2>2, <1>7
    <3> QED BY <3>1, <1>8, <1>1 DEF z
  <2> QED BY <2>1, <2>2, <1>9
<1>11. Whole(r)
  <2> SUFFICES ASSUME NEW i \in 1 .. Len(r), NEW k \in Nat,
                      r[i].at + k <= Size[r[i].packet]
               PROVE  /\ i + k <= Len(r)
                      /\ r[i + k] = [packet |-> r[i].packet, nr |-> r[i].nr,
                                     at |-> r[i].at + k]
    BY DEF Whole
  <2>1. CASE i \in 1 .. Len(q)
    <3>1. /\ i + k <= Len(q)
          /\ q[i + k] = [packet |-> q[i].packet, nr |-> q[i].nr, at |-> q[i].at + k]
      BY <2>1, <1>6 DEF Ordered, Whole
    <3>2. r[i + k] = q[i + k] /\ r[i] = q[i]
      BY <3>1, <2>1, <1>6, <1>1
    <3> QED BY <3>1, <3>2, <1>5, <1>1, <2>1
  <2>2. CASE \E j \in 1 .. z : i = Len(q) + j
    <3> PICK j \in 1 .. z : i = Len(q) + j
      BY <2>2
    <3>1. r[i] = [packet |-> p, nr |-> Len(s) + 1, at |-> j]
      BY <2>2, <1>7
    <3>2. j + k \in 1 .. z /\ i + k = Len(q) + (j + k)
      BY <3>1, <2>2, <1>1 DEF z
    <3>3. r[i + k] = [packet |-> p, nr |-> Len(s) + 1, at |-> j + k]
      BY <3>2, <1>7
    <3>4. i + k <= Len(r)
      BY <3>2, <1>5, <1>1
    <3> QED BY <3>1, <3>3, <3>4
  <2> QED BY <2>1, <2>2, <1>9
<1>12. Gapless(r, t)
  <2> SUFFICES ASSUME NEW i \in 1 .. Len(r), r[i].at = Size[r[i].packet]
               PROVE  /\ i < Len(r) => r[i + 1].nr = r[i].nr + 1 /\ r[i + 1].at = 1
                      /\ i = Len(r) => r[i].nr = Len(t)
    BY DEF Gapless
  <2>1. CASE i \in 1 .. Len(q)
    <3>1. r[i] = q[i]
      BY <2>1, <1>6
    <3>2. /\ i < Len(q) => q[i + 1].nr = q[i].nr + 1 /\ q[i + 1].at = 1
          /\ i = Len(q) => q[i].nr = Len(s)
      BY <2>1, <3>1 DEF Ordered, Gapless
    <3>3. i # Len(r)
      BY <2>1, <1>5, <1>1
    <3>4. CASE i < Len(q)
      <4>1. r[i + 1] = q[i + 1]
        BY <3>4, <2>1, <1>6, <1>1
      <4> QED BY <4>1, <3>1, <3>2, <3>3, <3>4
    <3>5. CASE i = Len(q)
      <4>1. r[i + 1] = [packet |-> p, nr |-> Len(s) + 1, at |-> 1]
        BY <3>5, <1>7, <1>1
      <4> QED BY <4>1, <3>1, <3>2, <3>3, <3>5
    <3> QED BY <3>4, <3>5, <2>1, <1>1
  <2>2. CASE \E j \in 1 .. z : i = Len(q) + j
    <3> PICK j \in 1 .. z : i = Len(q) + j
      BY <2>2
    <3>1. r[i] = [packet |-> p, nr |-> Len(s) + 1, at |-> j]
      BY <2>2, <1>7
    <3>2. j = z /\ i = Len(r)
      BY <3>1, <2>2, <1>1, <1>5 DEF z
    <3> QED BY <3>1, <3>2, <1>8, <1>1
  <2> QED BY <2>1, <2>2, <1>9
<1>13. InPlace(r, t, m)
  <2>1. r # << >>
    BY <1>5, <1>1
  <2>2. CASE q = << >>
    <3>1. r[1] = [packet |-> p, nr |-> Len(s) + 1, at |-> 1]
      BY <2>2, <1>7, <1>1
    <3>2. m = Len(s)
      BY <2>2 DEF Ordered, InPlace
    <3> QED BY <2>1, <3>1, <3>2 DEF InPlace
  <2>3. CASE q # << >>
    <3>1. r[1] = q[1]
      BY <2>3, <1>6, <1>1
    <3> QED BY <2>1, <2>3, <3>1 DEF Ordered, InPlace
  <2> QED BY <2>2, <2>3
<1> QED BY <1>10, <1>11, <1>12, <1>13 DEF Ordered

(* At the start of the bytes is the whole of the next packet.              *)
LEMMA FirstIsWhole ==
  ASSUME NEW q \in Seq(Byte), NEW s \in Seq(Packet), NEW m \in Nat,
         Ordered(q, s, m), q # << >>
  PROVE  LET z == Size[q[1].packet]
         IN /\ z \in Nat /\ z > HeaderSize /\ z <= Len(q)
            /\ m + 1 \in 1 .. Len(s) /\ q[1].packet = s[m + 1] /\ q[1].nr = m + 1
            /\ \A i \in 1 .. z :
                 q[i] = [packet |-> s[m + 1], nr |-> m + 1, at |-> i]
<1> DEFINE z == Size[q[1].packet]
<1>1. Len(q) \in Nat /\ Len(q) >= 1 /\ Len(s) \in Nat /\ 1 \in 1 .. Len(q)
  OBVIOUS
<1>2. q[1].nr = m + 1 /\ q[1].at = 1
  BY DEF Ordered, InPlace
<1>3. q[1].nr \in 1 .. Len(s) /\ q[1].packet = s[q[1].nr]
  BY <1>1 DEF Ordered, BytesSent
<1>4. s[m + 1] \in Packet
  BY <1>2, <1>3
<1>5. z \in Nat /\ z > HeaderSize /\ z >= 1
  BY <1>2, <1>3, <1>4, SizeFacts
<1> HIDE DEF z
<1>6. \A k \in Nat : 1 + k <= z =>
        /\ 1 + k <= Len(q)
        /\ q[1 + k] = [packet |-> s[m + 1], nr |-> m + 1, at |-> 1 + k]
  BY <1>1, <1>2, <1>3 DEF Ordered, Whole, z
<1>7. z <= Len(q)
  <2>1. z - 1 \in Nat /\ 1 + (z - 1) = z /\ 1 + (z - 1) <= z
    BY <1>5
  <2>2. 1 + (z - 1) <= Len(q)
    BY <2>1, <1>6, Zenon
  <2> QED BY <2>1, <2>2, Zenon
<1>8. \A i \in 1 .. z : q[i] = [packet |-> s[m + 1], nr |-> m + 1, at |-> i]
  <2> TAKE i \in 1 .. z
  <2>1. i - 1 \in Nat /\ 1 + (i - 1) = i /\ i <= z
    BY <1>5
  <2> QED BY <2>1, <1>6
<1> QED BY <1>2, <1>3, <1>5, <1>7, <1>8 DEF z

(* The places of what is left of lq bytes behind z of them.               *)
Shifted(lq, lr, z) ==
  /\ \A i \in 1 .. lr : \A k \in Nat :
       /\ z + (i + k) = (z + i) + k
       /\ (z + i) + k <= lq => i + k \in 1 .. lr
  /\ \A i \in 1 .. lr : i < lr =>
       i + 1 \in 1 .. lr /\ z + (i + 1) = (z + i) + 1 /\ z + i < lq

LEMMA Shift ==
  ASSUME NEW lq \in Nat, NEW lr \in Nat, NEW z \in Nat, lr = lq - z
  PROVE  Shifted(lq, lr, z)
BY DEF Shifted

LEMMA ShiftedIn ==
  ASSUME NEW lq \in Nat, NEW lr \in Nat, NEW z \in Nat, lr = lq - z, z >= 1
  PROVE  \A i \in 1 .. lr : z + i \in 1 .. lq
OBVIOUS

(* Taking it keeps the rest in order, with one packet more handled.        *)
LEMMA TakeKeepsOrder ==
  ASSUME NEW q \in Seq(Byte), NEW r \in Seq(Byte), NEW s \in Seq(Packet),
         NEW m \in Nat, Ordered(q, s, m), q # << >>,
         NEW z \in Nat, z = Size[q[1].packet], Len(r) = Len(q) - z,
         \A i \in 1 .. Len(r) : r[i] = q[z + i]
  PROVE  Ordered(r, s, m + 1)
<1> DEFINE lq == Len(q)
           lr == Len(r)
<1>1. lq \in Nat /\ lr \in Nat /\ Len(s) \in Nat /\ lr = lq - z
  OBVIOUS
<1>2. /\ z > HeaderSize /\ z <= Len(q) /\ m + 1 \in 1 .. Len(s)
      /\ q[1].packet = s[m + 1]
      /\ \A i \in 1 .. z : q[i] = [packet |-> s[m + 1], nr |-> m + 1, at |-> i]
  BY FirstIsWhole, Zenon
<1>3. z >= 1 /\ z <= lq
  BY <1>2, SizeFacts
<1> HIDE DEF lq, lr
<1>a. \A i \in 1 .. lr : z + i \in 1 .. lq
  BY <1>1, <1>3, ShiftedIn, Zenon
<1>4. \A i \in 1 .. Len(r) : z + i \in 1 .. Len(q)
  BY <1>a DEF lq, lr
<1>b. Shifted(lq, lr, z)
  BY <1>1, Shift, Zenon
<1>5. BytesSent(r, s)
  BY <1>4 DEF Ordered, BytesSent
<1>6. Whole(r)
  <2> SUFFICES ASSUME NEW i \in 1 .. Len(r), NEW k \in Nat,
                      r[i].at + k <= Size[r[i].packet]
               PROVE  /\ i + k <= Len(r)
                      /\ r[i + k] = [packet |-> r[i].packet, nr |-> r[i].nr,
                                     at |-> r[i].at + k]
    BY DEF Whole
  <2>1. r[i] = q[z + i] /\ z + i \in 1 .. Len(q)
    BY <1>4
  <2>2. /\ (z + i) + k <= Len(q)
        /\ q[(z + i) + k] = [packet |-> r[i].packet, nr |-> r[i].nr,
                             at |-> r[i].at + k]
    BY <2>1 DEF Ordered, Whole
  <2>a. i \in 1 .. lr /\ (z + i) + k <= lq
    BY <2>2 DEF lq, lr
  <2>b. i + k \in 1 .. lr /\ z + (i + k) = (z + i) + k
    BY <2>a, <1>b, Zenon DEF Shifted
  <2>3. i + k \in 1 .. Len(r) /\ i + k <= Len(r) /\ z + (i + k) = (z + i) + k
    BY <2>b DEF lr
  <2> QED BY <2>2, <2>3
<1>7. Gapless(r, s)
  <2> SUFFICES ASSUME NEW i \in 1 .. Len(r), r[i].at = Size[r[i].packet]
               PROVE  /\ i < Len(r) => r[i + 1].nr = r[i].nr + 1 /\ r[i + 1].at = 1
                      /\ i = Len(r) => r[i].nr = Len(s)
    BY DEF Gapless
  <2>1. r[i] = q[z + i] /\ z + i \in 1 .. Len(q)
    BY <1>4
  <2>2. /\ z + i < Len(q) => /\ q[(z + i) + 1].nr = r[i].nr + 1
                             /\ q[(z + i) + 1].at = 1
        /\ z + i = Len(q) => r[i].nr = Len(s)
    BY <2>1 DEF Ordered, Gapless
  <2>a. i \in 1 .. lr
    BY DEF lr
  <2>b. i < lr => i + 1 \in 1 .. lr /\ z + (i + 1) = (z + i) + 1 /\ z + i < lq
    BY <2>a, <1>b, Zenon DEF Shifted
  <2>c. i = lr => z + i = lq
    BY <2>a, <1>1
  <2>3. i < Len(r) => i + 1 \in 1 .. Len(r) /\ z + (i + 1) = (z + i) + 1
                      /\ z + i < Len(q)
    BY <2>b DEF lr, lq
  <2>4. i = Len(r) => z + i = Len(q)
    BY <2>c DEF lr, lq
  <2> QED BY <2>2, <2>3, <2>4
<1>8. InPlace(r, s, m + 1)
  <2>a. z \in 1 .. z /\ z \in 1 .. lq
    BY <1>1, <1>3
  <2>b. q[z] = [packet |-> s[m + 1], nr |-> m + 1, at |-> z]
    BY <2>a, <1>2, Zenon
  <2>1. /\ q[z].nr = m + 1 /\ q[z].at = Size[q[z].packet] /\ z \in 1 .. Len(q)
    BY <2>a, <2>b, <1>2 DEF lq
  <2>c. /\ z < Len(q) => q[z + 1].nr = q[z].nr + 1 /\ q[z + 1].at = 1
        /\ z = Len(q) => q[z].nr = Len(s)
    BY <2>1, Zenon DEF Ordered, Gapless
  <2>2. /\ z < Len(q) => q[z + 1].nr = (m + 1) + 1 /\ q[z + 1].at = 1
        /\ z = Len(q) => m + 1 = Len(s)
    BY <2>1, <2>c, Zenon
  <2>3. CASE r = << >>
    <3>1. lr = 0
      BY <2>3 DEF lr
    <3>2. z = Len(q)
      BY <3>1, <1>1 DEF lq
    <3> QED BY <2>3, <2>2, <3>2 DEF InPlace
  <2>4. CASE r # << >>
    <3>a. lr >= 1
      BY <2>4 DEF lr
    <3>b. 1 \in 1 .. lr /\ z < lq
      BY <3>a, <1>1, <1>3
    <3>1. 1 \in 1 .. Len(r) /\ z < Len(q)
      BY <3>b DEF lr, lq
    <3>2. r[1] = q[z + 1]
      BY <3>1
    <3> QED BY <2>4, <3>1, <3>2, <2>2 DEF InPlace
  <2> QED BY <2>3, <2>4
<1> QED BY <1>5, <1>6, <1>7, <1>8 DEF Ordered

-----------------------------------------------------------------------------
(* Cutting a sequence in two.                                              *)

LEMMA FirstPart ==
  ASSUME NEW S, NEW a \in Seq(S), NEW n \in Nat, n <= Len(a)
  PROVE  /\ SubSeq(a, 1, n) \in Seq(S) /\ Len(SubSeq(a, 1, n)) = n
         /\ \A i \in 1 .. n : SubSeq(a, 1, n)[i] = a[i]
<1>1. SubSeq(a, 1, n) \in Seq(S)
  OBVIOUS
<1>2. Len(SubSeq(a, 1, n)) = n
  OBVIOUS
<1>3. ASSUME NEW i \in 1 .. n PROVE SubSeq(a, 1, n)[i] = a[i]
  OBVIOUS
<1> QED BY <1>1, <1>2, <1>3, Zenon

LEMMA SecondPart ==
  ASSUME NEW S, NEW a \in Seq(S), NEW n \in Nat, n <= Len(a)
  PROVE  /\ Behind(a, n) \in Seq(S) /\ Len(Behind(a, n)) = Len(a) - n
         /\ \A i \in 1 .. Len(a) - n : Behind(a, n)[i] = a[n + i]
<1>1. Behind(a, n) \in Seq(S)
  BY DEF Behind
<1>2. Len(Behind(a, n)) = Len(a) - n
  BY DEF Behind
<1>3. ASSUME NEW i \in 1 .. Len(a) - n PROVE Behind(a, n)[i] = a[n + i]
  BY DEF Behind
<1> QED BY <1>1, <1>2, <1>3, Zenon

(* Two sequences of the same bytes are the same.                           *)
LEMMA SameBytes ==
  ASSUME NEW S, NEW a \in Seq(S), NEW b \in Seq(S), Len(a) = Len(b),
         \A i \in 1 .. Len(a) : a[i] = b[i]
  PROVE  a = b
OBVIOUS

LEMMA BothParts ==
  ASSUME NEW S, NEW a \in Seq(S), NEW n \in Nat, n <= Len(a)
  PROVE  SubSeq(a, 1, n) \o Behind(a, n) = a
<1> DEFINE x == SubSeq(a, 1, n)
           y == Behind(a, n)
           l == Len(a)
<1>1. x \in Seq(S) /\ Len(x) = n /\ \A i \in 1 .. n : x[i] = a[i]
  BY FirstPart
<1>2. y \in Seq(S) /\ Len(y) = l - n /\ \A i \in 1 .. l - n : y[i] = a[n + i]
  BY SecondPart
<1>3. l \in Nat /\ n <= l
  OBVIOUS
<1> HIDE DEF x, y
<1>4. /\ x \o y \in Seq(S) /\ Len(x \o y) = Len(x) + Len(y)
      /\ \A i \in 1 .. Len(x) + Len(y) :
           (x \o y)[i] = IF i <= Len(x) THEN x[i] ELSE y[i - Len(x)]
  BY <1>1, <1>2, ConcatProperties, Zenon
<1>a. Len(x \o y) = n + (l - n)
  BY <1>1, <1>2, <1>4, Zenon
<1>b. \A i \in 1 .. n + (l - n) : (x \o y)[i] = IF i <= n THEN x[i] ELSE y[i - n]
  BY <1>1, <1>2, <1>4, Zenon
<1> HIDE DEF l
<1>5. n + (l - n) = l
  BY <1>3
<1>6. \A i \in 1 .. l : i <= n \/ (i - n \in 1 .. l - n /\ n + (i - n) = i /\ ~(i <= n))
  BY <1>3
<1>7. \A i \in 1 .. l : i <= n => i \in 1 .. n
  BY <1>3
<1>8. \A i \in 1 .. l : (x \o y)[i] = a[i]
  <2> TAKE i \in 1 .. l
  <2>1. (x \o y)[i] = IF i <= n THEN x[i] ELSE y[i - n]
    BY <1>b, <1>5, Zenon
  <2>2. CASE i <= n
    BY <2>1, <2>2, <1>7, <1>1, Zenon
  <2>3. CASE ~(i <= n)
    BY <2>1, <2>3, <1>6, <1>2, Zenon
  <2> QED BY <2>2, <2>3, Zenon
<1>9. Len(x \o y) = Len(a) /\ \A i \in 1 .. Len(x \o y) : (x \o y)[i] = a[i]
  BY <1>a, <1>5, <1>8, Zenon DEF l
<1> QED BY <1>4, <1>9, SameBytes, Zenon DEF x, y

-----------------------------------------------------------------------------
(* The types.                                                              *)

LEMMA Types ==
  ASSUME StreamTypeOK
  PROVE  /\ sent \in Seq(Packet) /\ Len(sent) <= MaxSent
         /\ wire \in Seq(Byte) /\ input \in Seq(Byte)
         /\ size \in {0} \cup {Size[p] : p \in Packet}
         /\ reading \in BOOLEAN /\ handled \in Seq(Packet)
         /\ Coming \in Seq(Byte) /\ Len(handled) \in Nat
<1>1. /\ sent \in Seq(Packet) /\ Len(sent) <= MaxSent
      /\ wire \in Seq(Byte) /\ input \in Seq(Byte)
      /\ size \in {0} \cup {Size[p] : p \in Packet}
      /\ reading \in BOOLEAN /\ handled \in Seq(Packet)
  BY DEF StreamTypeOK, Byte
<1>2. Coming \in Seq(Byte)
  BY <1>1, ConcatProperties, Zenon DEF Coming
<1>3. Len(handled) \in Nat
  BY <1>1
<1> QED BY <1>1, <1>2, <1>3

LEMMA TypesNext ==
  ASSUME sent' \in Seq(Packet), Len(sent') <= MaxSent,
         wire' \in Seq(Byte), input' \in Seq(Byte),
         size' \in {0} \cup {Size[p] : p \in Packet},
         reading' \in BOOLEAN, handled' \in Seq(Packet)
  PROVE  StreamTypeOK'
BY DEF StreamTypeOK, Byte

LEMMA InitOrdered == Init => StreamInv
<1> SUFFICES ASSUME Init PROVE StreamInv
  OBVIOUS
<1>1. StreamTypeOK
  <2>1. Len(sent) <= MaxSent
    BY StreamAssumption DEF Init
  <2>2. << >> \in Seq(Packet) /\ << >> \in Seq(Byte)
    OBVIOUS
  <2>3. /\ sent \in Seq(Packet) /\ handled \in Seq(Packet)
        /\ wire \in Seq(Byte) /\ input \in Seq(Byte)
    BY <2>2 DEF Init
  <2>4. size \in {0} \cup {Size[p] : p \in Packet} /\ reading \in BOOLEAN
    BY DEF Init
  <2> QED BY <2>1, <2>3, <2>4 DEF StreamTypeOK, Byte
<1>2. NothingLeftBehind
  <2>1. Len(input) = 0
    BY DEF Init
  <2> QED BY <2>1, SizeFacts DEF NothingLeftBehind
<1>3. Coming = << >>
  BY DEF Coming, Init
<1>4. Len(sent) = 0 /\ Len(handled) = 0
  BY DEF Init
<1>5. Ordered(<< >>, sent, Len(handled))
  BY <1>4 DEF Ordered, BytesSent, Whole, Gapless, InPlace
<1> QED BY <1>1, <1>2, <1>3, <1>5 DEF StreamInv

-----------------------------------------------------------------------------
(* The steps.                                                              *)

LEMMA SendInv ==
  ASSUME StreamInv, NEW p \in Packet, Send(p) PROVE StreamInv'
<1> DEFINE b == Bytes(p, Len(sent) + 1)
<1>1. /\ sent \in Seq(Packet) /\ wire \in Seq(Byte) /\ input \in Seq(Byte)
      /\ size \in {0} \cup {Size[x] : x \in Packet}
      /\ reading \in BOOLEAN /\ handled \in Seq(Packet)
      /\ Coming \in Seq(Byte) /\ Len(handled) \in Nat
  BY Types DEF StreamInv
<1>2. /\ Len(sent) < MaxSent /\ sent' = Append(sent, p) /\ wire' = wire \o b
      /\ input' = input /\ size' = size /\ reading' = reading
      /\ handled' = handled
  BY DEF Send
<1>3. b \in Seq(Byte)
  <2>1. Len(sent) + 1 \in 1 .. MaxSent
    BY <1>1, <1>2, StreamAssumption
  <2> QED BY <2>1, BytesFacts, Zenon
<1>4. wire' \in Seq(Byte)
  BY <1>1, <1>2, <1>3, ConcatProperties, Zenon
<1>5. sent' \in Seq(Packet) /\ Len(sent') <= MaxSent
  BY <1>1, <1>2, StreamAssumption
<1>6. StreamTypeOK'
  BY <1>1, <1>2, <1>4, <1>5, TypesNext
<1>7. NothingLeftBehind'
  BY <1>2 DEF StreamInv, NothingLeftBehind
<1>8. ASSUME size' = 0 PROVE Ordered(Coming, sent, Len(handled))'
  <2>1. Ordered(Coming, sent, Len(handled))
    BY <1>2, <1>8 DEF StreamInv
  <2>2. Ordered(Coming \o b, Append(sent, p), Len(handled))
    BY <1>1, <1>2, <2>1, SendKeepsOrder, Zenon
  <2>3. Coming' = Coming \o b
    <3>a. input \in Seq(Byte) /\ wire \in Seq(Byte) /\ b \in Seq(Byte)
      BY <1>1, <1>3
    <3> HIDE DEF b
    <3>1. (input \o wire) \o b = input \o (wire \o b)
      BY <3>a
    <3> QED BY <3>1, <1>2 DEF Coming
  <2> QED BY <2>2, <2>3, <1>2
<1> QED BY <1>6, <1>7, <1>8 DEF StreamInv

LEMMA Regrouped ==
  ASSUME NEW a \in Seq(Byte), NEW b \in Seq(Byte), NEW c \in Seq(Byte)
  PROVE  (a \o b) \o c = a \o (b \o c)
BY ConcatAssociative

LEMMA ArriveInv ==
  ASSUME StreamInv, NEW n \in 1 .. Len(wire), Arrive(n) PROVE StreamInv'
<1>1. /\ sent \in Seq(Packet) /\ Len(sent) <= MaxSent
      /\ wire \in Seq(Byte) /\ input \in Seq(Byte)
      /\ size \in {0} \cup {Size[x] : x \in Packet}
      /\ handled \in Seq(Packet)
  BY Types DEF StreamInv
<1>2. /\ input' = input \o SubSeq(wire, 1, n) /\ wire' = Behind(wire, n)
      /\ reading' = TRUE /\ sent' = sent /\ size' = size /\ handled' = handled
  BY DEF Arrive, Behind
<1>3. n \in Nat /\ n <= Len(wire)
  BY <1>1
<1>4. SubSeq(wire, 1, n) \in Seq(Byte) /\ Behind(wire, n) \in Seq(Byte)
  BY <1>1, <1>3, FirstPart, SecondPart, Zenon
<1>5. input' \in Seq(Byte)
  BY <1>1, <1>2, <1>4, ConcatProperties, Zenon
<1>6. StreamTypeOK'
  BY <1>1, <1>2, <1>4, <1>5, TypesNext
<1>7. NothingLeftBehind'
  BY <1>2 DEF NothingLeftBehind
<1>8. Coming' = Coming
  <2>1. (input \o SubSeq(wire, 1, n)) \o Behind(wire, n)
          = input \o (SubSeq(wire, 1, n) \o Behind(wire, n))
    <3>1. input \in Seq(Byte) /\ SubSeq(wire, 1, n) \in Seq(Byte)
          /\ Behind(wire, n) \in Seq(Byte)
      BY <1>1, <1>4, Zenon
    <3> QED BY <3>1, Regrouped, Zenon
  <2>2. SubSeq(wire, 1, n) \o Behind(wire, n) = wire
    BY <1>1, <1>3, BothParts, Zenon
  <2> QED BY <2>1, <2>2, <1>2 DEF Coming
<1> QED BY <1>2, <1>6, <1>7, <1>8 DEF StreamInv

LEMMA ReturnWithoutHeaderInv ==
  ASSUME StreamInv, ReturnWithoutHeader PROVE StreamInv'
<1>1. /\ sent \in Seq(Packet) /\ Len(sent) <= MaxSent
      /\ wire \in Seq(Byte) /\ input \in Seq(Byte)
      /\ size \in {0} \cup {Size[x] : x \in Packet}
      /\ handled \in Seq(Packet)
  BY Types DEF StreamInv
<1>2. /\ reading' = FALSE /\ sent' = sent /\ wire' = wire /\ input' = input
      /\ size' = size /\ handled' = handled
  BY DEF ReturnWithoutHeader
<1>3. StreamTypeOK'
  BY <1>1, <1>2, TypesNext
<1>4. NothingLeftBehind'
  <2>1. size = 0 => ~(Len(input) >= HeaderSize)
    BY DEF ReturnWithoutHeader, HasHeader
  <2>2. Len(input) \in Nat
    BY <1>1
  <2> QED BY <2>1, <2>2, <1>2, SizeFacts DEF NothingLeftBehind
<1> QED BY <1>2, <1>3, <1>4 DEF StreamInv, Coming

(* Where a header is looked for, there is one: that of the next packet.    *)
LEMMA Header ==
  ASSUME StreamInv, HasHeader
  PROVE  /\ size = 0 /\ Ordered(Coming, sent, Len(handled))
         /\ Coming \in Seq(Byte) /\ Coming # << >>
         /\ Len(Coming) = Len(input) + Len(wire)
         /\ \A i \in 1 .. Len(input) : Coming[i] = input[i]
         /\ \A i \in Nat : i > Len(input) /\ i <= Len(Coming) =>
              Coming[i] = wire[i - Len(input)]
         /\ Len(input) \in Nat /\ Len(input) >= HeaderSize /\ Len(input) >= 1
         /\ SizeIn(input) = Size[Coming[1].packet]
         /\ SizeIn(input) \in Nat /\ SizeIn(input) > HeaderSize
         /\ Len(handled) + 1 \in 1 .. Len(sent)
         /\ SizeIn(input) = Size[sent[Len(handled) + 1]]
         /\ \A i \in 1 .. SizeIn(input) :
              Coming[i] = [packet |-> sent[Len(handled) + 1],
                           nr |-> Len(handled) + 1, at |-> i]
<1>1. /\ sent \in Seq(Packet) /\ wire \in Seq(Byte) /\ input \in Seq(Byte)
      /\ Coming \in Seq(Byte) /\ Len(handled) \in Nat
  BY Types, Zenon DEF StreamInv
<1>2. size = 0 /\ Len(input) >= HeaderSize
  BY Zenon DEF HasHeader
<1>3. Ordered(Coming, sent, Len(handled))
  BY <1>2, Zenon DEF StreamInv
<1>4. Len(input) \in Nat /\ Len(wire) \in Nat
  BY <1>1
<1>5. Len(input) >= 1
  BY <1>2, <1>4, SizeFacts
<1>6. /\ Len(Coming) = Len(input) + Len(wire)
      /\ \A i \in 1 .. Len(input) + Len(wire) : Coming[i] =
           IF i <= Len(input) THEN input[i] ELSE wire[i - Len(input)]
  BY <1>1, ConcatProperties, Zenon DEF Coming
<1> DEFINE li == Len(input)
           lw == Len(wire)
<1>7. li \in Nat /\ lw \in Nat /\ li >= 1
  BY <1>4, <1>5
<1> HIDE DEF li, lw
<1>8. /\ \A i \in 1 .. li : i \in 1 .. li + lw /\ i <= li
      /\ \A i \in Nat : i > li /\ i <= li + lw => i \in 1 .. li + lw /\ ~(i <= li)
      /\ 1 \in 1 .. li
  BY <1>7
<1>9. \A i \in 1 .. Len(input) : Coming[i] = input[i]
  BY <1>6, <1>8, Zenon DEF li, lw
<1>10. \A i \in Nat : i > Len(input) /\ i <= Len(Coming) =>
         Coming[i] = wire[i - Len(input)]
  BY <1>6, <1>8, Zenon DEF li, lw
<1>11. Coming[1] = input[1]
  BY <1>8, <1>9, Zenon DEF li
<1>12. SizeIn(input) = Size[Coming[1].packet]
  BY <1>11, Zenon DEF SizeIn
<1>13. Coming # << >>
  <2>1. Len(Coming) >= 1
    BY <1>4, <1>5, <1>6
  <2> QED BY <2>1
<1>14. /\ Size[Coming[1].packet] \in Nat /\ Size[Coming[1].packet] > HeaderSize
       /\ Len(handled) + 1 \in 1 .. Len(sent)
       /\ Coming[1].packet = sent[Len(handled) + 1]
       /\ \A i \in 1 .. Size[Coming[1].packet] :
            Coming[i] = [packet |-> sent[Len(handled) + 1],
                         nr |-> Len(handled) + 1, at |-> i]
  BY <1>1, <1>3, <1>13, FirstIsWhole, Zenon
<1>15. SizeIn(input) = Size[sent[Len(handled) + 1]]
  BY <1>12, <1>14, Zenon
<1>16. /\ SizeIn(input) \in Nat /\ SizeIn(input) > HeaderSize
       /\ \A i \in 1 .. SizeIn(input) :
            Coming[i] = [packet |-> sent[Len(handled) + 1],
                         nr |-> Len(handled) + 1, at |-> i]
  BY <1>12, <1>14, Zenon
<1> QED BY <1>1, <1>2, <1>3, <1>4, <1>5, <1>6, <1>9, <1>10, <1>12, <1>13,
           <1>14, <1>15, <1>16, Zenon

LEMMA ReturnWithoutBodyInv ==
  ASSUME StreamInv, ReturnWithoutBody PROVE StreamInv'
<1>1. /\ sent \in Seq(Packet) /\ Len(sent) <= MaxSent
      /\ wire \in Seq(Byte) /\ input \in Seq(Byte) /\ handled \in Seq(Packet)
  BY Types, Zenon DEF StreamInv
<1>2. /\ HasHeader /\ size' = SizeIn(input) /\ input' = Behind(input, HeaderSize)
      /\ reading' = FALSE /\ sent' = sent /\ wire' = wire /\ handled' = handled
  BY DEF ReturnWithoutBody
<1>3. /\ HeaderSize \in Nat /\ Len(input) \in Nat /\ Len(input) >= HeaderSize
      /\ Len(handled) + 1 \in 1 .. Len(sent)
      /\ SizeIn(input) = Size[sent[Len(handled) + 1]]
  BY <1>2, Header, SizeFacts, Zenon
<1>4. HeaderSize <= Len(input)
  BY <1>3
<1>5. input' \in Seq(Byte)
  BY <1>1, <1>2, <1>3, <1>4, SecondPart, Zenon
<1>6. sent[Len(handled) + 1] \in Packet
  BY <1>1, <1>3
<1>7. size' \in {0} \cup {Size[p] : p \in Packet} /\ size' # 0
  BY <1>2, <1>3, <1>6, SizeFacts
<1>8. StreamTypeOK'
  BY <1>1, <1>2, <1>5, <1>7, TypesNext
<1> QED BY <1>7, <1>8 DEF StreamInv, NothingLeftBehind

LEMMA BehindBehind ==
  ASSUME NEW S, NEW a \in Seq(S), NEW n \in Nat, NEW z \in Nat,
         n <= z, z <= Len(a)
  PROVE  Behind(Behind(a, n), z - n) = Behind(a, z)
<1> DEFINE x == Behind(a, n)
           y == Behind(x, z - n)
           w == Behind(a, z)
           l == Len(a)
<1>1. l \in Nat /\ n <= l /\ z <= l /\ z - n \in Nat /\ z - n <= l - n
  OBVIOUS
<1>2. x \in Seq(S) /\ Len(x) = l - n /\ \A i \in 1 .. l - n : x[i] = a[n + i]
  BY <1>1, SecondPart, Zenon
<1>3. w \in Seq(S) /\ Len(w) = l - z /\ \A i \in 1 .. l - z : w[i] = a[z + i]
  BY <1>1, SecondPart, Zenon
<1> HIDE DEF x
<1>a. z - n <= Len(x)
  BY <1>1, <1>2
<1>4. /\ y \in Seq(S) /\ Len(y) = Len(x) - (z - n)
      /\ \A i \in 1 .. Len(x) - (z - n) : y[i] = x[(z - n) + i]
  <2> DEFINE k == z - n
  <2>1. k \in Nat /\ k <= Len(x)
    BY <1>1, <1>a
  <2>2. x \in Seq(S)
    BY <1>2, Zenon
  <2> HIDE DEF k
  <2>3. /\ Behind(x, k) \in Seq(S) /\ Len(Behind(x, k)) = Len(x) - k
        /\ \A i \in 1 .. Len(x) - k : Behind(x, k)[i] = x[k + i]
    BY <2>1, <2>2, SecondPart, Zenon
  <2> QED BY <2>3, Zenon DEF k
<1> HIDE DEF l, y, w
<1>5. (l - n) - (z - n) = l - z
  BY <1>1
<1>6. \A i \in 1 .. l - z : (z - n) + i \in 1 .. l - n /\ n + ((z - n) + i) = z + i
  BY <1>1
<1>7. Len(y) = l - z /\ \A i \in 1 .. l - z : y[i] = x[(z - n) + i]
  BY <1>2, <1>4, <1>5, Zenon
<1>8. \A i \in 1 .. l - z : y[i] = w[i]
  BY <1>2, <1>3, <1>6, <1>7, Zenon
<1>9. Len(y) = Len(w) /\ \A i \in 1 .. Len(y) : y[i] = w[i]
  BY <1>3, <1>7, <1>8, Zenon
<1> QED BY <1>3, <1>4, <1>9, SameBytes, Zenon DEF x, y, w

(* One iteration takes the next packet, whole, and hands it over.          *)
LEMMA IterateTakes ==
  ASSUME StreamInv, Iterate
  PROVE  /\ Len(handled) + 1 \in 1 .. Len(sent)
         /\ handled' = Append(handled, sent[Len(handled) + 1])
         /\ SizeIn(input) \in Nat /\ SizeIn(input) <= Len(input)
         /\ input' = Behind(input, SizeIn(input))
         /\ size' = 0 /\ reading' = TRUE /\ sent' = sent /\ wire' = wire
<1> DEFINE z == SizeIn(input)
           m == Len(handled)
           p == sent[m + 1]
           c == SubSeq(input, 1, z)
<1>1. /\ sent \in Seq(Packet) /\ Len(sent) <= MaxSent /\ input \in Seq(Byte)
      /\ handled \in Seq(Packet) /\ m \in Nat
  BY Types, Zenon DEF StreamInv
<1>2. /\ HasHeader /\ HasBody(z, Behind(input, HeaderSize)) /\ reading
      /\ handled' = Append(handled, Parsed(c))
      /\ input' = Behind(Behind(input, HeaderSize), z - HeaderSize)
      /\ size' = 0 /\ sent' = sent /\ wire' = wire /\ reading' = reading
  BY DEF Iterate
<1>3. /\ Len(input) \in Nat /\ Len(input) >= HeaderSize
      /\ z \in Nat /\ z > HeaderSize /\ m + 1 \in 1 .. Len(sent)
      /\ z = Size[p]
      /\ \A i \in 1 .. Len(input) : Coming[i] = input[i]
      /\ \A i \in 1 .. z : Coming[i] = [packet |-> p, nr |-> m + 1, at |-> i]
  BY <1>2, Header, Zenon
<1>4. p \in Packet
  BY <1>1, <1>3
<1>5. m + 1 \in 1 .. MaxSent
  BY <1>1, <1>3, StreamAssumption
<1> HIDE DEF z, p
<1>6. HeaderSize \in Nat /\ HeaderSize <= Len(input) /\ HeaderSize <= z /\ z >= 1
  BY <1>3, SizeFacts
<1>7. z <= Len(input)
  <2>1. Len(Behind(input, HeaderSize)) = Len(input) - HeaderSize
    BY <1>1, <1>6, SecondPart, Zenon
  <2>2. Len(input) - HeaderSize >= z - HeaderSize
    BY <2>1, <1>2 DEF HasBody
  <2> QED BY <2>2, <1>3, <1>6
<1>8. c = Bytes(p, m + 1)
  <2> DEFINE b == Bytes(p, m + 1)
  <2>1. c \in Seq(Byte) /\ Len(c) = z /\ \A i \in 1 .. z : c[i] = input[i]
    BY <1>1, <1>3, <1>7, FirstPart, Zenon
  <2>2. /\ b \in Seq(Byte) /\ Len(b) = z
        /\ \A i \in 1 .. z : b[i] = [packet |-> p, nr |-> m + 1, at |-> i]
    BY <1>3, <1>4, <1>5, BytesFacts, Zenon
  <2>3. \A i \in 1 .. z : i \in 1 .. Len(input)
    BY <1>3, <1>7
  <2>4. \A i \in 1 .. z : c[i] = b[i]
    BY <2>1, <2>2, <2>3, <1>3, Zenon
  <2> HIDE DEF b, c
  <2>5. Len(c) = Len(b) /\ \A i \in 1 .. Len(c) : c[i] = b[i]
    BY <2>1, <2>2, <2>4, Zenon
  <2> QED BY <2>1, <2>2, <2>5, SameBytes, Zenon DEF b
<1>9. c[1].packet = p /\ c[1].nr = m + 1
  <2>1. Bytes(p, m + 1)[1] = [packet |-> p, nr |-> m + 1, at |-> 1]
    <3>1. 1 \in 1 .. Size[p]
      BY <1>3, <1>6
    <3>2. \A i \in 1 .. Size[p] :
            Bytes(p, m + 1)[i] = [packet |-> p, nr |-> m + 1, at |-> i]
      BY <1>4, <1>5, BytesFacts, Zenon
    <3> QED BY <3>1, <3>2, Zenon
  <2> HIDE DEF c
  <2> QED BY <2>1, <1>8
<1>10. Parsed(c) = p
  <2> HIDE DEF c
  <2> QED BY <1>8, <1>9, Zenon DEF Parsed
<1>11. input' = Behind(input, z)
  BY <1>1, <1>2, <1>3, <1>6, <1>7, BehindBehind, Zenon
<1> QED BY <1>2, <1>3, <1>7, <1>10, <1>11, Zenon DEF z, p

LEMMA IterateInv == ASSUME StreamInv, Iterate PROVE StreamInv'
<1> DEFINE z == SizeIn(input)
           m == Len(handled)
           p == sent[m + 1]
<1>1. /\ sent \in Seq(Packet) /\ Len(sent) <= MaxSent /\ wire \in Seq(Byte)
      /\ input \in Seq(Byte) /\ handled \in Seq(Packet) /\ m \in Nat
  BY Types, Zenon DEF StreamInv
<1>2. /\ m + 1 \in 1 .. Len(sent) /\ handled' = Append(handled, p)
      /\ z \in Nat /\ z <= Len(input) /\ input' = Behind(input, z)
      /\ size' = 0 /\ reading' = TRUE /\ sent' = sent /\ wire' = wire
  BY IterateTakes, Zenon
<1>3. HasHeader
  BY DEF Iterate
<1>4. /\ Ordered(Coming, sent, m) /\ Coming \in Seq(Byte) /\ Coming # << >>
      /\ Len(Coming) = Len(input) + Len(wire)
      /\ \A i \in 1 .. Len(input) : Coming[i] = input[i]
      /\ \A i \in Nat : i > Len(input) /\ i <= Len(Coming) =>
           Coming[i] = wire[i - Len(input)]
      /\ z = Size[Coming[1].packet]
  BY <1>3, Header, Zenon
<1>5. p \in Packet
  BY <1>1, <1>2
<1> HIDE DEF z, p
<1>6. handled' \in Seq(Packet) /\ Len(handled') = m + 1
  BY <1>1, <1>2, <1>5
<1>7. /\ input' \in Seq(Byte) /\ Len(input') = Len(input) - z
      /\ \A i \in 1 .. Len(input) - z : input'[i] = input[z + i]
  BY <1>1, <1>2, SecondPart, Zenon
<1>8. StreamTypeOK'
  BY <1>1, <1>2, <1>6, <1>7, TypesNext
<1>9. NothingLeftBehind'
  BY <1>2 DEF NothingLeftBehind
<1> DEFINE r == input' \o wire
           li == Len(input)
           lw == Len(wire)
<1>10. /\ r \in Seq(Byte) /\ Len(r) = (li - z) + lw
       /\ \A i \in 1 .. (li - z) + lw : r[i] =
            IF i <= li - z THEN input'[i] ELSE wire[i - (li - z)]
  <2>1. /\ r \in Seq(Byte) /\ Len(r) = Len(input') + lw
        /\ \A i \in 1 .. Len(input') + lw : r[i] =
             IF i <= Len(input') THEN input'[i] ELSE wire[i - Len(input')]
    BY <1>1, <1>7, ConcatProperties, Zenon
  <2> QED BY <2>1, <1>7, Zenon
<1>11. li \in Nat /\ lw \in Nat /\ z \in Nat /\ z <= li
  BY <1>1, <1>2
<1> HIDE DEF r, li, lw
<1>12. (li - z) + lw = (li + lw) - z
  BY <1>11
<1>13. /\ \A i \in 1 .. (li - z) + lw : i <= li - z =>
            i \in 1 .. li - z /\ z + i \in 1 .. li
       /\ \A i \in 1 .. (li - z) + lw : ~(i <= li - z) =>
            /\ z + i \in Nat /\ z + i > li /\ z + i <= li + lw
            /\ i - (li - z) = (z + i) - li
  BY <1>11
<1>14. \A i \in 1 .. (li - z) + lw : r[i] = Coming[z + i]
  <2> TAKE i \in 1 .. (li - z) + lw
  <2>1. CASE i <= li - z
    BY <2>1, <1>4, <1>7, <1>10, <1>13, Zenon DEF li
  <2>2. CASE ~(i <= li - z)
    <3>1. r[i] = wire[i - (li - z)]
      BY <2>2, <1>10, Zenon
    <3>2. Coming[z + i] = wire[(z + i) - li]
      BY <2>2, <1>4, <1>13, Zenon DEF li, lw
    <3> QED BY <3>1, <3>2, <2>2, <1>13, Zenon
  <2> QED BY <2>1, <2>2, Zenon
<1>15. Len(r) = Len(Coming) - z /\ \A i \in 1 .. Len(r) : r[i] = Coming[z + i]
  BY <1>4, <1>10, <1>12, <1>14, Zenon DEF li, lw
<1>16. Ordered(r, sent, m + 1)
  BY <1>1, <1>4, <1>10, <1>11, <1>15, TakeKeepsOrder, Zenon
<1>17. Ordered(Coming, sent, Len(handled))'
  <2>1. Coming' = r
    BY <1>2, Zenon DEF Coming, r
  <2> QED BY <2>1, <1>2, <1>6, <1>16, Zenon
<1> QED BY <1>8, <1>9, <1>17, Zenon DEF StreamInv

LEMMA NextInv == StreamInv /\ [Next]_vars => StreamInv'
<1> SUFFICES ASSUME StreamInv, [Next]_vars PROVE StreamInv'
  OBVIOUS
<1>1. CASE \E p \in Packet : Send(p)
  BY <1>1, SendInv, Zenon
<1>2. CASE \E n \in 1 .. Len(wire) : Arrive(n)
  BY <1>2, ArriveInv, Zenon
<1>3. CASE Iterate
  BY <1>3, IterateInv, Zenon
<1>4. CASE ReturnWithoutBody
  BY <1>4, ReturnWithoutBodyInv, Zenon
<1>5. CASE ReturnWithoutHeader
  BY <1>5, ReturnWithoutHeaderInv, Zenon
<1>6. CASE UNCHANGED vars
  BY <1>6 DEF vars, StreamInv, StreamTypeOK, NothingLeftBehind, Coming
<1> QED BY <1>1, <1>2, <1>3, <1>4, <1>5, <1>6 DEF Next

LEMMA AlwaysStreamInv == Spec => []StreamInv
<1> QED BY InitOrdered, NextInv, PTL DEF Spec

-----------------------------------------------------------------------------
(* The theorems.                                                           *)

(* Type correctness: in particular, only packets are handed to the         *)
(* handlers, never bytes of two of them taken for one (packet_read in      *)
(* dectmngr.c never looks for a header in the wrong place).                *)
THEOREM StreamTypeCorrect == Spec => []StreamTypeOK
<1>1. StreamInv => StreamTypeOK
  BY DEF StreamInv
<1> QED BY <1>1, AlwaysStreamInv, PTL

(* When packet_read returns and is not inside a packet, less than a header *)
(* is left in the buffer: its loop does not stop while a packet is there.  *)
THEOREM BufferIsEmptied == Spec => []NothingLeftBehind
<1>1. StreamInv => NothingLeftBehind
  BY DEF StreamInv
<1> QED BY <1>1, AlwaysStreamInv, PTL

(* However TCP and libevent cut the bytes, packets reach the handlers in   *)
(* the order sent, each once and whole: packet_read implements the channel.*)
THEOREM StreamIsChannel == Spec => ImplementsChannel
<1>1. Init => Channel!Init
  BY DEF Init, Channel!Init
<1>2. StreamInv /\ [Next]_vars
        => [Channel!Send \/ Channel!Handle]_<<sent, handled>>
  <2> SUFFICES ASSUME StreamInv, [Next]_vars
               PROVE  [Channel!Send \/ Channel!Handle]_<<sent, handled>>
    OBVIOUS
  <2>1. CASE \E p \in Packet : Send(p)
    BY <2>1 DEF Send, Channel!Send
  <2>2. CASE \E n \in 1 .. Len(wire) : Arrive(n)
    BY <2>2 DEF Arrive
  <2>3. CASE Iterate
    <3>1. /\ Len(handled) + 1 \in 1 .. Len(sent) /\ sent' = sent
          /\ handled' = Append(handled, sent[Len(handled) + 1])
      BY <2>3, IterateTakes, Zenon
    <3>2. Len(handled) \in Nat /\ sent \in Seq(Packet)
      BY Types, Zenon DEF StreamInv
    <3>3. Len(handled) < Len(sent)
      BY <3>1, <3>2
    <3> QED BY <3>1, <3>3 DEF Channel!Handle
  <2>4. CASE ReturnWithoutBody
    BY <2>4 DEF ReturnWithoutBody
  <2>5. CASE ReturnWithoutHeader
    BY <2>5 DEF ReturnWithoutHeader
  <2>6. CASE UNCHANGED vars
    BY <2>6 DEF vars
  <2> QED BY <2>1, <2>2, <2>3, <2>4, <2>5, <2>6 DEF Next
<1> QED BY <1>1, <1>2, AlwaysStreamInv, PTL DEF Spec, ImplementsChannel, Channel!Spec
=============================================================================
