----------------------------- MODULE WireProofs -----------------------------
(***************************************************************************)
(* Theorems of Wire, for messages, answers and names of any length.        *)
(***************************************************************************)
EXTENDS Wire, SequenceTheorems, TLAPS

-----------------------------------------------------------------------------
(* Slices of concatenations. *)

LEMMA ConcatBytes ==
  ASSUME NEW s \in Seq(Byte), NEW t \in Seq(Byte)
  PROVE  /\ s \o t \in Seq(Byte) /\ Len(s \o t) = Len(s) + Len(t)
         /\ \A i \in 1 .. Len(s) : (s \o t)[i] = s[i]
         /\ \A i \in 1 .. Len(t) : (s \o t)[Len(s) + i] = t[i]
<1> DEFINE c == s \o t
<1>1. /\ c \in Seq(Byte) /\ Len(c) = Len(s) + Len(t)
      /\ \A i \in 1 .. Len(s) + Len(t) : c[i] = IF i <= Len(s) THEN s[i] ELSE t[i - Len(s)]
  BY ConcatProperties
<1> HIDE DEF c
<1>2. \A i \in 1 .. Len(s) : c[i] = s[i]
  BY <1>1
<1>3. \A i \in 1 .. Len(t) : c[Len(s) + i] = t[i]
  BY <1>1
<1> QED
  BY <1>1, <1>2, <1>3 DEF c

LEMMA SliceIs ==
  ASSUME NEW d \in Seq(Byte), NEW u \in Seq(Byte), NEW off \in Nat, NEW end \in Nat,
         end = off + Len(u), end <= Len(d), \A i \in 1 .. Len(u) : d[off + i] = u[i]
  PROVE  SubSeq(d, off + 1, end) = u
<1> DEFINE c == SubSeq(d, off + 1, end)
<1>1. /\ c \in Seq(Byte) /\ Len(c) = Len(u)
      /\ \A i \in 1 .. Len(u) : c[i] = d[off + i]
  <2>1. \A i \in off + 1 .. end : d[i] \in Byte
    OBVIOUS
  <2>2. /\ c \in Seq(Byte)
        /\ Len(c) = IF off + 1 <= end THEN end - (off + 1) + 1 ELSE 0
        /\ \A i \in 1 .. end - (off + 1) + 1 : c[i] = d[off + 1 + i - 1]
    BY <2>1, SubSeqProperties
  <2> HIDE DEF c
  <2> QED
    BY <2>2
<1> HIDE DEF c
<1>2. c = u
  BY <1>1, SeqEqual
<1> QED
  BY <1>2 DEF c

LEMMA Slice ==
  ASSUME NEW d \in Seq(Byte), NEW from \in Nat \ {0}, NEW to \in Nat, from <= to + 1, to <= Len(d)
  PROVE  /\ SubSeq(d, from, to) \in Seq(Byte) /\ Len(SubSeq(d, from, to)) = to - from + 1
         /\ \A i \in 1 .. to - from + 1 : SubSeq(d, from, to)[i] = d[from + i - 1]
<1>1. \A i \in from .. to : d[i] \in Byte
  OBVIOUS
<1>2. /\ SubSeq(d, from, to) \in Seq(Byte)
      /\ Len(SubSeq(d, from, to)) = IF from <= to THEN to - from + 1 ELSE 0
      /\ \A i \in 1 .. to - from + 1 : SubSeq(d, from, to)[i] = d[from + i - 1]
  BY <1>1, SubSeqProperties
<1> QED
  BY <1>2

\* The two halves of a concatenation.
LEMMA Halves ==
  ASSUME NEW s \in Seq(Byte), NEW t \in Seq(Byte)
  PROVE  SubSeq(s \o t, 1, Len(s)) = s /\ After(s \o t, Len(s)) = t
<1> DEFINE c == s \o t
<1>1. /\ c \in Seq(Byte) /\ Len(c) = Len(s) + Len(t)
      /\ \A i \in 1 .. Len(s) : c[i] = s[i]
      /\ \A i \in 1 .. Len(t) : c[Len(s) + i] = t[i]
  BY ConcatBytes
<1> HIDE DEF c
<1>2. SubSeq(c, 1, Len(s)) = s
  <2>1. SubSeq(c, 0 + 1, Len(s)) = s
    <3>1. \A i \in 1 .. Len(s) : c[0 + i] = s[i]
      BY <1>1
    <3> HIDE <1>1
    <3>2. Len(s) \in Nat /\ Len(s) = 0 + Len(s) /\ Len(s) <= Len(c) /\ c \in Seq(Byte)
      BY <1>1
    <3> QED
      BY <3>1, <3>2, SliceIs
  <2> QED
    BY <2>1
<1>3. After(c, Len(s)) = t
  <2>1. Len(s) \in Nat /\ Len(c) \in Nat /\ Len(c) = Len(s) + Len(t) /\ Len(c) <= Len(c)
    BY <1>1
  <2>2. SubSeq(c, Len(s) + 1, Len(c)) = t
    BY <1>1, <2>1, SliceIs
  <2> QED
    BY <2>2 DEF After
<1> QED
  BY <1>2, <1>3 DEF c

-----------------------------------------------------------------------------
(* The envelope. *)

LEMMA PutThenGet ==
  ASSUME NEW n \in Nat, n <= MaxUint32
  PROVE  /\ PutUint32(n) \in Seq(Byte) /\ Len(PutUint32(n)) = 4
         /\ Uint32(PutUint32(n)) = n
<1> DEFINE s == n \div 256
           t == s \div 256
           u == t \div 256
<1>1. s \in Nat /\ n % 256 \in 0 .. 255 /\ n = 256 * s + (n % 256)
  OBVIOUS
<1> HIDE DEF s
<1>2. t \in Nat /\ s % 256 \in 0 .. 255 /\ s = 256 * t + (s % 256)
  BY <1>1
<1> HIDE DEF t
<1>3. u \in Nat /\ t % 256 \in 0 .. 255 /\ t = 256 * u + (t % 256)
  BY <1>2
<1> HIDE DEF u
<1>4. u <= 255
  BY <1>1, <1>2, <1>3, SMT DEF MaxUint32
<1>6. u \in 0 .. 255 /\ u % 256 = u
  BY <1>3, <1>4
<1>5. PutUint32(n) = <<u % 256, t % 256, s % 256, n % 256>>
  BY DEF PutUint32, s, t, u
<1> QED
  BY <1>1, <1>2, <1>3, <1>6, <1>5 DEF Uint32, Byte

LEMMA GetThenPut ==
  ASSUME NEW s \in Seq(Byte), Len(s) = 4
  PROVE  PutUint32(Uint32(s)) = s /\ Uint32(s) <= MaxUint32
<1> DEFINE a == s[1]
           b == s[2]
           c == s[3]
           d == s[4]
           u == 256 * a + b
           t == 256 * u + c
           n == 256 * t + d
<1>0. /\ a \in 0 .. 255 /\ b \in 0 .. 255 /\ c \in 0 .. 255 /\ d \in 0 .. 255
      /\ s = <<a, b, c, d>> /\ Uint32(s) = n
  <2>0. \A i \in 1 .. Len(s) : s[i] \in Byte
    BY ElementOfSeq
  <2>1. a \in Byte /\ b \in Byte /\ c \in Byte /\ d \in Byte
    BY <2>0
  <2>2. s = <<a, b, c, d>>
    OBVIOUS
  <2>3. Uint32(s) = n
    BY DEF Uint32
  <2> QED
    BY <2>1, <2>2, <2>3 DEF Byte
<1> HIDE DEF a, b, c, d
<1>1. /\ u \in Nat /\ u <= 256 * 256 - 1
      /\ u \div 256 = a /\ u % 256 = b /\ a % 256 = a
  BY <1>0
<1> HIDE DEF u
<1>2. t \in Nat /\ t <= 256 * u + 255 /\ t \div 256 = u /\ t % 256 = c
  BY <1>0, <1>1
<1> HIDE DEF t
<1>3. n \in Nat /\ n <= 256 * t + 255 /\ n \div 256 = t /\ n % 256 = d
  BY <1>0, <1>2
<1> HIDE DEF n
<1>4. PutUint32(n) = <<a, b, c, d>>
  BY <1>1, <1>2, <1>3 DEF PutUint32
<1>5. n <= MaxUint32
  BY <1>1, <1>2, <1>3, SMT DEF MaxUint32
<1> QED
  BY <1>0, <1>4, <1>5

LEMMA MarshalLayout ==
  ASSUME NEW env \in Envelope, Len(env.body) <= MaxUint32
  PROVE  /\ Marshal(env) \in Seq(Byte) /\ Len(Marshal(env)) = HeaderLen + Len(env.body)
         /\ Marshal(env)[1] = Version /\ Marshal(env)[2] = env.type
         /\ SubSeq(Marshal(env), 3, HeaderLen) = PutUint32(Len(env.body))
         /\ After(Marshal(env), HeaderLen) = env.body
<1> DEFINE h == <<Version, env.type>>
           l == PutUint32(Len(env.body))
<1>1. h \in Seq(Byte) /\ Len(h) = 2 /\ h[1] = Version /\ h[2] = env.type
  BY DEF Envelope, Byte, Version
<1>2. l \in Seq(Byte) /\ Len(l) = 4 /\ env.body \in Seq(Byte) /\ Len(env.body) \in Nat
  <2>1. env.body \in Seq(Byte) /\ Len(env.body) \in Nat
    BY DEF Envelope
  <2> QED
    BY <2>1, PutThenGet
<1>m. Marshal(env) = (h \o l) \o env.body
  BY DEF Marshal
<1> HIDE DEF h, l
<1> DEFINE hl == h \o l
<1>3. /\ hl \in Seq(Byte) /\ Len(hl) = 6 /\ \A i \in 1 .. 2 : hl[i] = h[i]
      /\ \A i \in 1 .. 4 : hl[2 + i] = l[i]
  <2>1. /\ hl \in Seq(Byte) /\ Len(hl) = Len(h) + Len(l)
        /\ \A i \in 1 .. Len(h) : hl[i] = h[i]
        /\ \A i \in 1 .. Len(l) : hl[Len(h) + i] = l[i]
    BY <1>1, <1>2, ConcatBytes
  <2> HIDE DEF hl
  <2> QED
    BY <1>1, <1>2, <2>1
<1> HIDE DEF hl
<1> DEFINE d == hl \o env.body
<1>4. /\ d \in Seq(Byte) /\ Len(d) = 6 + Len(env.body) /\ \A i \in 1 .. 6 : d[i] = hl[i]
      /\ After(d, 6) = env.body
  <2>1. /\ d \in Seq(Byte) /\ Len(d) = Len(hl) + Len(env.body)
        /\ \A i \in 1 .. Len(hl) : d[i] = hl[i]
    BY <1>2, <1>3, ConcatBytes
  <2>2. After(d, Len(hl)) = env.body
    BY <1>2, <1>3, Halves
  <2> HIDE DEF d
  <2> QED
    BY <1>3, <2>1, <2>2
<1> HIDE DEF d
<1>5. SubSeq(d, 3, 6) = l
  <2>1. \A i \in 1 .. 4 : d[2 + i] = l[i]
    BY <1>3, <1>4
  <2>2. SubSeq(d, 2 + 1, 6) = l
    BY <1>2, <1>4, <2>1, SliceIs
  <2> QED
    BY <2>2
<1>6. d[1] = Version /\ d[2] = env.type
  BY <1>1, <1>3, <1>4
<1>7. Marshal(env) = d
  BY <1>m DEF d, hl
<1> QED
  BY <1>4, <1>5, <1>6, <1>7 DEF l, HeaderLen

\* Unmarshal accepts what Marshal has written and returns the same envelope.
THEOREM EnvelopeRoundTrip ==
  ASSUME NEW env \in Envelope, Len(env.body) <= MaxUint32
  PROVE  IsEnvelope(Marshal(env)) /\ Unmarshal(Marshal(env)) = env
<1>0. Len(env.body) \in Nat
  BY DEF Envelope
<1>1. Uint32(PutUint32(Len(env.body))) = Len(env.body)
  BY <1>0, PutThenGet
<1> DEFINE m == Marshal(env)
<1>2. IsEnvelope(m)
  <2>1. /\ Len(m) = 6 + Len(env.body) /\ m[1] = Version
        /\ SubSeq(m, 3, 6) = PutUint32(Len(env.body))
    BY MarshalLayout DEF HeaderLen
  <2> HIDE DEF m
  <2>2. Uint32(SubSeq(m, 3, 6)) = Len(env.body)
    BY <1>1, <2>1
  <2>3. Len(m) - 6 = Len(env.body) /\ Len(m) >= 6
    BY <1>0, <2>1
  <2> QED
    BY <2>1, <2>2, <2>3 DEF IsEnvelope, HeaderLen
<1>3. Unmarshal(Marshal(env)) = env
  BY MarshalLayout DEF Unmarshal, Envelope
<1> QED
  BY <1>2, <1>3

\* Unmarshal accepts nothing else: what it decodes is, byte for byte, what
\* Marshal writes, so that a datagram cut short or with a tail is refused.
THEOREM EnvelopeIsWhole ==
  ASSUME NEW data \in Seq(Byte), IsEnvelope(data)
  PROVE  Unmarshal(data) \in Envelope /\ Marshal(Unmarshal(data)) = data
<1> DEFINE body == After(data, HeaderLen)
           l == SubSeq(data, 3, HeaderLen)
<1>1. Len(data) \in Nat /\ Len(data) >= 6 /\ data[1] = Version /\ data[2] \in Byte
  BY DEF IsEnvelope, HeaderLen
<1>2. /\ body \in Seq(Byte) /\ Len(body) = Len(data) - 6
      /\ \A i \in 1 .. Len(data) - 6 : body[i] = data[6 + i]
  <2>0. 7 \in Nat \ {0} /\ 7 <= Len(data) + 1 /\ Len(data) <= Len(data)
    BY <1>1
  <2>1. /\ SubSeq(data, 7, Len(data)) \in Seq(Byte)
        /\ Len(SubSeq(data, 7, Len(data))) = Len(data) - 7 + 1
        /\ \A i \in 1 .. Len(data) - 7 + 1 : SubSeq(data, 7, Len(data))[i] = data[7 + i - 1]
    BY <1>1, <2>0, Slice
  <2>2. body = SubSeq(data, 7, Len(data))
    BY DEF After, HeaderLen
  <2> HIDE DEF body
  <2> QED
    BY <1>1, <2>1, <2>2
<1>3. /\ l \in Seq(Byte) /\ Len(l) = 4 /\ \A i \in 1 .. 4 : l[i] = data[2 + i]
  <2>1. /\ SubSeq(data, 3, 6) \in Seq(Byte) /\ Len(SubSeq(data, 3, 6)) = 6 - 3 + 1
        /\ \A i \in 1 .. 6 - 3 + 1 : SubSeq(data, 3, 6)[i] = data[3 + i - 1]
    BY <1>1, Slice
  <2>2. l = SubSeq(data, 3, 6)
    BY DEF HeaderLen
  <2> HIDE DEF l
  <2> QED
    BY <1>1, <2>1, <2>2
<1>4. Len(data) - 6 = Uint32(l)
  BY DEF IsEnvelope, HeaderLen
<1>5. Unmarshal(data) = [type |-> data[2], body |-> body] /\ Unmarshal(data) \in Envelope
  BY <1>1, <1>2 DEF Unmarshal, Envelope
<1> HIDE DEF body, l
<1>6. PutUint32(Uint32(l)) = l /\ Uint32(l) <= MaxUint32
  BY <1>3, GetThenPut
<1> DEFINE m == Marshal(Unmarshal(data))
<1>7. /\ m \in Seq(Byte) /\ Len(m) = 6 + Len(body) /\ m[1] = Version /\ m[2] = data[2]
      /\ SubSeq(m, 3, 6) = l /\ After(m, 6) = body
  BY <1>2, <1>4, <1>5, <1>6, MarshalLayout DEF HeaderLen
<1> HIDE DEF m
<1>8. \A i \in 1 .. 4 : m[2 + i] = data[2 + i]
  <2>1. \A i \in 1 .. 6 - 3 + 1 : SubSeq(m, 3, 6)[i] = m[3 + i - 1]
    BY <1>1, <1>2, <1>7, Slice
  <2> QED
    BY <1>3, <1>7, <2>1
<1>9. \A i \in 1 .. Len(data) - 6 : m[6 + i] = data[6 + i]
  <2>1. \A i \in 1 .. Len(m) - 7 + 1 : SubSeq(m, 7, Len(m))[i] = m[7 + i - 1]
    BY <1>1, <1>2, <1>7, Slice
  <2>2. SubSeq(m, 7, Len(m)) = body
    BY <1>7 DEF After
  <2> QED
    BY <1>1, <1>2, <1>7, <2>1, <2>2
<1>10. \A i \in 1 .. Len(data) : m[i] = data[i]
  <2> SUFFICES ASSUME NEW i \in 1 .. Len(data) PROVE m[i] = data[i]
    OBVIOUS
  <2>1. CASE i \in 1 .. 2
    BY <1>1, <1>7, <2>1
  <2>2. CASE i \in 3 .. 6
    <3>1. i - 2 \in 1 .. 4 /\ i = 2 + (i - 2)
      BY <2>2
    <3> QED
      BY <1>8, <3>1
  <2>3. CASE i > 6
    <3>1. i - 6 \in 1 .. Len(data) - 6 /\ i = 6 + (i - 6)
      BY <1>1, <2>3
    <3> QED
      BY <1>9, <3>1
  <2> QED
    BY <1>1, <2>1, <2>2, <2>3
<1>11. m = data
  BY <1>1, <1>2, <1>7, <1>10, SeqEqual
<1> QED
  BY <1>5, <1>11 DEF m

-----------------------------------------------------------------------------
(* Signed messages. *)

LEMMA Addr4Bytes ==
  ASSUME NEW a \in Address
  PROVE  Addr4(a) \in Seq(Byte) /\ Len(Addr4(a)) = 4 /\ (Len(a) = 4 => Addr4(a) = a)
<1>1. a \in Seq(Byte)
  BY DEF Address, Bytes
<1>2. <<0, 0, 0, 0>> \in Seq(Byte) /\ Len(<<0, 0, 0, 0>>) = 4
  <2>1. 0 \in Byte
    BY DEF Byte
  <2> QED
    BY <2>1
<1> QED
  BY <1>1, <1>2 DEF Addr4, AddrLen

LEMMA SignBytesLayout ==
  ASSUME NEW m \in SignedMessage
  PROVE  /\ SignBytes(m) \in Seq(Byte) /\ Len(SignBytes(m)) = 9 + Len(m.payload)
         /\ SignBytes(m)[1] = m.type
         /\ \A i \in 1 .. 4 : SignBytes(m)[1 + i] = Addr4(m.src)[i]
         /\ \A i \in 1 .. 4 : SignBytes(m)[5 + i] = Addr4(m.dst)[i]
         /\ \A i \in 1 .. Len(m.payload) : SignBytes(m)[9 + i] = m.payload[i]
<1> DEFINE t == <<m.type>>
           src == Addr4(m.src)
           dst == Addr4(m.dst)
           p == m.payload
<1>1. t \in Seq(Byte) /\ Len(t) = 1 /\ t[1] = m.type /\ p \in Seq(Byte) /\ Len(p) \in Nat
  BY DEF SignedMessage
<1>2. src \in Seq(Byte) /\ Len(src) = 4 /\ dst \in Seq(Byte) /\ Len(dst) = 4
  BY Addr4Bytes DEF SignedMessage
<1>s. SignBytes(m) = ((t \o src) \o dst) \o p
  BY DEF SignBytes
<1> HIDE DEF t, src, dst, p
<1> DEFINE u == t \o src
<1>3. /\ u \in Seq(Byte) /\ Len(u) = Len(t) + Len(src)
      /\ \A i \in 1 .. Len(t) : u[i] = t[i]
      /\ \A i \in 1 .. Len(src) : u[Len(t) + i] = src[i]
  BY <1>1, <1>2, ConcatBytes
<1> HIDE DEF u
<1> DEFINE v == u \o dst
<1>4. /\ v \in Seq(Byte) /\ Len(v) = Len(u) + Len(dst)
      /\ \A i \in 1 .. Len(u) : v[i] = u[i]
      /\ \A i \in 1 .. Len(dst) : v[Len(u) + i] = dst[i]
  BY <1>2, <1>3, ConcatBytes
<1> HIDE DEF v
<1> DEFINE w == v \o p
<1>5. /\ w \in Seq(Byte) /\ Len(w) = Len(v) + Len(p)
      /\ \A i \in 1 .. Len(v) : w[i] = v[i]
      /\ \A i \in 1 .. Len(p) : w[Len(v) + i] = p[i]
  BY <1>1, <1>4, ConcatBytes
<1> HIDE DEF w
<1>6. Len(u) = 5 /\ Len(v) = 9 /\ Len(w) = 9 + Len(p)
  BY <1>1, <1>2, <1>3, <1>4, <1>5
<1>7. w[1] = m.type
  BY <1>1, <1>3, <1>4, <1>5, <1>6
<1>8. \A i \in 1 .. 4 : w[1 + i] = src[i]
  BY <1>1, <1>2, <1>3, <1>4, <1>5, <1>6
<1>9. \A i \in 1 .. 4 : w[5 + i] = dst[i]
  BY <1>2, <1>4, <1>5, <1>6
<1>10. \A i \in 1 .. Len(p) : w[9 + i] = p[i]
  BY <1>5, <1>6
<1>11. SignBytes(m) = w
  BY <1>s DEF u, v, w
<1> QED
  BY <1>5, <1>6, <1>7, <1>8, <1>9, <1>10, <1>11 DEF src, dst, p

\* ParseSigned returns the message and the signature that MarshalSigned put
\* together, when both addresses are IPv4: any other is written as zeros.
THEOREM SignedRoundTrip ==
  ASSUME NEW m \in SignedMessage, Len(m.src) = 4, Len(m.dst) = 4,
         NEW sig \in Bytes(SignatureSize)
  PROVE  /\ IsSigned(MarshalSigned(m, sig))
         /\ ParseSigned(MarshalSigned(m, sig)) = m
         /\ Signature(MarshalSigned(m, sig)) = sig
<1> DEFINE s == SignBytes(m)
           d == MarshalSigned(m, sig)
<1>1. /\ s \in Seq(Byte) /\ Len(s) = 9 + Len(m.payload) /\ s[1] = m.type
      /\ \A i \in 1 .. 4 : s[1 + i] = m.src[i]
      /\ \A i \in 1 .. 4 : s[5 + i] = m.dst[i]
      /\ \A i \in 1 .. Len(m.payload) : s[9 + i] = m.payload[i]
  BY SignBytesLayout, Addr4Bytes DEF SignedMessage
<1>2. /\ sig \in Seq(Byte) /\ Len(sig) = 64 /\ m.payload \in Seq(Byte) /\ Len(m.payload) \in Nat
      /\ m.src \in Seq(Byte) /\ m.dst \in Seq(Byte)
  BY DEF Bytes, SignatureSize, SignedMessage, Address
<1>d. d = s \o sig
  BY DEF MarshalSigned
<1> HIDE DEF s
<1> HIDE DEF d
<1>3. /\ d \in Seq(Byte) /\ Len(d) = Len(s) + 64 /\ \A i \in 1 .. Len(s) : d[i] = s[i]
  <2>1. /\ s \o sig \in Seq(Byte) /\ Len(s \o sig) = Len(s) + Len(sig)
        /\ \A i \in 1 .. Len(s) : (s \o sig)[i] = s[i]
    BY <1>1, <1>2, ConcatBytes
  <2> QED
    BY <1>2, <1>d, <2>1
<1>4. After(d, Len(s)) = sig
  BY <1>1, <1>2, <1>d, Halves
<1>5. Len(d) - 64 = Len(s) /\ Len(s) \in Nat /\ Len(d) = 73 + Len(m.payload)
  BY <1>1, <1>2, <1>3
<1>6. Signature(d) = sig
  BY <1>4, <1>5 DEF Signature, SignatureSize
<1>7. d[1] = m.type
  BY <1>1, <1>2, <1>3
<1>8. SubSeq(d, 2, 5) = m.src
  <2>0. \A i \in 1 .. 4 : 1 + i \in 1 .. Len(s)
    BY <1>1, <1>2
  <2>1. \A i \in 1 .. Len(m.src) : d[1 + i] = m.src[i]
    BY <1>1, <1>3, <2>0
  <2>2. SubSeq(d, 1 + 1, 5) = m.src
    BY <1>2, <1>3, <1>5, <2>1, SliceIs
  <2> QED
    BY <2>2
<1>9. SubSeq(d, 6, 9) = m.dst
  <2>0. \A i \in 1 .. 4 : 5 + i \in 1 .. Len(s)
    BY <1>1, <1>2
  <2>1. \A i \in 1 .. Len(m.dst) : d[5 + i] = m.dst[i]
    BY <1>1, <1>3, <2>0
  <2>2. SubSeq(d, 5 + 1, 9) = m.dst
    BY <1>2, <1>3, <1>5, <2>1, SliceIs
  <2> QED
    BY <2>2
<1>10. SubSeq(d, 10, Len(d) - 64) = m.payload
  <2>1. \A i \in 1 .. Len(m.payload) : d[9 + i] = m.payload[i]
    BY <1>1, <1>2, <1>3
  <2>2. Len(s) = 9 + Len(m.payload) /\ Len(s) <= Len(d) /\ 9 \in Nat
    BY <1>1, <1>2, <1>3
  <2>3. SubSeq(d, 9 + 1, Len(s)) = m.payload
    BY <1>2, <1>3, <1>5, <2>1, <2>2, SliceIs
  <2> QED
    BY <1>5, <2>3
<1>11. m = [type |-> m.type, src |-> m.src, dst |-> m.dst, payload |-> m.payload]
  BY DEF SignedMessage
<1>12. ParseSigned(d) = m
  BY <1>7, <1>8, <1>9, <1>10, <1>11 DEF ParseSigned, SignOffset, AddrLen, SignatureSize
<1>13. IsSigned(d)
  BY <1>2, <1>5 DEF IsSigned, SignOffset, AddrLen, SignatureSize
<1> QED
  BY <1>6, <1>12, <1>13 DEF d

\* "The signature covers type, addresses and payload": VerifySigned, which
\* puts the parsed message together again, looks at the very bytes that came
\* before the signature, and no byte of a datagram is left out.
THEOREM SignatureCoversWhatCame ==
  ASSUME NEW data \in Seq(Byte), IsSigned(data)
  PROVE  /\ ParseSigned(data) \in SignedMessage
         /\ MarshalSigned(ParseSigned(data), Signature(data)) = data
<1> DEFINE end == Len(data) - 64
           src == SubSeq(data, 2, 5)
           dst == SubSeq(data, 6, 9)
           p == SubSeq(data, 10, end)
           sig == SubSeq(data, end + 1, Len(data))
           m == ParseSigned(data)
<1>1. Len(data) \in Nat /\ Len(data) >= 73 /\ data[1] \in Byte
  BY DEF IsSigned, SignOffset, AddrLen, SignatureSize
<1>e. end \in Nat /\ end >= 9 /\ Len(data) = end + 64
  BY <1>1
<1>m. /\ m = [type |-> data[1], src |-> src, dst |-> dst, payload |-> p]
      /\ Signature(data) = sig
  BY DEF ParseSigned, Signature, After, SignOffset, AddrLen, SignatureSize
<1> HIDE DEF end, m
<1>2. src \in Seq(Byte) /\ Len(src) = 4 /\ \A i \in 1 .. 4 : src[i] = data[2 + i - 1]
  <2>1. /\ src \in Seq(Byte) /\ Len(src) = 5 - 2 + 1
        /\ \A i \in 1 .. 5 - 2 + 1 : src[i] = data[2 + i - 1]
    BY <1>1, Slice
  <2> HIDE DEF src
  <2> QED
    BY <2>1
<1> HIDE DEF src
<1>3. dst \in Seq(Byte) /\ Len(dst) = 4 /\ \A i \in 1 .. 4 : dst[i] = data[6 + i - 1]
  <2>1. /\ dst \in Seq(Byte) /\ Len(dst) = 9 - 6 + 1
        /\ \A i \in 1 .. 9 - 6 + 1 : dst[i] = data[6 + i - 1]
    BY <1>1, Slice
  <2> HIDE DEF dst
  <2> QED
    BY <2>1
<1> HIDE DEF dst
<1>4. p \in Seq(Byte) /\ Len(p) = end - 9 /\ \A i \in 1 .. end - 9 : p[i] = data[10 + i - 1]
  <2>0. 10 \in Nat \ {0} /\ 10 <= end + 1 /\ end <= Len(data)
    BY <1>e
  <2>1. /\ p \in Seq(Byte) /\ Len(p) = end - 10 + 1
        /\ \A i \in 1 .. end - 10 + 1 : p[i] = data[10 + i - 1]
    BY <1>e, <2>0, Slice
  <2> HIDE DEF p
  <2> QED
    BY <1>e, <2>1
<1> HIDE DEF p
<1>5. /\ sig \in Seq(Byte) /\ Len(sig) = 64
      /\ \A i \in 1 .. 64 : sig[i] = data[end + 1 + i - 1]
  <2>0. end + 1 \in Nat \ {0} /\ end + 1 <= Len(data) + 1 /\ Len(data) <= Len(data)
    BY <1>e
  <2>1. /\ sig \in Seq(Byte) /\ Len(sig) = Len(data) - (end + 1) + 1
        /\ \A i \in 1 .. Len(data) - (end + 1) + 1 : sig[i] = data[end + 1 + i - 1]
    BY <1>1, <2>0, Slice
  <2>2. Len(data) - (end + 1) + 1 = 64
    BY <1>e
  <2> HIDE DEF sig
  <2> QED
    BY <2>1, <2>2
<1> HIDE DEF sig
<1>6. m \in SignedMessage /\ Addr4(m.src) = src /\ Addr4(m.dst) = dst
  <2>1. src \in Address /\ dst \in Address
    BY <1>2, <1>3 DEF Address, Bytes
  <2>2. m \in SignedMessage
    BY <1>1, <1>4, <1>m, <2>1 DEF SignedMessage
  <2> QED
    BY <1>2, <1>3, <1>m, <2>1, <2>2, Addr4Bytes
<1> DEFINE s == SignBytes(m)
<1>7. /\ s \in Seq(Byte) /\ Len(s) = 9 + Len(p) /\ s[1] = data[1]
      /\ \A i \in 1 .. 4 : s[1 + i] = src[i]
      /\ \A i \in 1 .. 4 : s[5 + i] = dst[i]
      /\ \A i \in 1 .. Len(p) : s[9 + i] = p[i]
  BY <1>6, <1>m, SignBytesLayout
<1> HIDE DEF s
<1>8. Len(s) = end /\ \A i \in 1 .. end : s[i] = data[i]
  <2>1. Len(s) = end
    BY <1>e, <1>4, <1>7
  <2> SUFFICES ASSUME NEW i \in 1 .. end PROVE s[i] = data[i]
    BY <2>1
  <2>2. CASE i = 1
    BY <1>7, <2>2
  <2>3. CASE i \in 2 .. 5
    <3>1. i - 1 \in 1 .. 4 /\ 1 + (i - 1) = i /\ 2 + (i - 1) - 1 = i
      BY <2>3
    <3>2. s[1 + (i - 1)] = src[i - 1] /\ src[i - 1] = data[2 + (i - 1) - 1]
      BY <1>2, <1>7, <3>1
    <3> QED
      BY <3>1, <3>2
  <2>4. CASE i \in 6 .. 9
    <3>1. i - 5 \in 1 .. 4 /\ 5 + (i - 5) = i /\ 6 + (i - 5) - 1 = i
      BY <2>4
    <3>2. s[5 + (i - 5)] = dst[i - 5] /\ dst[i - 5] = data[6 + (i - 5) - 1]
      BY <1>3, <1>7, <3>1
    <3> QED
      BY <3>1, <3>2
  <2>5. CASE i > 9
    <3>1. i - 9 \in 1 .. end - 9 /\ 9 + (i - 9) = i /\ 10 + (i - 9) - 1 = i
      BY <1>e, <2>5
    <3>2. s[9 + (i - 9)] = p[i - 9] /\ p[i - 9] = data[10 + (i - 9) - 1]
      BY <1>4, <1>7, <3>1
    <3> QED
      BY <3>1, <3>2
  <2> QED
    BY <1>e, <2>2, <2>3, <2>4, <2>5
<1> DEFINE d == s \o sig
<1>9. /\ d \in Seq(Byte) /\ Len(d) = Len(s) + Len(sig)
      /\ \A i \in 1 .. Len(s) : d[i] = s[i]
      /\ \A i \in 1 .. Len(sig) : d[Len(s) + i] = sig[i]
  BY <1>5, <1>7, ConcatBytes
<1> HIDE DEF d
<1>10. \A i \in 1 .. Len(data) : d[i] = data[i]
  <2> SUFFICES ASSUME NEW i \in 1 .. Len(data) PROVE d[i] = data[i]
    OBVIOUS
  <2>1. CASE i <= end
    BY <1>8, <1>9, <2>1
  <2>2. CASE i > end
    <3>1. i - end \in 1 .. 64 /\ end + (i - end) = i /\ end + 1 + (i - end) - 1 = i
      BY <1>e, <2>2
    <3>2. d[end + (i - end)] = sig[i - end] /\ sig[i - end] = data[end + 1 + (i - end) - 1]
      BY <1>5, <1>8, <1>9, <3>1
    <3> QED
      BY <3>1, <3>2
  <2> QED
    BY <1>e, <2>1, <2>2
<1>11. d = data
  <2>1. Len(d) = Len(data)
    BY <1>e, <1>5, <1>8, <1>9
  <2> QED
    BY <1>9, <1>10, <2>1, SeqEqual
<1>12. MarshalSigned(m, sig) = d
  BY DEF MarshalSigned, d, s
<1> QED
  BY <1>6, <1>11, <1>12, <1>m DEF m

\* A signature is for one message: two with the same signed bytes are equal.
THEOREM OneMessagePerSignature ==
  ASSUME NEW m \in SignedMessage, NEW o \in SignedMessage,
         Len(m.src) = 4, Len(m.dst) = 4, Len(o.src) = 4, Len(o.dst) = 4,
         SignBytes(m) = SignBytes(o)
  PROVE  m = o
<1> DEFINE sig == [i \in 1 .. 64 |-> 0]
<1>1. sig \in Bytes(SignatureSize)
  BY DEF Bytes, SignatureSize, Byte
<1>2. MarshalSigned(m, sig) = MarshalSigned(o, sig)
  BY DEF MarshalSigned
<1> HIDE DEF sig
<1> QED
  BY <1>1, <1>2, SignedRoundTrip

-----------------------------------------------------------------------------
(* Keys, answers and the join proof. *)

LEMMA EqualHalves ==
  ASSUME NEW s \in Seq(Byte), NEW t \in Seq(Byte), NEW x \in Seq(Byte), NEW y \in Seq(Byte),
         Len(s) = Len(t), s \o x = t \o y
  PROVE  s = t /\ x = y
<1>1. SubSeq(s \o x, 1, Len(s)) = s /\ After(s \o x, Len(s)) = x
  BY Halves
<1>2. SubSeq(t \o y, 1, Len(t)) = t /\ After(t \o y, Len(t)) = y
  BY Halves
<1> QED
  BY <1>1, <1>2

\* SplitPublic takes apart what PublicBlob has packed: the server gives out,
\* as a machine's two keys, those with which it has joined.
THEOREM SplitPublicBlob ==
  ASSUME NEW signPub \in Bytes(KeySize), NEW exchPub \in Bytes(KeySize)
  PROVE  /\ Len(PublicBlob(signPub, exchPub)) = PublicBlobSize
         /\ SplitPublic(PublicBlob(signPub, exchPub)) = <<signPub, exchPub>>
<1>1. signPub \in Seq(Byte) /\ exchPub \in Seq(Byte) /\ Len(signPub) = 32 /\ Len(exchPub) = 32
  BY DEF Bytes, KeySize
<1> DEFINE b == signPub \o exchPub
<1>2. Len(b) = Len(signPub) + Len(exchPub)
  BY <1>1, ConcatBytes
<1>3. SubSeq(b, 1, Len(signPub)) = signPub /\ After(b, Len(signPub)) = exchPub
  BY <1>1, Halves
<1> HIDE DEF b
<1>4. Len(b) = 64 /\ SubSeq(b, 1, 32) = signPub /\ After(b, 32) = exchPub
  BY <1>1, <1>2, <1>3
<1>5. PublicBlob(signPub, exchPub) = b
  BY DEF PublicBlob, b
<1> QED
  BY <1>4, <1>5 DEF SplitPublic, PublicBlobSize, KeySize

\* The answers that the server makes: it knows no machine, or both its keys
\* and perhaps an IPv4 endpoint.
MadeByServer(a) ==
  \/ a = NotFoundAnswer
  \/ /\ a.found
     /\ Len(a.signPub) = KeySize /\ Len(a.exchPub) = KeySize
     /\ IF a.hasAddr THEN Len(a.addr) = AddrLen ELSE a.addr = <<>> /\ a.port = 0

LEMMA PortBytes ==
  ASSUME NEW port \in Port
  PROVE  /\ port \div 256 \in Byte /\ port % 256 \in Byte
         /\ 256 * (port \div 256) + (port % 256) = port
<1>1. port \in Nat /\ port <= 65535
  BY DEF Port
<1> DEFINE h == port \div 256
<1>2. h \in Nat /\ port = 256 * h + (port % 256) /\ port % 256 \in 0 .. 255
  BY <1>1
<1> HIDE DEF h
<1>3. h <= 255
  BY <1>1, <1>2, SMT
<1> QED
  BY <1>2, <1>3 DEF h, Byte

LEMMA EndpointBytes ==
  ASSUME NEW a \in PeerAnswer, a.found, MadeByServer(a)
  PROVE  /\ Endpoint(a) \in Seq(Byte)
         /\ Len(Endpoint(a)) = IF a.hasAddr THEN 6 ELSE 0
         /\ a.hasAddr => /\ SubSeq(Endpoint(a), 1, 4) = a.addr
                         /\ 256 * Endpoint(a)[5] + Endpoint(a)[6] = a.port
<1>1. a.addr \in Address /\ a.addr \in Seq(Byte) /\ a.port \in Port
  BY DEF PeerAnswer, Address, Bytes
<1>2. CASE ~ a.hasAddr
  BY <1>2 DEF Endpoint
<1>3. CASE a.hasAddr
  <2> DEFINE port == <<a.port \div 256, a.port % 256>>
             e == a.addr \o port
  <2>1. port \in Seq(Byte) /\ Len(port) = 2 /\ 256 * port[1] + port[2] = a.port
    BY <1>1, PortBytes
  <2>2. Len(a.addr) = 4 /\ Addr4(a.addr) = a.addr
    BY <1>3, <1>1, Addr4Bytes DEF MadeByServer, NotFoundAnswer, AddrLen
  <2>3. Endpoint(a) = e
    BY <1>3, <2>2 DEF Endpoint
  <2> HIDE DEF port
  <2>4. /\ e \in Seq(Byte) /\ Len(e) = Len(a.addr) + Len(port)
        /\ \A i \in 1 .. Len(port) : e[Len(a.addr) + i] = port[i]
        /\ SubSeq(e, 1, Len(a.addr)) = a.addr
    <3>1. a.addr \in Seq(Byte) /\ port \in Seq(Byte)
      BY <1>1, <2>1
    <3>2. /\ e \in Seq(Byte) /\ Len(e) = Len(a.addr) + Len(port)
          /\ \A i \in 1 .. Len(port) : e[Len(a.addr) + i] = port[i]
      BY <3>1, ConcatBytes
    <3>3. SubSeq(e, 1, Len(a.addr)) = a.addr
      BY <3>1, Halves
    <3> QED
      BY <3>2, <3>3
  <2> HIDE DEF e
  <2>5. Len(e) = 6 /\ SubSeq(e, 1, 4) = a.addr
    BY <2>1, <2>2, <2>4
  <2>6. e[5] = port[1] /\ e[6] = port[2]
    <3>1. \A i \in 1 .. 2 : e[4 + i] = port[i]
      BY <2>1, <2>2, <2>4
    <3>2. e[4 + 1] = port[1] /\ e[4 + 2] = port[2]
      BY <3>1
    <3> QED
      BY <3>2
  <2> QED
    BY <1>3, <2>1, <2>3, <2>4, <2>5, <2>6
<1> QED
  BY <1>2, <1>3 DEF PeerAnswer

\* ParsePeerAnswer returns what the server put into its answer, permissions,
\* endpoint and keys, whether or not there is an endpoint before the keys.
THEOREM PeerAnswerRoundTrip ==
  ASSUME NEW a \in PeerAnswer, MadeByServer(a)
  PROVE  IsPeerAnswer(MarshalPeerAnswer(a)) /\ ParsePeerAnswer(MarshalPeerAnswer(a)) = a
<1>1. CASE ~ a.found
  <2>1. a = NotFoundAnswer
    BY <1>1 DEF MadeByServer
  <2>2. MarshalPeerAnswer(a) = <<0>>
    BY <1>1 DEF MarshalPeerAnswer
  <2>3. Len(<<0>>) = 1 /\ <<0>>[1] = 0
    OBVIOUS
  <2> QED
    BY <2>1, <2>2, <2>3 DEF IsPeerAnswer, ParsePeerAnswer
<1>2. CASE a.found
  <2> DEFINE f == <<1, BoolByte(a.hasAddr), BoolByte(a.canCall), BoolByte(a.canCallBack)>>
             e == Endpoint(a)
             n == IF a.hasAddr THEN 10 ELSE 4
             k == PublicBlob(a.signPub, a.exchPub)
  <2>1. /\ a.hasAddr \in BOOLEAN /\ a.canCall \in BOOLEAN /\ a.canCallBack \in BOOLEAN
        /\ a.signPub \in Bytes(KeySize) /\ a.exchPub \in Bytes(KeySize)
        /\ a = [found |-> TRUE, hasAddr |-> a.hasAddr, canCall |-> a.canCall,
                canCallBack |-> a.canCallBack, addr |-> a.addr, port |-> a.port,
                signPub |-> a.signPub, exchPub |-> a.exchPub]
        /\ ~ a.hasAddr => a.addr = <<>> /\ a.port = 0
    <3>1. /\ a.hasAddr \in BOOLEAN /\ a.canCall \in BOOLEAN /\ a.canCallBack \in BOOLEAN
          /\ a.signPub \in Seq(Byte) /\ a.exchPub \in Seq(Byte)
      BY DEF PeerAnswer
    <3>2. a # NotFoundAnswer
      BY <1>2 DEF NotFoundAnswer
    <3>3. /\ Len(a.signPub) = KeySize /\ Len(a.exchPub) = KeySize
          /\ ~ a.hasAddr => a.addr = <<>> /\ a.port = 0
      BY <3>2 DEF MadeByServer
    <3>4. a = [found |-> a.found, hasAddr |-> a.hasAddr, canCall |-> a.canCall,
               canCallBack |-> a.canCallBack, addr |-> a.addr, port |-> a.port,
               signPub |-> a.signPub, exchPub |-> a.exchPub]
      BY DEF PeerAnswer
    <3>5. a.found = TRUE
      BY <1>2 DEF PeerAnswer
    <3> QED
      BY <3>1, <3>3, <3>4, <3>5 DEF Bytes
  <2>2. /\ f \in Seq(Byte) /\ Len(f) = 4 /\ f[1] = 1
        /\ (f[2] = 1 <=> a.hasAddr) /\ (f[3] = 1 <=> a.canCall) /\ (f[4] = 1 <=> a.canCallBack)
    <3>1. 1 \in Byte /\ \A b \in BOOLEAN : BoolByte(b) \in Byte /\ (BoolByte(b) = 1 <=> b)
      BY DEF Byte, BoolByte
    <3> DEFINE x == BoolByte(a.hasAddr)
               y == BoolByte(a.canCall)
               z == BoolByte(a.canCallBack)
    <3>2. /\ x \in Byte /\ y \in Byte /\ z \in Byte
          /\ (x = 1 <=> a.hasAddr) /\ (y = 1 <=> a.canCall) /\ (z = 1 <=> a.canCallBack)
      BY <2>1, <3>1
    <3> HIDE DEF x, y, z
    <3>3. /\ <<1, x, y, z>> \in Seq(Byte) /\ Len(<<1, x, y, z>>) = 4
          /\ <<1, x, y, z>>[1] = 1 /\ <<1, x, y, z>>[2] = x
          /\ <<1, x, y, z>>[3] = y /\ <<1, x, y, z>>[4] = z
      BY <3>1, <3>2
    <3>4. f = <<1, x, y, z>>
      BY DEF x, y, z
    <3> HIDE DEF f
    <3> QED
      BY <3>2, <3>3, <3>4
  <2>3. /\ e \in Seq(Byte) /\ Len(e) = n - 4
        /\ a.hasAddr => SubSeq(e, 1, 4) = a.addr /\ 256 * e[5] + e[6] = a.port
    <3>1. /\ e \in Seq(Byte) /\ Len(e) = IF a.hasAddr THEN 6 ELSE 0
          /\ a.hasAddr => SubSeq(e, 1, 4) = a.addr /\ 256 * e[5] + e[6] = a.port
      BY <1>2, EndpointBytes
    <3> HIDE DEF e
    <3> QED
      BY <3>1
  <2>k. /\ a.signPub \in Seq(Byte) /\ Len(a.signPub) = 32
        /\ a.exchPub \in Seq(Byte) /\ Len(a.exchPub) = 32
    BY <2>1 DEF Bytes, KeySize
  <2>i. /\ k \in Seq(Byte) /\ Len(k) = Len(a.signPub) + Len(a.exchPub)
        /\ \A i \in 1 .. Len(a.signPub) : k[i] = a.signPub[i]
        /\ \A i \in 1 .. Len(a.exchPub) : k[Len(a.signPub) + i] = a.exchPub[i]
    BY <2>k, ConcatBytes DEF PublicBlob
  <2>4. k \in Seq(Byte) /\ Len(k) = 64
    BY <2>k, <2>i
  <2>5. n \in {4, 10}
    OBVIOUS
  <2>m. MarshalPeerAnswer(a) = (f \o e) \o k
    BY <1>2 DEF MarshalPeerAnswer, PublicBlob
  <2> HIDE DEF f, e, k, n
  <2> DEFINE h == f \o e
  <2>6. /\ h \in Seq(Byte) /\ Len(h) = Len(f) + Len(e)
        /\ \A i \in 1 .. Len(f) : h[i] = f[i]
        /\ \A i \in 1 .. Len(e) : h[Len(f) + i] = e[i]
    BY <2>2, <2>3, ConcatBytes
  <2> HIDE DEF h
  <2> DEFINE p == h \o k
  <2>7. /\ p \in Seq(Byte) /\ Len(p) = Len(h) + Len(k)
        /\ \A i \in 1 .. Len(h) : p[i] = h[i]
        /\ \A i \in 1 .. Len(k) : p[Len(h) + i] = k[i]
    <3>1. h \in Seq(Byte) /\ k \in Seq(Byte)
      BY <2>4, <2>6
    <3> QED
      BY <3>1, ConcatBytes
  <2> HIDE DEF p
  <2>8. Len(h) = n /\ Len(p) = n + 64
    BY <2>2, <2>3, <2>4, <2>5, <2>6, <2>7
  <2>9. \A i \in 1 .. 4 : p[i] = f[i]
    BY <2>2, <2>5, <2>6, <2>7, <2>8
  <2>10. p[1] = 1 /\ (p[2] = 1 <=> a.hasAddr) /\ (p[3] = 1 <=> a.canCall) /\ (p[4] = 1 <=> a.canCallBack)
    BY <2>2, <2>9
  <2>11. KeysOffset(p) = n
    BY <2>1, <2>10 DEF KeysOffset, n
  <2>12. IsPeerAnswer(p)
    BY <2>5, <2>8, <2>10, <2>11 DEF IsPeerAnswer, PublicBlobSize, KeySize
  <2>13. SubSeq(p, n + 1, n + 32) = a.signPub
    <3>1. n \in Nat /\ n + 32 = n + Len(a.signPub) /\ n + 32 <= Len(p) /\ n + 32 \in Nat
      BY <2>k, <2>5, <2>8
    <3>2. ASSUME NEW i \in 1 .. Len(a.signPub)
          PROVE  p[n + i] = a.signPub[i]
      <4>1. i \in 1 .. Len(k) /\ n + i = Len(h) + i
        BY <2>k, <2>4, <2>8
      <4>2. k[i] = a.signPub[i]
        BY <2>i
      <4> QED
        BY <2>7, <4>1, <4>2
    <3>3. p \in Seq(Byte)
      BY <2>7
    <3> QED
      BY <2>k, <3>1, <3>2, <3>3, SliceIs
  <2>14. After(p, n + 32) = a.exchPub
    <3>1. n + 32 \in Nat /\ Len(p) = (n + 32) + Len(a.exchPub) /\ Len(p) <= Len(p) /\ Len(p) \in Nat
      BY <2>k, <2>5, <2>8
    <3>2. ASSUME NEW i \in 1 .. Len(a.exchPub)
          PROVE  p[(n + 32) + i] = a.exchPub[i]
      <4>1. 32 + i \in 1 .. Len(k) /\ (n + 32) + i = Len(h) + (32 + i)
        BY <2>k, <2>4, <2>5, <2>8
      <4>2. k[32 + i] = a.exchPub[i]
        BY <2>k, <2>i
      <4>3. p[Len(h) + (32 + i)] = k[32 + i]
        BY <2>7, <4>1
      <4> QED
        BY <4>1, <4>2, <4>3
    <3>3. p \in Seq(Byte)
      BY <2>7
    <3>4. SubSeq(p, (n + 32) + 1, Len(p)) = a.exchPub
      BY <2>k, <3>1, <3>2, <3>3, SliceIs
    <3> QED
      BY <3>4 DEF After
  <2>15. ASSUME a.hasAddr
         PROVE  SubSeq(p, 5, 8) = a.addr /\ 256 * p[9] + p[10] = a.port
    <3>1. n = 10 /\ Len(e) = 6
      BY <2>3, <2>15 DEF n
    <3>2. \A i \in 1 .. 6 : p[4 + i] = e[i]
      BY <2>2, <2>6, <2>7, <2>8, <3>1
    <3>3. p[9] = e[5] /\ p[10] = e[6]
      <4>1. p[4 + 5] = e[5] /\ p[4 + 6] = e[6]
        BY <3>2
      <4> QED
        BY <4>1
    <3>4. SubSeq(p, 5, 8) = a.addr
      <4>1. SubSeq(e, 1, 4) = a.addr /\ e \in Seq(Byte)
        BY <2>3, <2>15
      <4>2. /\ a.addr \in Seq(Byte) /\ Len(a.addr) = 4
            /\ \A i \in 1 .. 4 : a.addr[i] = e[i]
        <5> DEFINE c == SubSeq(e, 1, 4)
        <5>1. 4 \in Nat /\ 4 <= Len(e) /\ 1 \in Nat \ {0}
          BY <3>1
        <5>2. /\ c \in Seq(Byte) /\ Len(c) = 4 - 1 + 1
              /\ \A i \in 1 .. 4 - 1 + 1 : c[i] = e[1 + i - 1]
          BY <4>1, <5>1, Slice
        <5>3. c = a.addr
          BY <4>1
        <5> HIDE DEF c
        <5>4. \A i \in 1 .. 4 : c[i] = e[i]
          BY <5>2
        <5> QED
          BY <5>2, <5>3, <5>4
      <4>3. \A i \in 1 .. Len(a.addr) : p[4 + i] = a.addr[i]
        BY <3>2, <4>2
      <4>4. 4 \in Nat /\ 8 \in Nat /\ 8 = 4 + Len(a.addr) /\ 8 <= Len(p)
        BY <2>8, <3>1, <4>2
      <4>5. SubSeq(p, 4 + 1, 8) = a.addr
        BY <2>7, <4>2, <4>3, <4>4, SliceIs
      <4> QED
        BY <4>5
    <3> QED
      BY <2>3, <2>15, <3>3, <3>4
  <2>16. ParsePeerAnswer(p) = a
    <3>1. ParsePeerAnswer(p) =
            [found |-> TRUE, hasAddr |-> a.hasAddr, canCall |-> a.canCall,
             canCallBack |-> a.canCallBack, addr |-> a.addr, port |-> a.port,
             signPub |-> a.signPub, exchPub |-> a.exchPub]
      <4>1. (p[2] = 1) = a.hasAddr /\ (p[3] = 1) = a.canCall /\ (p[4] = 1) = a.canCallBack
        BY <2>1, <2>10
      <4>2. (IF p[2] = 1 THEN SubSeq(p, 5, 8) ELSE <<>>) = a.addr
        BY <2>1, <2>10, <2>15
      <4>3. (IF p[2] = 1 THEN 256 * p[9] + p[10] ELSE 0) = a.port
        BY <2>1, <2>10, <2>15
      <4>4. p[1] # 0
        BY <2>10
      <4>5. ParsePeerAnswer(p) =
              [found |-> TRUE, hasAddr |-> p[2] = 1, canCall |-> p[3] = 1, canCallBack |-> p[4] = 1,
               addr |-> IF p[2] = 1 THEN SubSeq(p, 5, 8) ELSE <<>>,
               port |-> IF p[2] = 1 THEN 256 * p[9] + p[10] ELSE 0,
               signPub |-> SubSeq(p, n + 1, n + 32), exchPub |-> After(p, n + 32)]
        BY <2>11, <4>4 DEF ParsePeerAnswer, KeySize
      <4> QED
        BY <2>13, <2>14, <4>1, <4>2, <4>3, <4>5, Zenon
    <3> QED
      BY <2>1, <3>1
  <2>17. MarshalPeerAnswer(a) = p
    BY <2>m DEF p, h
  <2> QED
    BY <2>12, <2>16, <2>17
<1> QED
  BY <1>1, <1>2

NoZero(s) == \A i \in 1 .. Len(s) : s[i] # 0

\* Two texts that end with their first zero.
LEMMA FirstZero ==
  ASSUME NEW s \in Seq(Byte), NEW t \in Seq(Byte), NEW x \in Seq(Byte), NEW y \in Seq(Byte),
         NoZero(s), NoZero(t), Terminated(s) \o x = Terminated(t) \o y
  PROVE  s = t /\ x = y
<1>1. ASSUME NEW a \in Seq(Byte), NEW b \in Seq(Byte)
      PROVE  /\ Terminated(a) \in Seq(Byte) /\ Len(Terminated(a)) = Len(a) + 1
             /\ \A i \in 1 .. Len(a) : (Terminated(a) \o b)[i] = a[i]
             /\ (Terminated(a) \o b)[Len(a) + 1] = 0
  <2> DEFINE z == <<0>>
             c == a \o z
  <2>1. z \in Seq(Byte) /\ Len(z) = 1 /\ z[1] = 0
    BY DEF Byte
  <2>t. Terminated(a) = c
    BY DEF Terminated
  <2> HIDE DEF z
  <2>2. /\ c \in Seq(Byte) /\ Len(c) = Len(a) + Len(z)
        /\ \A i \in 1 .. Len(a) : c[i] = a[i]
        /\ \A i \in 1 .. Len(z) : c[Len(a) + i] = z[i]
    BY <2>1, ConcatBytes
  <2> HIDE DEF c
  <2>3. \A i \in 1 .. Len(c) : (c \o b)[i] = c[i]
    BY <2>2, ConcatBytes
  <2>4. Len(c) = Len(a) + 1 /\ c[Len(a) + 1] = 0
    BY <2>1, <2>2
  <2>5. (c \o b)[Len(a) + 1] = 0 /\ \A i \in 1 .. Len(a) : (c \o b)[i] = a[i]
    BY <2>2, <2>3, <2>4
  <2> QED
    BY <2>t, <2>2, <2>4, <2>5
<1> DEFINE c == Terminated(s)
           d == Terminated(t)
           l == c \o x
           r == d \o y
<1>2. /\ c \in Seq(Byte) /\ Len(c) = Len(s) + 1
      /\ l[Len(s) + 1] = 0 /\ \A i \in 1 .. Len(s) : l[i] = s[i]
  BY <1>1
<1>3. /\ d \in Seq(Byte) /\ Len(d) = Len(t) + 1
      /\ r[Len(t) + 1] = 0 /\ \A i \in 1 .. Len(t) : r[i] = t[i]
  BY <1>1
<1>4. l = r /\ c \o x = d \o y
  OBVIOUS
<1> HIDE DEF c, d, l, r
<1>5. Len(s) = Len(t)
  <2>1. CASE Len(s) < Len(t)
    <3>1. Len(s) + 1 \in 1 .. Len(t)
      BY <2>1
    <3>2. t[Len(s) + 1] = 0
      BY <1>2, <1>3, <1>4, <3>1
    <3> QED
      BY <3>1, <3>2 DEF NoZero
  <2>2. CASE Len(t) < Len(s)
    <3>1. Len(t) + 1 \in 1 .. Len(s)
      BY <2>2
    <3>2. s[Len(t) + 1] = 0
      BY <1>2, <1>3, <1>4, <3>1
    <3> QED
      BY <3>1, <3>2 DEF NoZero
  <2> QED
    BY <2>1, <2>2
<1>6. c = d /\ x = y
  <2>1. c \in Seq(Byte) /\ d \in Seq(Byte) /\ Len(c) = Len(d) /\ c \o x = d \o y
    BY <1>2, <1>3, <1>4, <1>5
  <2> QED
    BY <2>1, EqualHalves
<1>7. s = t
  <2>1. \A i \in 1 .. Len(s) : s[i] = t[i]
    BY <1>2, <1>3, <1>4, <1>5
  <2> QED
    BY <1>5, <2>1, SeqEqual
<1> QED
  BY <1>6, <1>7

\* "Proof computes the join proof bound to user, machine, public key and
\* nonce": the input of its HMAC determines all four, as long as no name holds
\* a zero byte and every nonce has the same length.
THEOREM ProofInputDeterminesAll ==
  ASSUME NEW n \in Seq(Byte), NEW u \in Seq(Byte), NEW m \in Seq(Byte), NEW p \in Seq(Byte),
         NEW n2 \in Seq(Byte), NEW u2 \in Seq(Byte), NEW m2 \in Seq(Byte), NEW p2 \in Seq(Byte),
         Len(n) = Len(n2), NoZero(u), NoZero(m), NoZero(u2), NoZero(m2),
         ProofInput(n, u, m, p) = ProofInput(n2, u2, m2, p2)
  PROVE  n = n2 /\ u = u2 /\ m = m2 /\ p = p2
<1>1. ASSUME NEW s \in Seq(Byte), NEW t \in Seq(Byte)
      PROVE  Terminated(s) \o t \in Seq(Byte)
  <2> DEFINE z == <<0>>
  <2>1. z \in Seq(Byte) /\ Terminated(s) = s \o z
    BY DEF Byte, Terminated
  <2> HIDE DEF z
  <2>2. Terminated(s) \in Seq(Byte)
    BY <2>1, ConcatBytes
  <2> QED
    BY <2>2, ConcatBytes
<1> DEFINE x == Terminated(m) \o p
           x2 == Terminated(m2) \o p2
           y == Terminated(u) \o x
           y2 == Terminated(u2) \o x2
<1>2. x \in Seq(Byte) /\ x2 \in Seq(Byte)
  BY <1>1
<1>3. y \in Seq(Byte) /\ y2 \in Seq(Byte)
  BY <1>1, <1>2
<1>4. n \o y = n2 \o y2
  BY DEF ProofInput
<1> HIDE DEF y, y2
<1>5. n = n2 /\ y = y2
  BY <1>3, <1>4, EqualHalves
<1>6. u = u2 /\ x = x2
  <2>1. PICK b \in Seq(Byte), b2 \in Seq(Byte) : b = x /\ b2 = x2
    BY <1>2
  <2>2. Terminated(u) \o b = Terminated(u2) \o b2
    BY <1>5, <2>1 DEF y, y2
  <2> HIDE DEF x, x2
  <2>3. u = u2 /\ b = b2
    <3>1. NoZero(u) /\ NoZero(u2)
      OBVIOUS
    <3> QED
      BY ONLY <2>2, <3>1, FirstZero, u \in Seq(Byte), u2 \in Seq(Byte), b \in Seq(Byte), b2 \in Seq(Byte), Zenon
  <2> QED
    BY <2>1, <2>3
<1>7. m = m2 /\ p = p2
  <2>1. Terminated(m) \o p = Terminated(m2) \o p2
    BY <1>6 DEF x, x2
  <2> QED
    BY <2>1, FirstZero
<1> QED
  BY <1>5, <1>6, <1>7

=============================================================================
