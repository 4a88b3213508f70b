---------------------------- MODULE Base64Proofs ----------------------------
(***************************************************************************)
(* Proof that a key of any length and any bytes reaches the server as it   *)
(* is, and that what carries it is Base64.  The loops of the encoder and   *)
(* of the decoder need one invariant each: what the encoder has written so *)
(* far are the groups of the bytes it has taken, and what the decoder has  *)
(* written so far are the bytes before those it will take.                 *)
(***************************************************************************)
EXTENDS Base64, TLAPS, SequenceTheorems

USE KeyAssumption

-----------------------------------------------------------------------------
\* Three bytes and four groups of six bits

Octets == 0 .. 255
Sextets == 0 .. 63

\* Groups cuts three bytes into numbers of six bits.
LEMMA GroupsAreSextets ==
  ASSUME NEW a \in Octets, NEW b \in Octets, NEW c \in Octets
  PROVE  /\ Groups(<<a, b, c>>) \in Seq(Sextets) /\ Len(Groups(<<a, b, c>>)) = 4
         /\ \A j \in 1 .. 4 : Groups(<<a, b, c>>)[j] \in Sextets
BY SMTT(60) DEF Groups, Octets, Sextets

\* Bytes puts together what Groups has cut.
LEMMA BytesOfGroups ==
  ASSUME NEW a \in Octets, NEW b \in Octets, NEW c \in Octets
  PROVE  Bytes(Groups(<<a, b, c>>)) = <<a, b, c>>
<1> DEFINE w == a \div 4
           x == (a % 4) * 16 + (b \div 16)
           y == (b % 16) * 4 + (c \div 64)
           z == c % 64
<1>1. (w * 4 + ((x % 64) \div 16)) % 256 = a
  BY SMTT(60) DEF Octets
<1>2. ((x % 16) * 16 + ((y % 64) \div 4)) % 256 = b
  BY SMTT(60) DEF Octets
<1>3. ((y % 4) * 64 + z) % 256 = c
  BY SMTT(60) DEF Octets
<1>4. Groups(<<a, b, c>>) = <<w, x, y, z>>
  BY DEF Groups
<1> HIDE DEF w, x, y, z
<1>5. Bytes(<<w, x, y, z>>) =
      << (w * 4 + ((x % 64) \div 16)) % 256, ((x % 16) * 16 + ((y % 64) \div 4)) % 256,
         ((y % 4) * 64 + z) % 256 >>
  BY DEF Bytes
<1> QED  BY <1>1, <1>2, <1>3, <1>4, <1>5

\* Four groups hold the number that the three bytes hold.
LEMMA GroupsInOrder ==
  ASSUME NEW a \in Octets, NEW b \in Octets, NEW c \in Octets
  PROVE  LET g == Groups(<<a, b, c>>)
         IN ((g[1] * 64 + g[2]) * 64 + g[3]) * 64 + g[4] = (a * 256 + b) * 256 + c
<1> DEFINE x == (a % 4) * 16 + (b \div 16)
           y == (b % 16) * 4 + (c \div 64)
<1>1. (((a \div 4) * 64 + x) * 64 + y) * 64 + (c % 64) = (a * 256 + b) * 256 + c
  BY SMTT(60) DEF Octets
<1>2. Groups(<<a, b, c>>) = <<a \div 4, x, y, c % 64>>
  BY DEF Groups
<1> HIDE DEF x, y
<1> QED  BY <1>1, <1>2

-----------------------------------------------------------------------------
\* What remains behind the full groups

Characters == 0 .. Pad

LEMMA EncodeNone == EncodeRest(<<>>) = <<>>
BY DEF EncodeRest

\* What the encoder makes of one byte that remains, and of two.
LEMMA EncodeOne ==
  ASSUME NEW a \in Octets
  PROVE  LET g == Groups(<<a, 0, 0>>) IN EncodeRest(<<a>>) = <<g[1], g[2], Pad, Pad>>
<1> DEFINE filled == [k \in 1 .. 3 |-> IF k <= 1 THEN <<a>>[k] ELSE 0]
<1>1. Groups(filled) = Groups(<<a, 0, 0>>)
  BY DEF Groups
<1>2. EncodeRest(<<a>>) = [k \in 1 .. 4 |-> IF k <= 2 THEN Groups(filled)[k] ELSE Pad]
  BY DEF EncodeRest
<1> HIDE DEF filled
<1> QED  BY <1>1, <1>2

LEMMA EncodeTwo ==
  ASSUME NEW a \in Octets, NEW b \in Octets
  PROVE  LET g == Groups(<<a, b, 0>>) IN EncodeRest(<<a, b>>) = <<g[1], g[2], g[3], Pad>>
<1> DEFINE filled == [k \in 1 .. 3 |-> IF k <= 2 THEN <<a, b>>[k] ELSE 0]
<1>1. Groups(filled) = Groups(<<a, b, 0>>)
  BY DEF Groups
<1>2. EncodeRest(<<a, b>>) = [k \in 1 .. 4 |-> IF k <= 3 THEN Groups(filled)[k] ELSE Pad]
  BY DEF EncodeRest
<1> HIDE DEF filled
<1> QED  BY <1>1, <1>2

LEMMA DecodeNone == DecodeRest(<<>>) = <<>>
<1> DEFINE r == [k \in 1 .. -1 |-> Bytes(Filled(<<>>))[k]]
<1>1. r \in Seq(Octets) /\ Len(r) = 0
  <2>1. 1 .. -1 = 1 .. 0
    OBVIOUS
  <2>2. r = [k \in 1 .. 0 |-> Bytes(Filled(<<>>))[k]]
    BY <2>1, Zenon
  <2> QED  BY <2>2
<1>2. r = <<>>
  <2> HIDE DEF r
  <2> QED  BY <1>1, EmptySeq
<1>3. DecodeRest(<<>>) = r
  BY DEF DecodeRest
<1> QED  BY <1>2, <1>3, Zenon

\* What the decoder makes of the characters of one byte, and of two: the characters it
\* puts for the missing ones do not get into what it keeps.
LEMMA DecodeOne ==
  ASSUME NEW a \in Octets
  PROVE  LET g == Groups(<<a, 0, 0>>) IN DecodeRest(<<g[1], g[2]>>) = <<a>>
<1> DEFINE w == a \div 4
           x == (a % 4) * 16
           rest == <<w, x>>
<1>1. Groups(<<a, 0, 0>>)[1] = w /\ Groups(<<a, 0, 0>>)[2] = x
  BY DEF Groups, Octets
<1>2. (w * 4 + ((x % 64) \div 16)) % 256 = a
  BY SMTT(60) DEF Octets
<1> HIDE DEF w, x
<1>3. Len(rest) - 1 = 1 /\ Filled(rest)[1] = w /\ Filled(rest)[2] = x
  BY DEF Filled
<1>4. Bytes(Filled(rest))[1] = a
  BY <1>2, <1>3 DEF Bytes
<1>5. DecodeRest(rest) = [k \in 1 .. 1 |-> Bytes(Filled(rest))[k]]
  BY <1>3 DEF DecodeRest
<1> HIDE DEF rest
<1>6. DecodeRest(rest) = <<a>>
  BY <1>4, <1>5
<1> QED  BY <1>1, <1>6 DEF rest

LEMMA DecodeTwo ==
  ASSUME NEW a \in Octets, NEW b \in Octets
  PROVE  LET g == Groups(<<a, b, 0>>) IN DecodeRest(<<g[1], g[2], g[3]>>) = <<a, b>>
<1> DEFINE w == a \div 4
           x == (a % 4) * 16 + (b \div 16)
           y == (b % 16) * 4
           rest == <<w, x, y>>
<1>1. /\ Groups(<<a, b, 0>>)[1] = w /\ Groups(<<a, b, 0>>)[2] = x
      /\ Groups(<<a, b, 0>>)[3] = y
  BY SMTT(60) DEF Groups, Octets
<1>2. /\ (w * 4 + ((x % 64) \div 16)) % 256 = a
      /\ ((x % 16) * 16 + ((y % 64) \div 4)) % 256 = b
  BY SMTT(60) DEF Octets
<1> HIDE DEF w, x, y
<1>3. /\ Len(rest) - 1 = 2 /\ Filled(rest)[1] = w /\ Filled(rest)[2] = x
      /\ Filled(rest)[3] = y
  BY DEF Filled
<1>4. Bytes(Filled(rest))[1] = a /\ Bytes(Filled(rest))[2] = b
  BY <1>2, <1>3 DEF Bytes
<1>5. DecodeRest(rest) = [k \in 1 .. 2 |-> Bytes(Filled(rest))[k]]
  BY <1>3 DEF DecodeRest
<1> HIDE DEF rest
<1>6. DecodeRest(rest) = <<a, b>>
  BY <1>4, <1>5
<1> QED  BY <1>1, <1>6 DEF rest

-----------------------------------------------------------------------------
\* The loops

\* The bytes of group n, and its characters: those that hold bits of the key, and padding.
Triple(n) == <<Eight(3 * n + 1), Eight(3 * n + 2), Eight(3 * n + 3)>>
GroupIs(n) ==
    \A j \in 1 .. 4 :
        chars[4 * n + j] = IF 3 * n + j <= Len(key) + 1 THEN Groups(Triple(n))[j] ELSE Pad

\* m groups are written.
Written(m) == Len(chars) = 4 * m /\ \A n \in 0 .. m - 1 : GroupIs(n)

\* The loop of the encoder has written the groups of the bytes it has taken.
Encoding ==
    /\ taken <= Len(key)
    /\ \E m \in 0 .. Len(key) : taken = 3 * m /\ Written(m)

\* Every byte of the key is in a group.
Encoded == \E m \in 0 .. Len(key) : 3 * m - 2 <= Len(key) /\ Len(key) <= 3 * m /\ Written(m)

\* The loop of the decoder has written the bytes of the groups it has taken.
Decoding ==
    \E m \in 0 .. Len(key) :
        /\ taken = 4 * m /\ 4 * m <= Len(chars) /\ 3 * m <= Len(key)
        /\ Len(decoded) = 3 * m
        /\ \A k \in 1 .. 3 * m : decoded[k] = key[k]

CodecInv ==
    /\ KeyTypeOK
    /\ stage = "none" => key = <<>> /\ taken = 0
    /\ stage \in {"none", "encode"} => decoded = <<>>
    /\ stage = "none" => chars = <<>>
    /\ stage = "encode" => Encoding
    /\ stage = "decode" => Encoded /\ Decoding
    /\ stage = "done" => Encoded /\ decoded = key

-----------------------------------------------------------------------------
\* Lemmas about the state

\* A slice of three or four, and what is left of a sequence, as a tuple.
LEMMA Slices ==
  ASSUME NEW S, NEW s \in Seq(S), NEW t \in Nat
  PROVE  /\ t + 4 <= Len(s) => SubSeq(s, t + 1, t + 4) = <<s[t + 1], s[t + 2], s[t + 3], s[t + 4]>>
         /\ t + 3 <= Len(s) => SubSeq(s, t + 1, t + 3) = <<s[t + 1], s[t + 2], s[t + 3]>>
         /\ t + 2 <= Len(s) => SubSeq(s, t + 1, t + 2) = <<s[t + 1], s[t + 2]>>
         /\ t + 1 <= Len(s) => SubSeq(s, t + 1, t + 1) = <<s[t + 1]>>
         /\ SubSeq(s, t + 1, t) = <<>>
<1>1. ASSUME NEW n \in 1 .. 4, t + n <= Len(s)
      PROVE  /\ SubSeq(s, t + 1, t + n) \in Seq(S) /\ Len(SubSeq(s, t + 1, t + n)) = n
             /\ \A i \in 1 .. n : SubSeq(s, t + 1, t + n)[i] = s[t + i]
  <2> DEFINE a == t + 1
             b == t + n
  <2>1. a \in Int /\ b \in Int /\ a <= b /\ b - a + 1 = n
    OBVIOUS
  <2>2. \A i \in a .. b : s[i] \in S
    BY <1>1, ElementOfSeq
  <2>3. \A i \in 1 .. n : a + i - 1 = t + i
    OBVIOUS
  <2> HIDE DEF a, b
  <2>4. /\ SubSeq(s, a, b) \in Seq(S)
        /\ Len(SubSeq(s, a, b)) = IF a <= b THEN b - a + 1 ELSE 0
        /\ \A i \in 1 .. b - a + 1 : SubSeq(s, a, b)[i] = s[a + i - 1]
    BY <2>1, <2>2, SubSeqProperties
  <2>5. /\ SubSeq(s, a, b) \in Seq(S) /\ Len(SubSeq(s, a, b)) = n
        /\ \A i \in 1 .. n : SubSeq(s, a, b)[i] = s[t + i]
    BY <2>1, <2>3, <2>4
  <2> QED  BY <2>5 DEF a, b
<1>2. \A i \in 1 .. 4 : t + i <= Len(s) => s[t + i] \in S
  BY ElementOfSeq
<1>3. ASSUME t + 4 <= Len(s)
      PROVE  SubSeq(s, t + 1, t + 4) = <<s[t + 1], s[t + 2], s[t + 3], s[t + 4]>>
  <2> DEFINE q == SubSeq(s, t + 1, t + 4)
  <2>1. q \in Seq(S) /\ Len(q) = 4 /\ \A i \in 1 .. 4 : q[i] = s[t + i]
    <3>1. 4 \in 1 .. 4
      OBVIOUS
    <3> QED  BY <1>1, <1>3, <3>1, Zenon
  <2> HIDE DEF q
  <2>2. q = <<s[t + 1], s[t + 2], s[t + 3], s[t + 4]>>
    BY <2>1
  <2> QED  BY <2>2 DEF q
<1>4. ASSUME t + 3 <= Len(s)
      PROVE  SubSeq(s, t + 1, t + 3) = <<s[t + 1], s[t + 2], s[t + 3]>>
  <2> DEFINE q == SubSeq(s, t + 1, t + 3)
  <2>1. q \in Seq(S) /\ Len(q) = 3 /\ \A i \in 1 .. 3 : q[i] = s[t + i]
    BY <1>1, <1>4
  <2> HIDE DEF q
  <2>2. q = <<s[t + 1], s[t + 2], s[t + 3]>>
    BY <2>1
  <2> QED  BY <2>2 DEF q
<1>5. ASSUME t + 2 <= Len(s)
      PROVE  SubSeq(s, t + 1, t + 2) = <<s[t + 1], s[t + 2]>>
  <2> DEFINE q == SubSeq(s, t + 1, t + 2)
  <2>1. q \in Seq(S) /\ Len(q) = 2 /\ \A i \in 1 .. 2 : q[i] = s[t + i]
    BY <1>1, <1>5
  <2> HIDE DEF q
  <2>2. q = <<s[t + 1], s[t + 2]>>
    BY <2>1
  <2> QED  BY <2>2 DEF q
<1>6. ASSUME t + 1 <= Len(s)
      PROVE  SubSeq(s, t + 1, t + 1) = <<s[t + 1]>>
  <2> DEFINE q == SubSeq(s, t + 1, t + 1)
  <2>1. q \in Seq(S) /\ Len(q) = 1 /\ q[1] = s[t + 1]
    BY <1>1, <1>6
  <2> HIDE DEF q
  <2>2. q = <<s[t + 1]>>
    BY <2>1
  <2> QED  BY <2>2 DEF q
<1>7. SubSeq(s, t + 1, t) = <<>>
  BY SubSeqEmpty
<1> QED  BY <1>3, <1>4, <1>5, <1>6, <1>7

\* What Eight finds are bytes.
LEMMA EightIsOctet ==
  ASSUME KeyTypeOK, NEW k \in Nat \ {0}
  PROVE  Eight(k) \in Octets /\ (k <= Len(key) => Eight(k) = key[k])
<1>1. k <= Len(key) => key[k] \in Octets
  <2>1. Len(key) \in Nat
    BY LenProperties DEF KeyTypeOK
  <2>2. k <= Len(key) => k \in 1 .. Len(key)
    BY <2>1
  <2>3. k <= Len(key) => key[k] \in Octet
    BY <2>2, ElementOfSeq DEF KeyTypeOK
  <2> QED  BY <2>3 DEF Octets, KeyAssumption
<1>2. 0 \in Octets
  BY DEF Octets
<1> QED  BY <1>1, <1>2, Zenon DEF Eight

LEMMA TripleIsOctets ==
  ASSUME KeyTypeOK, NEW n \in Nat
  PROVE  /\ Eight(3 * n + 1) \in Octets /\ Eight(3 * n + 2) \in Octets
         /\ Eight(3 * n + 3) \in Octets
<1>1. /\ 3 * n + 1 \in Nat \ {0} /\ 3 * n + 2 \in Nat \ {0} /\ 3 * n + 3 \in Nat \ {0}
  OBVIOUS
<1> QED  BY <1>1, EightIsOctet

\* One group more.
LEMMA OneGroupMore ==
  ASSUME KeyTypeOK, NEW m \in Nat, Written(m), NEW t,
         t \in Seq(Characters), Len(t) = 4, chars' = chars \o t, key' = key,
         \A j \in 1 .. 4 :
             t[j] = IF 3 * m + j <= Len(key) + 1 THEN Groups(Triple(m))[j] ELSE Pad
  PROVE  chars' \in Seq(Characters) /\ Written(m + 1)'
<1>1. chars \in Seq(Characters) /\ Len(chars) = 4 * m
  BY DEF KeyTypeOK, Characters, Written
<1>2. /\ chars' \in Seq(Characters) /\ Len(chars') = 4 * m + 4
      /\ \A i \in 1 .. 4 * m + 4 : chars'[i] = IF i <= 4 * m THEN chars[i] ELSE t[i - 4 * m]
  <2>1. /\ chars \o t \in Seq(Characters) /\ Len(chars \o t) = Len(chars) + Len(t)
        /\ \A i \in 1 .. Len(chars) + Len(t) :
               (chars \o t)[i] = IF i <= Len(chars) THEN chars[i] ELSE t[i - Len(chars)]
    BY <1>1, ConcatProperties, Zenon
  <2> QED  BY <1>1, <2>1, Zenon
<1>3. \A n \in Nat : Triple(n)' = Triple(n)
  BY DEF Triple, Eight
<1>4. ASSUME NEW n \in 0 .. m, NEW j \in 1 .. 4
      PROVE  chars'[4 * n + j] =
                 IF 3 * n + j <= Len(key) + 1 THEN Groups(Triple(n))[j] ELSE Pad
  <2>1. CASE n = m
    <3>1. /\ 4 * m + j \in 1 .. 4 * m + 4 /\ ~(4 * m + j <= 4 * m)
          /\ 4 * m + j - 4 * m = j
      OBVIOUS
    <3>2. chars'[4 * m + j] =
              IF 4 * m + j <= 4 * m THEN chars[4 * m + j] ELSE t[4 * m + j - 4 * m]
      BY <1>2, <3>1
    <3>3. chars'[4 * m + j] = t[j]
      BY <3>1, <3>2
    <3> QED  BY <2>1, <3>3
  <2>2. CASE n < m
    <3>1. /\ n \in 0 .. m - 1 /\ 4 * n + j \in 1 .. 4 * m + 4
          /\ 4 * n + j <= 4 * m
      BY <2>2
    <3>2. chars'[4 * n + j] = chars[4 * n + j]
      BY <1>2, <3>1, Zenon
    <3> QED  BY <3>1, <3>2, Zenon DEF Written, GroupIs
  <2>3. n = m \/ n < m
    OBVIOUS
  <2> QED  BY <2>1, <2>2, <2>3, Zenon
<1>5. \A n \in 0 .. m : GroupIs(n)'
  <2> TAKE n \in 0 .. m
  <2>1. Triple(n)' = Triple(n)
    BY <1>3
  <2>2. \A j \in 1 .. 4 :
           chars'[4 * n + j] = IF 3 * n + j <= Len(key') + 1 THEN Groups(Triple(n)')[j] ELSE Pad
    BY <1>4, <2>1
  <2> QED  BY <2>2 DEF GroupIs
<1>6. 4 * (m + 1) = 4 * m + 4 /\ (m + 1) - 1 = m
  OBVIOUS
<1> QED  BY <1>2, <1>5, <1>6 DEF Written

-----------------------------------------------------------------------------
\* The invariant is inductive

LEMMA CodecInit == KeyInit => CodecInv
<1> SUFFICES ASSUME KeyInit PROVE CodecInv
  OBVIOUS
<1>1. KeyTypeOK
  BY EmptySeq DEF KeyInit, KeyTypeOK
<1> QED  BY <1>1 DEF KeyInit, CodecInv

LEMMA GenerateKeeps ==
  ASSUME CodecInv, Generate PROVE CodecInv'
<1>1. PICK n \in 0 .. MaxKey : key' \in [1 .. n -> Octet]
  BY DEF Generate
<1>2. key' \in Seq(Octet) /\ Len(key') = n
  BY <1>1
<1>3. KeyTypeOK'
  BY <1>2 DEF CodecInv, KeyTypeOK, Generate
<1>4. chars' = <<>> /\ decoded' = <<>> /\ taken' = 0 /\ stage' = "encode"
  BY DEF CodecInv, Generate
<1>5. Encoding'
  <2>1. Written(0)'
    BY <1>4 DEF Written
  <2>2. 0 \in 0 .. Len(key') /\ 3 * 0 = 0
    BY <1>2
  <2> QED  BY <1>4, <2>1, <2>2 DEF Encoding
<1> QED  BY <1>3, <1>4, <1>5 DEF CodecInv

LEMMA EncodeThreeKeeps ==
  ASSUME CodecInv, EncodeThree PROVE CodecInv'
<1>1. /\ KeyTypeOK /\ decoded = <<>> /\ stage = "encode" /\ taken + 3 <= Len(key)
      /\ chars' = chars \o Groups(SubSeq(key, taken + 1, taken + 3))
      /\ taken' = taken + 3 /\ key' = key /\ decoded' = decoded /\ stage' = stage
  BY DEF CodecInv, EncodeThree
<1>2. PICK m \in 0 .. Len(key) : taken = 3 * m /\ Written(m)
  BY <1>1 DEF CodecInv, Encoding
<1>3. Len(key) \in Nat /\ m \in Nat
  BY <1>1, <1>2, LenProperties DEF KeyTypeOK
<1> DEFINE g == Groups(Triple(m))
<1>4. SubSeq(key, taken + 1, taken + 3) = Triple(m)
  <2>1. SubSeq(key, taken + 1, taken + 3) = <<key[taken + 1], key[taken + 2], key[taken + 3]>>
    BY <1>1, Slices DEF KeyTypeOK
  <2>2. /\ Eight(3 * m + 1) = key[taken + 1] /\ Eight(3 * m + 2) = key[taken + 2]
        /\ Eight(3 * m + 3) = key[taken + 3]
    BY <1>1, <1>2, <1>3 DEF Eight
  <2> QED  BY <2>1, <2>2 DEF Triple
<1>5. g \in Seq(Characters) /\ Len(g) = 4
  <2>1. g \in Seq(Sextets) /\ Len(g) = 4
    BY <1>1, <1>3, TripleIsOctets, GroupsAreSextets DEF Triple
  <2>2. Sextets \subseteq Characters
    BY DEF Sextets, Characters, Pad
  <2> QED  BY <2>1, <2>2, SeqMonotonic
<1>6. \A j \in 1 .. 4 : 3 * m + j <= Len(key) + 1
  BY <1>1, <1>2, <1>3
<1>7. chars' \in Seq(Characters) /\ Written(m + 1)'
  <2>1. chars' = chars \o g
    BY <1>1, <1>4
  <2>2. \A j \in 1 .. 4 :
            g[j] = IF 3 * m + j <= Len(key) + 1 THEN Groups(Triple(m))[j] ELSE Pad
    BY <1>6
  <2> HIDE DEF g
  <2> QED  BY <1>1, <1>2, <1>3, <1>5, <2>1, <2>2, OneGroupMore
<1>8. KeyTypeOK'
  BY <1>1, <1>7 DEF KeyTypeOK, Characters
<1>9. Encoding'
  <2>1. m + 1 \in 0 .. Len(key) /\ taken' = 3 * (m + 1)
    BY <1>1, <1>2, <1>3
  <2> QED  BY <1>1, <1>7, <2>1 DEF Encoding
<1> QED  BY <1>1, <1>8, <1>9 DEF CodecInv

LEMMA EncodeLastKeeps ==
  ASSUME CodecInv, EncodeLast PROVE CodecInv'
<1>1. /\ KeyTypeOK /\ decoded = <<>> /\ stage = "encode" /\ ~(taken + 3 <= Len(key))
      /\ chars' = chars \o EncodeRest(SubSeq(key, taken + 1, Len(key)))
      /\ taken' = 0 /\ key' = key /\ decoded' = <<>> /\ stage' = "decode"
  <2>1. Len(key) \in Nat /\ taken \in Nat
    BY LenProperties DEF CodecInv, KeyTypeOK
  <2> QED  BY <2>1 DEF CodecInv, EncodeLast
<1>2. taken <= Len(key) /\ \E m \in 0 .. Len(key) : taken = 3 * m /\ Written(m)
  BY <1>1 DEF CodecInv, Encoding
<1>3. PICK m \in 0 .. Len(key) : taken = 3 * m /\ Written(m)
  BY <1>2
<1>4. Len(key) \in Nat /\ m \in Nat /\ taken \in Nat
  BY <1>1, <1>3, LenProperties DEF KeyTypeOK
<1> DEFINE rest == SubSeq(key, taken + 1, Len(key))
           g == Groups(Triple(m))
<1>5. /\ Eight(3 * m + 1) \in Octets /\ Eight(3 * m + 2) \in Octets
      /\ Eight(3 * m + 3) \in Octets
  BY <1>1, <1>4, TripleIsOctets
<1>6. /\ g[1] \in Characters /\ g[2] \in Characters /\ g[3] \in Characters
      /\ Pad \in Characters /\ Sextets \subseteq Characters
  <2>1. Sextets \subseteq Characters /\ Pad \in Characters
    BY DEF Sextets, Characters, Pad
  <2> QED  BY <1>5, <2>1, GroupsAreSextets DEF Triple
\* Whatever remains, a number of groups is full, and the last one was begun.
<1>7. chars' \in Seq(Characters) /\ Encoded'
  <2>1. CASE taken = Len(key)
    <3>1. EncodeRest(rest) = <<>>
      <4>1. taken + 1 \in Int /\ Len(key) \in Int /\ Len(key) < taken + 1
        BY <1>4, <2>1
      <4>2. rest = <<>>
        BY <4>1, SubSeqEmpty
      <4> QED  BY <4>2, EncodeNone, Zenon
    <3>2. chars \in Seq(Characters)
      BY <1>1 DEF KeyTypeOK, Characters
    <3>3. chars' = chars
      BY <1>1, <3>1, <3>2, ConcatEmptySeq
    <3>4. Written(m)'
      BY <1>1, <1>3, <3>3 DEF Written, GroupIs, Triple, Eight
    <3>5. 3 * m - 2 <= Len(key) /\ Len(key) <= 3 * m
      BY <1>3, <1>4, <2>1
    <3>6. m \in 0 .. Len(key') /\ 3 * m - 2 <= Len(key') /\ Len(key') <= 3 * m
      BY <1>1, <1>3, <3>5
    <3>7. Encoded'
      <4>1. \E n \in 0 .. Len(key') :
               3 * n - 2 <= Len(key') /\ Len(key') <= 3 * n /\ Written(n)'
        BY <3>4, <3>6, Zenon
      <4> QED  BY <4>1, Zenon DEF Encoded
    <3> QED  BY <3>2, <3>3, <3>7
  <2>2. CASE taken + 1 = Len(key)
    <3> DEFINE t == <<g[1], g[2], Pad, Pad>>
    <3>1. rest = <<Eight(3 * m + 1)>>
      <4>1. rest = <<key[taken + 1]>>
        BY <1>1, <1>4, <2>2, Slices DEF KeyTypeOK
      <4> QED  BY <1>3, <1>4, <2>2, <4>1 DEF Eight
    <3>2. Eight(3 * m + 2) = 0 /\ Eight(3 * m + 3) = 0
      BY <1>3, <1>4, <2>2 DEF Eight
    <3>3. EncodeRest(rest) = t
      BY <1>5, <3>1, <3>2, EncodeOne DEF Triple
    <3>4. t \in Seq(Characters) /\ Len(t) = 4
      <4> HIDE DEF g
      <4> QED  BY <1>6
    <3>5. \A j \in 1 .. 4 :
              t[j] = IF 3 * m + j <= Len(key) + 1 THEN Groups(Triple(m))[j] ELSE Pad
      <4>1. 3 * m + 1 = Len(key)
        BY <1>3, <2>2
      <4> HIDE DEF g
      <4>2. \A j \in 1 .. 4 : t[j] = IF 3 * m + j <= Len(key) + 1 THEN g[j] ELSE Pad
        BY <1>4, <4>1
      <4> QED  BY <4>2 DEF g
    <3>6. chars' = chars \o t
      BY <1>1, <3>3
    <3> HIDE DEF t
    <3>7. chars' \in Seq(Characters) /\ Written(m + 1)'
      BY <1>1, <1>3, <1>4, <3>4, <3>5, <3>6, OneGroupMore
    <3>8. m + 1 \in 0 .. Len(key) /\ 3 * (m + 1) - 2 <= Len(key) /\ Len(key) <= 3 * (m + 1)
      BY <1>3, <1>4, <2>2
    <3> QED  BY <1>1, <3>7, <3>8 DEF Encoded
  <2>3. CASE taken + 2 = Len(key)
    <3> DEFINE t == <<g[1], g[2], g[3], Pad>>
    <3>1. rest = <<Eight(3 * m + 1), Eight(3 * m + 2)>>
      <4>1. rest = <<key[taken + 1], key[taken + 2]>>
        BY <1>1, <1>4, <2>3, Slices DEF KeyTypeOK
      <4> QED  BY <1>3, <1>4, <2>3, <4>1 DEF Eight
    <3>2. Eight(3 * m + 3) = 0
      BY <1>3, <1>4, <2>3 DEF Eight
    <3>3. EncodeRest(rest) = t
      BY <1>5, <3>1, <3>2, EncodeTwo DEF Triple
    <3>4. t \in Seq(Characters) /\ Len(t) = 4
      <4> HIDE DEF g
      <4> QED  BY <1>6
    <3>5. \A j \in 1 .. 4 :
              t[j] = IF 3 * m + j <= Len(key) + 1 THEN Groups(Triple(m))[j] ELSE Pad
      <4>1. 3 * m + 2 = Len(key)
        BY <1>3, <2>3
      <4> HIDE DEF g
      <4>2. \A j \in 1 .. 4 : t[j] = IF 3 * m + j <= Len(key) + 1 THEN g[j] ELSE Pad
        BY <1>4, <4>1
      <4> QED  BY <4>2 DEF g
    <3>6. chars' = chars \o t
      BY <1>1, <3>3
    <3> HIDE DEF t
    <3>7. chars' \in Seq(Characters) /\ Written(m + 1)'
      BY <1>1, <1>3, <1>4, <3>4, <3>5, <3>6, OneGroupMore
    <3>8. m + 1 \in 0 .. Len(key) /\ 3 * (m + 1) - 2 <= Len(key) /\ Len(key) <= 3 * (m + 1)
      BY <1>3, <1>4, <2>3
    <3> QED  BY <1>1, <3>7, <3>8 DEF Encoded
  <2> QED  BY <1>1, <1>2, <1>4, <2>1, <2>2, <2>3
<1>8. KeyTypeOK'
  BY <1>1, <1>7 DEF KeyTypeOK, Characters
<1>9. Decoding'
  <2>1. Len(chars') \in Nat /\ 0 \in 0 .. Len(key')
    BY <1>1, <1>4, <1>7, LenProperties
  <2> QED  BY <1>1, <1>4, <2>1 DEF Decoding
<1> QED  BY <1>1, <1>7, <1>8, <1>9 DEF CodecInv

\* Where the decoder is at a group: whether it finds all four of its characters.
LEMMA GroupTaken ==
  ASSUME KeyTypeOK, NEW m \in Nat, NEW n \in Nat, Written(n), m <= n,
         3 * n - 2 <= Len(key), Len(key) <= 3 * n
  PROVE  \A j \in 1 .. 4 : InAlphabet(4 * m + j) <=> m < n /\ 3 * m + j <= Len(key) + 1
<1>1. Len(key) \in Nat /\ DOMAIN chars = 1 .. Len(chars) /\ Len(chars) = 4 * n
  BY LenProperties DEF KeyTypeOK, Written
<1> SUFFICES ASSUME NEW j \in 1 .. 4
             PROVE  InAlphabet(4 * m + j) <=> m < n /\ 3 * m + j <= Len(key) + 1
  OBVIOUS
<1>2. CASE m = n
  BY <1>1, <1>2 DEF InAlphabet
<1>3. CASE m < n
  <2>1. 4 * m + j \in DOMAIN chars /\ m \in 0 .. n - 1
    BY <1>1, <1>3
  <2>2. chars[4 * m + j] = IF 3 * m + j <= Len(key) + 1 THEN Groups(Triple(m))[j] ELSE Pad
    BY <2>1 DEF Written, GroupIs
  <2>3. Groups(Triple(m))[j] \in Sextets
    BY TripleIsOctets, GroupsAreSextets DEF Triple
  <2>4. Pad \notin Sextets
    BY DEF Pad, Sextets
  <2> QED  BY <1>3, <2>1, <2>2, <2>3, <2>4 DEF InAlphabet
<1> QED  BY <1>2, <1>3

LEMMA DecodeFourKeeps ==
  ASSUME CodecInv, DecodeFour PROVE CodecInv'
<1>1. /\ KeyTypeOK /\ stage = "decode" /\ Encoded /\ Decoding
      /\ \A k \in 1 .. 4 : InAlphabet(taken + k)
      /\ decoded' = decoded \o Bytes(SubSeq(chars, taken + 1, taken + 4))
      /\ taken' = taken + 4 /\ key' = key /\ chars' = chars /\ stage' = stage
  BY DEF CodecInv, DecodeFour
<1>2. PICK n \in 0 .. Len(key) :
          3 * n - 2 <= Len(key) /\ Len(key) <= 3 * n /\ Written(n)
  BY <1>1 DEF Encoded
<1>3. PICK m \in 0 .. Len(key) :
          /\ taken = 4 * m /\ 4 * m <= Len(chars) /\ 3 * m <= Len(key)
          /\ Len(decoded) = 3 * m
          /\ \A k \in 1 .. 3 * m : decoded[k] = key[k]
  BY <1>1 DEF Decoding
<1>4. /\ Len(key) \in Nat /\ m \in Nat /\ n \in Nat /\ Len(chars) = 4 * n /\ m <= n
      /\ key \in Seq(Octets) /\ decoded \in Seq(Octets) /\ chars \in Seq(Characters)
  <2>1. Len(key) \in Nat /\ Len(chars) = 4 * n
    BY <1>1, <1>2, LenProperties DEF KeyTypeOK, Written
  <2>2. Octet \subseteq Octets
    BY DEF KeyAssumption, Octets
  <2>3. key \in Seq(Octets)
    BY <1>1, <2>2, SeqMonotonic DEF KeyTypeOK
  <2> QED  BY <1>1, <1>2, <1>3, <2>1, <2>3 DEF KeyTypeOK, Octets, Characters
\* All four are characters of three bytes of the key.
<1>5. m < n /\ 3 * m + 3 <= Len(key)
  <2>1. InAlphabet(4 * m + 4)
    BY <1>1, <1>3
  <2>2. m < n /\ 3 * m + 4 <= Len(key) + 1
    BY <1>1, <1>2, <1>4, <2>1, GroupTaken
  <2> QED  BY <1>4, <2>2
<1> DEFINE b == <<key[3 * m + 1], key[3 * m + 2], key[3 * m + 3]>>
<1>6. key[3 * m + 1] \in Octets /\ key[3 * m + 2] \in Octets /\ key[3 * m + 3] \in Octets
  <2>1. /\ 3 * m + 1 \in 1 .. Len(key) /\ 3 * m + 2 \in 1 .. Len(key)
        /\ 3 * m + 3 \in 1 .. Len(key)
    BY <1>4, <1>5
  <2> QED  BY <1>4, <2>1, ElementOfSeq
<1>7. Triple(m) = b
  BY <1>4, <1>5 DEF Triple, Eight
<1>8. Bytes(SubSeq(chars, taken + 1, taken + 4)) = b
  <2> DEFINE g == Groups(Triple(m))
  <2>1. SubSeq(chars, taken + 1, taken + 4) =
            <<chars[4 * m + 1], chars[4 * m + 2], chars[4 * m + 3], chars[4 * m + 4]>>
    <3>1. 4 * m \in Nat /\ 4 * m + 4 <= Len(chars)
      BY <1>4, <1>5
    <3>2. SubSeq(chars, 4 * m + 1, 4 * m + 4) =
              <<chars[4 * m + 1], chars[4 * m + 2], chars[4 * m + 3], chars[4 * m + 4]>>
      BY <1>4, <3>1, Slices
    <3> QED  BY <1>3, <3>2, Zenon
  <2>2. \A j \in 1 .. 4 : chars[4 * m + j] = g[j]
    <3>1. m \in 0 .. n - 1 /\ \A j \in 1 .. 4 : 3 * m + j <= Len(key) + 1
      BY <1>4, <1>5
    <3> QED  BY <1>2, <3>1 DEF Written, GroupIs
  <2>3. g = <<g[1], g[2], g[3], g[4]>>
    BY DEF Groups
  <2> HIDE DEF g
  <2>4. SubSeq(chars, taken + 1, taken + 4) = g
    <3>1. /\ chars[4 * m + 1] = g[1] /\ chars[4 * m + 2] = g[2]
          /\ chars[4 * m + 3] = g[3] /\ chars[4 * m + 4] = g[4]
      BY <2>2
    <3> QED  BY <2>1, <2>3, <3>1, Zenon
  <2> HIDE DEF b
  <2>5. g = Groups(b)
    BY <1>7 DEF g
  <2>6. Bytes(Groups(b)) = b
    BY <1>6, BytesOfGroups DEF b
  <2> QED  BY <2>4, <2>5, <2>6, Zenon
<1>9. b \in Seq(Octets) /\ Len(b) = 3
  BY <1>6
<1>10. /\ decoded' \in Seq(Octets) /\ Len(decoded') = 3 * m + 3
       /\ \A k \in 1 .. 3 * m + 3 :
              decoded'[k] = IF k <= 3 * m THEN decoded[k] ELSE b[k - 3 * m]
  <2> HIDE DEF b
  <2>1. /\ decoded \o b \in Seq(Octets) /\ Len(decoded \o b) = Len(decoded) + Len(b)
        /\ \A k \in 1 .. Len(decoded) + Len(b) :
               (decoded \o b)[k] = IF k <= Len(decoded) THEN decoded[k] ELSE b[k - Len(decoded)]
    BY <1>4, <1>9, ConcatProperties, Zenon
  <2> QED  BY <1>1, <1>3, <1>8, <1>9, <2>1, Zenon
<1>11. \A k \in 1 .. 3 * m + 3 : decoded'[k] = key[k]
  <2> SUFFICES ASSUME NEW k \in 1 .. 3 * m + 3 PROVE decoded'[k] = key[k]
    OBVIOUS
  <2>1. CASE k <= 3 * m
    <3>1. k \in 1 .. 3 * m
      BY <1>4, <2>1
    <3> QED  BY <1>3, <1>10, <2>1, <3>1, Zenon
  <2>2. CASE k > 3 * m
    <3> DEFINE d == k - 3 * m
    <3>1. d \in 1 .. 3 /\ 3 * m + d = k /\ ~(k <= 3 * m)
      BY <1>4, <2>2
    <3>2. \A i \in 1 .. 3 : b[i] = key[3 * m + i]
      OBVIOUS
    <3> HIDE DEF b
    <3>3. decoded'[k] = b[d]
      BY <1>10, <3>1, Zenon
    <3> HIDE DEF d
    <3> QED  BY <3>1, <3>2, <3>3, Zenon
  <2> QED  BY <1>4, <2>1, <2>2
<1>12. KeyTypeOK'
  BY <1>1, <1>10 DEF KeyTypeOK, Octets
<1>13. Encoded'
  BY <1>1 DEF Encoded, Written, GroupIs, Triple, Eight
<1>14. Decoding'
  <2>1. /\ m + 1 \in 0 .. Len(key) /\ taken' = 4 * (m + 1) /\ 4 * (m + 1) <= Len(chars)
        /\ 3 * (m + 1) <= Len(key) /\ 3 * (m + 1) = 3 * m + 3
    BY <1>1, <1>3, <1>4, <1>5
  <2> QED  BY <1>1, <1>10, <1>11, <2>1 DEF Decoding
<1> QED  BY <1>1, <1>12, <1>13, <1>14 DEF CodecInv

\* What the last step takes: nothing, or the characters of one byte or of two.
LEMMA DecodeLastKeeps ==
  ASSUME CodecInv, DecodeLast PROVE CodecInv'
<1>1. /\ KeyTypeOK /\ stage = "decode" /\ Encoded /\ Decoding
      /\ key' = key /\ chars' = chars /\ taken' = taken /\ stage' = "done"
  BY DEF CodecInv, DecodeLast
<1>2. PICK i \in 0 .. 3 :
          /\ \A k \in 1 .. i : InAlphabet(taken + k)
          /\ ~InAlphabet(taken + i + 1)
          /\ decoded' = decoded \o DecodeRest(SubSeq(chars, taken + 1, taken + i))
  BY DEF DecodeLast
<1>3. PICK n \in 0 .. Len(key) :
          3 * n - 2 <= Len(key) /\ Len(key) <= 3 * n /\ Written(n)
  BY <1>1 DEF Encoded
<1>4. PICK m \in 0 .. Len(key) :
          /\ taken = 4 * m /\ 4 * m <= Len(chars) /\ 3 * m <= Len(key)
          /\ Len(decoded) = 3 * m
          /\ \A k \in 1 .. 3 * m : decoded[k] = key[k]
  BY <1>1 DEF Decoding
<1>5. /\ Len(key) \in Nat /\ m \in Nat /\ n \in Nat /\ Len(chars) = 4 * n /\ m <= n
      /\ key \in Seq(Octets) /\ decoded \in Seq(Octets) /\ chars \in Seq(Characters)
  <2>1. Len(key) \in Nat /\ Len(chars) = 4 * n
    BY <1>1, <1>3, LenProperties DEF KeyTypeOK, Written
  <2>2. Octet \subseteq Octets
    BY DEF KeyAssumption, Octets
  <2>3. key \in Seq(Octets)
    BY <1>1, <2>2, SeqMonotonic DEF KeyTypeOK
  <2> QED  BY <1>1, <1>3, <1>4, <2>1, <2>3 DEF KeyTypeOK, Octets, Characters
<1>6. \A j \in 1 .. 4 : InAlphabet(4 * m + j) <=> m < n /\ 3 * m + j <= Len(key) + 1
  BY <1>1, <1>3, <1>5, GroupTaken
\* Which characters are there says how many bytes of the key are left.
<1>7. \/ i = 0 /\ 3 * m = Len(key)
      \/ i = 2 /\ 3 * m + 1 = Len(key) /\ m < n
      \/ i = 3 /\ 3 * m + 2 = Len(key) /\ m < n
  <2>1. /\ \A k \in 1 .. i : m < n /\ 3 * m + k <= Len(key) + 1
        /\ ~(m < n /\ 3 * m + i + 1 <= Len(key) + 1)
    <3>1. i + 1 \in 1 .. 4 /\ 4 * m + (i + 1) = taken + i + 1 /\ 1 .. i \subseteq 1 .. 4
          /\ 3 * m + (i + 1) = 3 * m + i + 1
      BY <1>4, <1>5
    <3> QED  BY <1>2, <1>4, <1>6, <3>1
  <2>2. m = n \/ m < n
    BY <1>5
  <2>3. CASE m = n
    <3>1. ~(1 \in 1 .. i)
      BY <2>1, <2>3, <1>5
    <3> QED  BY <1>3, <1>4, <1>5, <2>3, <3>1
  <2>4. CASE m < n
    <3>1. 3 * m + i = Len(key) + 1 \/ i = 0
      <4>1. i = 0 \/ i \in 1 .. i
        OBVIOUS
      <4>2. i = 0 \/ 3 * m + i <= Len(key) + 1
        BY <2>1, <4>1
      <4>3. ~(3 * m + i + 1 <= Len(key) + 1)
        BY <2>1, <2>4
      <4> QED  BY <1>5, <4>2, <4>3
    <3>2. 3 * m + 1 <= Len(key)
      BY <1>3, <1>5, <2>4
    <3> QED  BY <1>5, <2>1, <2>4, <3>1, <3>2
  <2> QED  BY <2>2, <2>3, <2>4
<1> DEFINE rest == SubSeq(chars, 4 * m + 1, 4 * m + i)
           r == DecodeRest(rest)
           g == Groups(Triple(m))
<1>8. /\ Eight(3 * m + 1) \in Octets /\ Eight(3 * m + 2) \in Octets
      /\ Eight(3 * m + 3) \in Octets
  BY <1>1, <1>5, TripleIsOctets
\* The bytes of the key that are left come out of it.
<1>9. /\ r \in Seq(Octets) /\ Len(r) = Len(key) - 3 * m
      /\ \A k \in 1 .. Len(key) - 3 * m : r[k] = key[3 * m + k]
  <2>1. CASE i = 0 /\ 3 * m = Len(key)
    <3>1. 4 * m \in Nat /\ 4 * m + 0 = 4 * m
      BY <1>5
    <3>2. rest = <<>>
      BY <1>5, <2>1, <3>1, Slices
    <3>3. r = <<>>
      BY <3>2, DecodeNone
    <3> HIDE DEF r
    <3> QED  BY <1>5, <2>1, <3>3
  <2>2. CASE i = 2 /\ 3 * m + 1 = Len(key) /\ m < n
    <3>1. rest = <<chars[4 * m + 1], chars[4 * m + 2]>>
      <4>1. 4 * m \in Nat /\ 4 * m + 2 <= Len(chars)
        BY <1>5, <2>2
      <4>2. SubSeq(chars, 4 * m + 1, 4 * m + 2) = <<chars[4 * m + 1], chars[4 * m + 2]>>
        BY <1>5, <4>1, Slices
      <4> QED  BY <2>2, <4>2
    <3>2. chars[4 * m + 1] = g[1] /\ chars[4 * m + 2] = g[2]
      <4>1. m \in 0 .. n - 1 /\ \A j \in 1 .. 2 : 3 * m + j <= Len(key) + 1
        BY <1>5, <2>2
      <4>2. GroupIs(m)
        BY <1>3, <4>1 DEF Written
      <4>3. \A j \in 1 .. 4 :
               3 * m + j <= Len(key) + 1 => chars[4 * m + j] = Groups(Triple(m))[j]
        BY <4>2 DEF GroupIs
      <4> QED  BY <4>1, <4>3
    <3>3. /\ Eight(3 * m + 1) = key[3 * m + 1]
          /\ Eight(3 * m + 2) = 0 /\ Eight(3 * m + 3) = 0
      BY <1>5, <2>2 DEF Eight
    <3>4. r = <<key[3 * m + 1]>>
      <4>1. Triple(m) = <<key[3 * m + 1], 0, 0>>
        BY <3>3 DEF Triple
      <4>2. DecodeRest(<<g[1], g[2]>>) = <<key[3 * m + 1]>>
        BY <1>8, <3>3, <4>1, DecodeOne
      <4> QED  BY <3>1, <3>2, <4>2
    <3> HIDE DEF r
    <3>5. r \in Seq(Octets) /\ Len(r) = 1 /\ r[1] = key[3 * m + 1]
      BY <1>8, <3>3, <3>4
    <3>6. Len(key) - 3 * m = 1
      BY <1>5, <2>2
    <3>7. \A k \in 1 .. 1 : r[k] = key[3 * m + k]
      BY <3>5
    <3> QED  BY <3>5, <3>6, <3>7, Zenon
  <2>3. CASE i = 3 /\ 3 * m + 2 = Len(key) /\ m < n
    <3>1. rest = <<chars[4 * m + 1], chars[4 * m + 2], chars[4 * m + 3]>>
      <4>1. 4 * m \in Nat /\ 4 * m + 3 <= Len(chars)
        BY <1>5, <2>3
      <4>2. SubSeq(chars, 4 * m + 1, 4 * m + 3) =
                <<chars[4 * m + 1], chars[4 * m + 2], chars[4 * m + 3]>>
        BY <1>5, <4>1, Slices
      <4> QED  BY <2>3, <4>2
    <3>2. chars[4 * m + 1] = g[1] /\ chars[4 * m + 2] = g[2] /\ chars[4 * m + 3] = g[3]
      <4>1. m \in 0 .. n - 1 /\ \A j \in 1 .. 3 : 3 * m + j <= Len(key) + 1
        BY <1>5, <2>3
      <4>2. GroupIs(m)
        BY <1>3, <4>1 DEF Written
      <4>3. \A j \in 1 .. 4 :
               3 * m + j <= Len(key) + 1 => chars[4 * m + j] = Groups(Triple(m))[j]
        BY <4>2 DEF GroupIs
      <4> QED  BY <4>1, <4>3
    <3>3. /\ Eight(3 * m + 1) = key[3 * m + 1] /\ Eight(3 * m + 2) = key[3 * m + 2]
          /\ Eight(3 * m + 3) = 0
      BY <1>5, <2>3 DEF Eight
    <3>4. r = <<key[3 * m + 1], key[3 * m + 2]>>
      <4>1. Triple(m) = <<key[3 * m + 1], key[3 * m + 2], 0>>
        BY <3>3 DEF Triple
      <4>2. DecodeRest(<<g[1], g[2], g[3]>>) = <<key[3 * m + 1], key[3 * m + 2]>>
        BY <1>8, <3>3, <4>1, DecodeTwo
      <4> QED  BY <3>1, <3>2, <4>2
    <3> HIDE DEF r
    <3>5. /\ r \in Seq(Octets) /\ Len(r) = 2
          /\ r[1] = key[3 * m + 1] /\ r[2] = key[3 * m + 2]
      BY <1>8, <3>3, <3>4
    <3>6. Len(key) - 3 * m = 2
      BY <1>5, <2>3
    <3>7. \A k \in 1 .. 2 : r[k] = key[3 * m + k]
      BY <3>5
    <3> QED  BY <3>5, <3>6, <3>7, Zenon
  <2> QED  BY <1>7, <2>1, <2>2, <2>3
<1>10. decoded' \in Seq(Octets) /\ decoded' = key
  <2>1. decoded' = decoded \o r
    BY <1>2, <1>4
  <2> HIDE DEF r
  <2>2. /\ decoded \o r \in Seq(Octets) /\ Len(decoded \o r) = Len(decoded) + Len(r)
        /\ \A k \in 1 .. Len(decoded) + Len(r) :
               (decoded \o r)[k] = IF k <= Len(decoded) THEN decoded[k] ELSE r[k - Len(decoded)]
    BY <1>5, <1>9, ConcatProperties, Zenon
  <2>3. Len(decoded) + Len(r) = Len(key) /\ Len(decoded) = 3 * m
    BY <1>4, <1>5, <1>9
  <2>4. ASSUME NEW k \in 1 .. Len(key) PROVE (decoded \o r)[k] = key[k]
    <3>1. (decoded \o r)[k] = IF k <= 3 * m THEN decoded[k] ELSE r[k - 3 * m]
      BY <2>2, <2>3, Zenon
    <3>2. CASE k <= 3 * m
      <4>1. k \in 1 .. 3 * m
        BY <1>5, <3>2
      <4> QED  BY <1>4, <3>1, <3>2, <4>1, Zenon
    <3>3. CASE ~(k <= 3 * m)
      <4>1. k - 3 * m \in 1 .. Len(key) - 3 * m /\ 3 * m + (k - 3 * m) = k
        BY <1>5, <3>3
      <4> DEFINE d == k - 3 * m
      <4>2. r[d] = key[3 * m + d]
        BY <1>9, <4>1
      <4> QED  BY <3>1, <3>3, <4>1, <4>2, Zenon
    <3> QED  BY <3>2, <3>3
  <2>5. Len(decoded \o r) = Len(key)
    BY <2>2, <2>3, Zenon
  <2>6. decoded \o r = key
    BY ONLY <1>5, <2>2, <2>4, <2>5, SeqEqual
  <2> QED  BY <1>5, <2>1, <2>6, Zenon
<1>11. KeyTypeOK'
  BY <1>1, <1>10 DEF KeyTypeOK, Octets
<1>12. Encoded'
  BY <1>1 DEF Encoded, Written, GroupIs, Triple, Eight
<1> QED  BY <1>1, <1>10, <1>11, <1>12 DEF CodecInv

LEMMA ForgetKeeps ==
  ASSUME CodecInv, Forget PROVE CodecInv'
<1>1. KeyTypeOK'
  BY EmptySeq DEF Forget, KeyTypeOK
<1> QED  BY <1>1 DEF Forget, CodecInv

LEMMA IdleKeeps ==
  ASSUME CodecInv, UNCHANGED coder PROVE CodecInv'
<1>1. /\ key' = key /\ chars' = chars /\ decoded' = decoded /\ taken' = taken
      /\ stage' = stage
  BY DEF coder
<1>2. \A n : Triple(n)' = Triple(n) /\ (GroupIs(n)' <=> GroupIs(n))
  BY <1>1 DEF GroupIs, Triple, Eight
<1>3. (Encoding' <=> Encoding) /\ (Encoded' <=> Encoded) /\ (Decoding' <=> Decoding)
  BY <1>1, <1>2 DEF Encoding, Encoded, Decoding, Written
<1>4. KeyTypeOK'
  BY <1>1 DEF CodecInv, KeyTypeOK
<1> QED  BY <1>1, <1>3, <1>4 DEF CodecInv

\* Keys of every length up to MaxKey and of any bytes: the loops of encoder and decoder
\* keep to the groups of Base64.
THEOREM CodecInvariant == KeySpec => []CodecInv
<1>1. KeyInit => CodecInv
  BY CodecInit
<1>2. CodecInv /\ [KeyNext]_coder => CodecInv'
  BY GenerateKeeps, EncodeThreeKeeps, EncodeLastKeeps, DecodeFourKeeps, DecodeLastKeeps,
     ForgetKeeps, IdleKeeps DEF KeyNext
<1> QED  BY <1>1, <1>2, PTL DEF KeySpec

-----------------------------------------------------------------------------
\* What the invariant says of the end

LEMMA EndIsBase64 ==
  ASSUME CodecInv PROVE KeyIsKept
<1> SUFFICES ASSUME stage = "done"
             PROVE  /\ decoded = key
                    /\ \E p \in 0 .. 2 : Padded(p)
                    /\ \A n \in 0 .. Len(chars) : 4 * n < Len(chars) => InOrder(n)
  BY DEF KeyIsKept
<1>1. KeyTypeOK /\ Encoded /\ decoded = key
  BY DEF CodecInv
<1>2. PICK m \in 0 .. Len(key) :
          3 * m - 2 <= Len(key) /\ Len(key) <= 3 * m /\ Written(m)
  BY <1>1 DEF Encoded
<1>3. Len(key) \in Nat /\ m \in Nat /\ Len(chars) = 4 * m /\ DOMAIN chars = 1 .. 4 * m
  BY <1>1, <1>2, LenProperties DEF KeyTypeOK, Written
<1> DEFINE p == 3 * m - Len(key)
<1>4. p \in 0 .. 2 /\ 3 * Len(chars) = 4 * (Len(key) + p)
  BY <1>2, <1>3
\* Character j of group n.
<1>5. ASSUME NEW n \in 0 .. m - 1, NEW j \in 1 .. 4
      PROVE  /\ chars[4 * n + j] =
                    IF 3 * n + j <= Len(key) + 1 THEN Groups(Triple(n))[j] ELSE Pad
             /\ Groups(Triple(n))[j] \in Sextets
  <2>1. n \in Nat
    BY <1>3
  <2> QED  BY <1>1, <1>2, <2>1, TripleIsOctets, GroupsAreSextets DEF Written, GroupIs, Triple
<1>6. Padded(p)
  <2>1. ASSUME NEW k \in 1 .. 4 * m
        PROVE  IF k > 4 * m - p THEN chars[k] = Pad ELSE chars[k] \in Sextets
    <3> DEFINE n == (k - 1) \div 4
               j == k - 4 * n
    <3>1. n \in 0 .. m - 1 /\ j \in 1 .. 4 /\ k = 4 * n + j
      BY <1>3
    <3> HIDE DEF n, j
    <3>2. k > 4 * m - p <=> ~(3 * n + j <= Len(key) + 1)
      BY <1>2, <1>3, <1>4, <3>1
    <3> HIDE DEF p
    <3> QED  BY <1>5, <3>1, <3>2
  <2> HIDE DEF p
  <2> QED  BY <1>3, <1>4, <2>1 DEF Padded, Sextets
<1>7. ASSUME NEW n \in 0 .. m - 1 PROVE InOrder(n)
  <2> DEFINE g == Groups(Triple(n))
  <2>1. n \in Nat
    BY <1>3
  <2>2. /\ Eight(3 * n + 1) \in Octets /\ Eight(3 * n + 2) \in Octets
        /\ Eight(3 * n + 3) \in Octets
    BY <1>1, <2>1, TripleIsOctets
  <2>3. ((g[1] * 64 + g[2]) * 64 + g[3]) * 64 + g[4]
        = (Eight(3 * n + 1) * 256 + Eight(3 * n + 2)) * 256 + Eight(3 * n + 3)
    BY <2>2, GroupsInOrder DEF Triple
  \* Where padding stands, the group has zeros.
  <2>4. \A j \in 1 .. 4 : ~(3 * n + j <= Len(key) + 1) => g[j] = 0
    <3>1. 3 * n + 1 <= Len(key)
      BY <1>2, <1>3
    <3>2. 3 * n + 3 > Len(key) + 1 => Eight(3 * n + 2) = 0 /\ Eight(3 * n + 3) = 0
      BY <1>3, <3>1 DEF Eight
    <3>3. 3 * n + 4 > Len(key) + 1 => Eight(3 * n + 3) = 0
      BY <1>3, <3>1 DEF Eight
    <3>4. /\ g[3] = (Eight(3 * n + 2) % 16) * 4 + (Eight(3 * n + 3) \div 64)
          /\ g[4] = Eight(3 * n + 3) % 64
      BY DEF Groups, Triple
    <3> HIDE DEF g
    <3> QED  BY <1>3, <3>1, <3>2, <3>3, <3>4
  <2>5. \A j \in 1 .. 4 : Six(4 * n + j) = g[j]
    <3> SUFFICES ASSUME NEW j \in 1 .. 4 PROVE Six(4 * n + j) = g[j]
      OBVIOUS
    <3>1. Pad \notin Sextets
      BY DEF Pad, Sextets
    <3>2. /\ chars[4 * n + j] = IF 3 * n + j <= Len(key) + 1 THEN g[j] ELSE Pad
          /\ g[j] \in Sextets
      BY <1>5
    <3> HIDE DEF g
    <3> QED  BY <2>4, <3>1, <3>2, Zenon DEF Six
  <2>6. /\ Six(4 * n + 1) = g[1] /\ Six(4 * n + 2) = g[2]
        /\ Six(4 * n + 3) = g[3] /\ Six(4 * n + 4) = g[4]
    BY <2>5
  <2> HIDE DEF g
  <2> QED  BY <2>3, <2>6, Zenon DEF InOrder
<1>8. \A n \in 0 .. Len(chars) : 4 * n < Len(chars) => n \in 0 .. m - 1
  BY <1>3
<1> HIDE DEF p
<1> QED  BY <1>1, <1>4, <1>6, <1>7, <1>8, Zenon

\* The AES key the server has is the one the client has generated, whatever its bytes and its
\* length, and on the way it is Base64: base64_encode and base64_decode of KeyGuard.
THEOREM KeysAreKept == KeySpec => []KeyIsKept
BY CodecInvariant, EndIsBase64, PTL
=============================================================================
