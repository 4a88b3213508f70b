-------------------------- MODULE JsonStringProofs --------------------------
(***************************************************************************)
(* Proofs about JsonString for every set of bytes that a text may be made  *)
(* of: dump_escaped accepts each string that the scanner has accepted, it  *)
(* decodes the character that the text says, the scanner refuses what is   *)
(* not UTF-8 and nothing else, and what is dumped is parsed to what it was.*)
(*                                                                         *)
(* The two know UTF-8 in different forms, ranges of the bytes to come on   *)
(* one side and a state of the decoder on the other; Pending says which    *)
(* state goes with which ranges.  ReadInv says, by the place where the     *)
(* scanner is, what has been read and what has been decoded of it.  Replay *)
(* says of a text that was dumped that it has one of the four forms that   *)
(* dump_escaped writes and that the scanner is within it.                  *)
(***************************************************************************)
EXTENDS JsonString, TLAPS, SequenceTheorems

\* The range of most bytes that follow.
Any == <<128, 191>>

\* What is still to be scanned of a character when the decoder is in state s.
Pending(t, s) ==
    \/ t = <<Any>> /\ s = 2
    \/ t = <<Any, Any>> /\ s = 3
    \/ t = << <<160, 191>>, Any>> /\ s = 4
    \/ t = << <<128, 159>>, Any>> /\ s = 5
    \/ t = << <<144, 191>>, Any, Any>> /\ s = 6
    \/ t = <<Any, Any, Any>> /\ s = 7
    \/ t = << <<128, 143>>, Any, Any>> /\ s = 8

\* Four digits of a hexadecimal number, left of them missing.
DigitsRead ==
    /\ number \in Int /\ 0 <= number
    /\ left \in 1 .. 4
    /\ left = 4 => number = 0
    /\ left = 3 => number <= 15
    /\ left = 2 => number <= 255
    /\ left = 1 => number <= 4095

\* What is kept of a high surrogate.
HighRead == high = 0 \/ (high \in Int /\ IsHigh(high))

\* What has been read or will be is bytes.
BytesRead == input \in Seq(UInt8) /\ token \in Seq(UInt8) /\ codepoint \in Nat

\* The decoder of dump_escaped is where the scanner is.
InStep ==
    /\ at = "bytes" => Pending(todo, state)
    /\ at \notin {"bytes", "error"} => state = 0
    /\ at = "error" => state # Reject
    /\ at = "hex" => DigitsRead
    /\ at \in {"backslash", "u"} => number = 0

\* What the steps keep.
StringInv == BytesRead /\ HighRead /\ InStep

\* The first byte of a character of several bytes: the ranges that the scanner expects
\* are those of the state that the decoder goes to.
LEMMA LeadOfTwo ==
    ASSUME NEW b \in Int, 194 <= b, b <= 223
    PROVE  Ranges(b) = <<Any>> /\ Class(b) = 2
<1>1. Ranges(b) = <<Any>>
  <2>1. /\ b \in 194 .. 223 /\ b # 224 /\ b \notin ((225 .. 239) \ {237})
        /\ b # 237 /\ b # 240 /\ b \notin 241 .. 243 /\ b # 244
    OBVIOUS
  <2> QED BY <2>1, Z3 DEF Ranges, Any
<1>2. Class(b) = 2
  BY SMT DEF Class
<1> QED BY <1>1, <1>2

\* A byte that begins a character of several bytes, and the state after it.
LEMMA LeadingByte ==
    ASSUME NEW b \in 0 .. 256, Ranges(b) # <<>>
    PROVE  /\ b \in 194 .. 244
           /\ Pending(Ranges(b), Follows(0, Class(b)))
<1>1. b \in 194 .. 244
  BY SMT DEF Ranges
<1>2. CASE 194 <= b /\ b <= 223
  <2>1. Ranges(b) = <<Any>> /\ Class(b) = 2
    BY <1>2, LeadOfTwo
  <2>2. Follows(0, Class(b)) = 2
    BY <2>1, SMT DEF Follows
  <2> QED BY <1>1, <2>1, <2>2 DEF Pending
<1>3. CASE b = 224
  <2>1. Ranges(b) = << <<160, 191>>, Any>>
    BY <1>3, SMT DEF Ranges, Any
  <2>2. Follows(0, Class(b)) = 4
    BY <1>3, SMT DEF Follows, Class
  <2> QED BY <1>1, <2>1, <2>2 DEF Pending
<1>4. CASE b \in (225 .. 239) \ {237}
  <2>1. Ranges(b) = <<Any, Any>>
    BY <1>4, Z3T(60) DEF Ranges, Any
  <2>2. Follows(0, Class(b)) = 3
    <3>1. Class(b) = 3
      BY <1>4, Z3 DEF Class
    <3> QED BY <3>1, SMT DEF Follows
  <2> QED BY <1>1, <2>1, <2>2 DEF Pending
<1>5. CASE b = 237
  <2>1. Ranges(b) = << <<128, 159>>, Any>>
    BY <1>5, SMT DEF Ranges, Any
  <2>2. Follows(0, Class(b)) = 5
    BY <1>5, SMT DEF Follows, Class
  <2> QED BY <1>1, <2>1, <2>2 DEF Pending
<1>6. CASE b = 240
  <2>1. Ranges(b) = << <<144, 191>>, Any, Any>>
    BY <1>6, SMT DEF Ranges, Any
  <2>2. Follows(0, Class(b)) = 6
    BY <1>6, SMT DEF Follows, Class
  <2> QED BY <1>1, <2>1, <2>2 DEF Pending
<1>7. CASE b \in 241 .. 243
  <2>1. Ranges(b) = <<Any, Any, Any>>
    BY <1>7, SMT DEF Ranges, Any
  <2>2. Follows(0, Class(b)) = 7
    BY <1>7, SMT DEF Follows, Class
  <2> QED BY <1>1, <2>1, <2>2 DEF Pending
<1>8. CASE b = 244
  <2>1. Ranges(b) = << <<128, 143>>, Any, Any>>
    BY <1>8, SMT DEF Ranges, Any
  <2>2. Follows(0, Class(b)) = 8
    BY <1>8, SMT DEF Follows, Class
  <2> QED BY <1>1, <2>1, <2>2 DEF Pending
<1> QED BY <1>1, <1>2, <1>3, <1>4, <1>5, <1>6, <1>7, <1>8

\* A byte in the first range leads to the state that goes with the other ranges, or
\* to state 0 if there are none.
LEMMA FollowingByte ==
    ASSUME NEW t, NEW s \in 0 .. 8, Pending(t, s),
           NEW b \in 0 .. 256, b \in Head(t)[1] .. Head(t)[2]
    PROVE  /\ b \in 128 .. 191
           /\ IF Tail(t) = <<>> THEN Follows(s, Class(b)) = 0
              ELSE Pending(Tail(t), Follows(s, Class(b)))
<1>1. CASE t = <<Any>> /\ s = 2
  <2>1. Tail(t) = <<>> /\ b \in 128 .. 191
    BY <1>1 DEF Any
  <2>2. Follows(s, Class(b)) = 0
    BY <1>1, <2>1, SMT DEF Follows, Class
  <2> QED BY <2>1, <2>2
<1>2. CASE t = <<Any, Any>> /\ s = 3
  <2>1. Tail(t) = <<Any>> /\ Tail(t) # <<>> /\ b \in 128 .. 191
    BY <1>2 DEF Any
  <2>2. Follows(s, Class(b)) = 2
    BY <1>2, <2>1, SMT DEF Follows, Class
  <2>3. Pending(<<Any>>, 2)
    BY DEF Pending
  <2> QED BY <2>1, <2>2, <2>3
<1>3. CASE t = << <<160, 191>>, Any>> /\ s = 4
  <2>1. Tail(t) = <<Any>> /\ Tail(t) # <<>> /\ b \in 128 .. 191 /\ b \in 160 .. 191
    BY <1>3 DEF Any
  <2>2. Follows(s, Class(b)) = 2
    BY <1>3, <2>1, SMT DEF Follows, Class
  <2>3. Pending(<<Any>>, 2)
    BY DEF Pending
  <2> QED BY <2>1, <2>2, <2>3
<1>4. CASE t = << <<128, 159>>, Any>> /\ s = 5
  <2>1. Tail(t) = <<Any>> /\ Tail(t) # <<>> /\ b \in 128 .. 191 /\ b \in 128 .. 159
    BY <1>4 DEF Any
  <2>2. Follows(s, Class(b)) = 2
    BY <1>4, <2>1, SMT DEF Follows, Class
  <2>3. Pending(<<Any>>, 2)
    BY DEF Pending
  <2> QED BY <2>1, <2>2, <2>3
<1>5. CASE t = << <<144, 191>>, Any, Any>> /\ s = 6
  <2>1. Tail(t) = <<Any, Any>> /\ Tail(t) # <<>> /\ b \in 128 .. 191 /\ b \in 144 .. 191
    BY <1>5 DEF Any
  <2>2. Follows(s, Class(b)) = 3
    BY <1>5, <2>1, SMT DEF Follows, Class
  <2>3. Pending(<<Any, Any>>, 3)
    BY DEF Pending
  <2> QED BY <2>1, <2>2, <2>3
<1>6. CASE t = <<Any, Any, Any>> /\ s = 7
  <2>1. Tail(t) = <<Any, Any>> /\ Tail(t) # <<>> /\ b \in 128 .. 191
    BY <1>6 DEF Any
  <2>2. Follows(s, Class(b)) = 3
    BY <1>6, <2>1, SMT DEF Follows, Class
  <2>3. Pending(<<Any, Any>>, 3)
    BY DEF Pending
  <2> QED BY <2>1, <2>2, <2>3
<1>7. CASE t = << <<128, 143>>, Any, Any>> /\ s = 8
  <2>1. Tail(t) = <<Any, Any>> /\ Tail(t) # <<>> /\ b \in 128 .. 191 /\ b \in 128 .. 143
    BY <1>7 DEF Any
  <2>2. Follows(s, Class(b)) = 3
    BY <1>7, <2>1, SMT DEF Follows, Class
  <2>3. Pending(<<Any, Any>>, 3)
    BY DEF Pending
  <2> QED BY <2>1, <2>2, <2>3
<1> QED BY <1>1, <1>2, <1>3, <1>4, <1>5, <1>6, <1>7 DEF Pending

-----------------------------------------------------------------------------
\* One byte, or those of one code point, in dump_escaped

\* The range of each helper of the decoder.
LEMMA ClassType ==
    ASSUME NEW b \in Int, 0 <= b, b <= 255
    PROVE  Class(b) \in 0 .. 11
BY SMT DEF Class

LEMMA DecodeStateType ==
    ASSUME NEW s \in 0 .. 8, NEW b \in Int, 0 <= b, b <= 255
    PROVE  DecodeState(s, b) \in 0 .. 8
<1>1. PICK t \in 0 .. 11 : t = Class(b)
  BY ClassType
<1> QED BY <1>1, SMT DEF DecodeState, Follows, Reject

LEMMA DecodePointType ==
    ASSUME NEW s, NEW cp \in Nat, NEW b \in Int, 0 <= b, b <= 255
    PROVE  DecodePoint(s, cp, b) \in Nat
<1>1. PICK t \in 0 .. 11 : t = Class(b)
  BY ClassType
<1>2. PICK m \in Nat \ {0} : m = LeadMask(Class(b))
  <2>1. LeadMask(t) \in Nat \ {0}
    BY SMT DEF LeadMask
  <2> QED BY <1>1, <2>1
<1>3. b % m \in Nat /\ cp * 64 + (b % 64) \in Nat
  BY <1>2
<1> QED BY <1>2, <1>3, SMT DEF DecodePoint

\* The classes of the bytes behind a leading byte.
LEMMA ContinuationClass ==
    ASSUME NEW b \in Int, 128 <= b, b <= 191
    PROVE  /\ Class(b) \in {1, 7, 9}
           /\ b >= 160 => Class(b) = 7
           /\ b <= 159 => Class(b) \in {1, 9}
           /\ b >= 144 => Class(b) \in {7, 9}
           /\ b <= 143 => Class(b) = 1
<1>1. CASE b <= 143
  BY <1>1, SMT DEF Class
<1>2. CASE 144 <= b /\ b <= 159
  BY <1>2, SMT DEF Class
<1>3. CASE 160 <= b
  BY <1>3, SMT DEF Class
<1> QED BY <1>1, <1>2, <1>3

\* The classes of the leading bytes of three and of four.
LEMMA LeadOfThree ==
    ASSUME NEW b \in Int, 224 <= b, b <= 239
    PROVE  Class(b) = (IF b = 224 THEN 10 ELSE IF b = 237 THEN 4 ELSE 3)
<1>1. CASE b = 224
  BY <1>1, SMT DEF Class
<1>2. CASE b = 237
  BY <1>2, SMT DEF Class
<1>3. CASE b \in 225 .. 236
  BY <1>3, Z3 DEF Class
<1>4. CASE b \in {238, 239}
  BY <1>4, SMT DEF Class
<1> QED BY <1>1, <1>2, <1>3, <1>4

LEMMA LeadOfFour ==
    ASSUME NEW b \in Int, 240 <= b, b <= 244
    PROVE  Class(b) = (IF b = 240 THEN 11 ELSE IF b = 244 THEN 5 ELSE 6)
<1>1. CASE b = 240
  BY <1>1, SMT DEF Class
<1>2. CASE b = 244
  BY <1>2, SMT DEF Class
<1>3. CASE b \in 241 .. 243
  BY <1>3, SMT DEF Class
<1> QED BY <1>1, <1>2, <1>3

\* Whole characters of one to four bytes are accepted.
LEMMA AcceptsOne ==
    ASSUME NEW b \in Int, 0 <= b, b <= 127
    PROVE  DecodeState(0, b) = 0
<1>1. Class(b) = 0
  BY SMT DEF Class
<1> QED BY <1>1, SMT DEF DecodeState, Follows

LEMMA AcceptsLast ==
    ASSUME NEW b \in Int, 128 <= b, b <= 191
    PROVE  DecodeState(2, b) = 0 /\ DecodeState(3, b) = 2
BY ContinuationClass, SMT DEF DecodeState, Follows

LEMMA AcceptsTwo ==
    ASSUME NEW b1 \in Int, 194 <= b1, b1 <= 223
    PROVE  DecodeState(0, b1) = 2
BY LeadOfTwo, SMT DEF DecodeState, Follows

LEMMA AcceptsThree ==
    ASSUME NEW b1 \in Int, 224 <= b1, b1 <= 239,
           NEW b2 \in Int, 128 <= b2, b2 <= 191,
           b1 = 224 => b2 >= 160, b1 = 237 => b2 <= 159
    PROVE  DecodeState(0, b1) \in 3 .. 5 /\ DecodeState(DecodeState(0, b1), b2) = 2
<1>1. Class(b1) = (IF b1 = 224 THEN 10 ELSE IF b1 = 237 THEN 4 ELSE 3)
  BY LeadOfThree
<1>2. DecodeState(0, b1) = (IF b1 = 224 THEN 4 ELSE IF b1 = 237 THEN 5 ELSE 3)
  BY <1>1, SMT DEF DecodeState, Follows
<1>3. /\ Class(b2) \in {1, 7, 9}
      /\ b2 >= 160 => Class(b2) = 7
      /\ b2 <= 159 => Class(b2) \in {1, 9}
  BY ContinuationClass
<1>4. ASSUME NEW s \in 3 .. 5, s = 4 => Class(b2) = 7, s = 5 => Class(b2) \in {1, 9}
      PROVE  DecodeState(s, b2) = 2
  BY <1>3, <1>4, SMTT(60) DEF DecodeState, Follows
<1> QED BY <1>2, <1>3, <1>4

LEMMA AcceptsFour ==
    ASSUME NEW b1 \in Int, 240 <= b1, b1 <= 244,
           NEW b2 \in Int, 128 <= b2, b2 <= 191,
           b1 = 240 => b2 >= 144, b1 = 244 => b2 <= 143
    PROVE  DecodeState(0, b1) \in 6 .. 8 /\ DecodeState(DecodeState(0, b1), b2) = 3
<1>1. Class(b1) = (IF b1 = 240 THEN 11 ELSE IF b1 = 244 THEN 5 ELSE 6)
  BY LeadOfFour
<1>2. DecodeState(0, b1) = (IF b1 = 240 THEN 6 ELSE IF b1 = 244 THEN 8 ELSE 7)
  BY <1>1, SMT DEF DecodeState, Follows
<1>3. /\ Class(b2) \in {1, 7, 9}
      /\ b2 >= 144 => Class(b2) \in {7, 9}
      /\ b2 <= 143 => Class(b2) = 1
  BY ContinuationClass
<1>4. ASSUME NEW s \in 6 .. 8, s = 6 => Class(b2) \in {7, 9}, s = 8 => Class(b2) = 1
      PROVE  DecodeState(s, b2) = 3
  BY <1>3, <1>4, SMT DEF DecodeState, Follows
<1> QED BY <1>2, <1>3, <1>4

\* The bytes of a code point: which they are and what holds of them.
LEMMA Utf8Bytes ==
    ASSUME NEW cp, IsScalar(cp)
    PROVE  \/ /\ Utf8(cp) = <<cp>>
              /\ cp \in Int /\ 0 <= cp /\ cp <= 127
           \/ \E b1, b2 \in Int :
                 /\ Utf8(cp) = <<b1, b2>>
                 /\ 194 <= b1 /\ b1 <= 223 /\ 128 <= b2 /\ b2 <= 191
                 /\ cp = (b1 - 192) * 64 + (b2 - 128)
           \/ \E b1, b2, b3 \in Int :
                 /\ Utf8(cp) = <<b1, b2, b3>>
                 /\ 224 <= b1 /\ b1 <= 239 /\ 128 <= b2 /\ b2 <= 191 /\ 128 <= b3 /\ b3 <= 191
                 /\ b1 = 224 => b2 >= 160
                 /\ b1 = 237 => b2 <= 159
                 /\ cp = ((b1 - 224) * 64 + (b2 - 128)) * 64 + (b3 - 128)
           \/ \E b1, b2, b3, b4 \in Int :
                 /\ Utf8(cp) = <<b1, b2, b3, b4>>
                 /\ 240 <= b1 /\ b1 <= 244 /\ 128 <= b2 /\ b2 <= 191
                 /\ 128 <= b3 /\ b3 <= 191 /\ 128 <= b4 /\ b4 <= 191
                 /\ b1 = 240 => b2 >= 144
                 /\ b1 = 244 => b2 <= 143
                 /\ cp = (((b1 - 240) * 64 + (b2 - 128)) * 64 + (b3 - 128)) * 64 + (b4 - 128)
<1>0. cp \in Int /\ 0 <= cp /\ cp <= 1114111 /\ ~(55296 <= cp /\ cp <= 57343)
  BY SMT DEF IsScalar, IsHigh, IsLow
<1>1. CASE cp < 128
  <2>1. Utf8(cp) = <<cp>>
    BY <1>0, <1>1, SMT DEF Utf8
  <2> QED BY <1>0, <1>1, <2>1, SMT
<1>2. CASE 128 <= cp /\ cp <= 2047
  <2> DEFINE b1 == 192 + (cp \div 64)
             b2 == 128 + (cp % 64)
  <2>1. Utf8(cp) = <<b1, b2>>
    BY <1>0, <1>2, SMT DEF Utf8
  <2>2. b1 \in Int /\ b2 \in Int /\ 194 <= b1 /\ b1 <= 223 /\ 128 <= b2 /\ b2 <= 191
    BY <1>0, <1>2, SMT
  <2>3. cp = (b1 - 192) * 64 + (b2 - 128)
    BY <1>0, <1>2, SMT
  <2> HIDE DEF b1, b2
  <2> QED BY <2>1, <2>2, <2>3, SMT
<1>3. CASE 2048 <= cp /\ cp <= 65535
  <2> DEFINE b1 == 224 + (cp \div 4096)
             b2 == 128 + ((cp \div 64) % 64)
             b3 == 128 + (cp % 64)
  <2>1. Utf8(cp) = <<b1, b2, b3>>
    BY <1>0, <1>3, SMT DEF Utf8
  <2>2. /\ b1 \in Int /\ b2 \in Int /\ b3 \in Int
        /\ 224 <= b1 /\ b1 <= 239 /\ 128 <= b2 /\ b2 <= 191 /\ 128 <= b3 /\ b3 <= 191
    BY <1>0, <1>3, SMT
  <2>3. b1 = 224 => b2 >= 160
    BY <1>0, <1>3, SMT
  <2>4. b1 = 237 => b2 <= 159
    BY <1>0, <1>3, SMT
  <2>5. cp = ((b1 - 224) * 64 + (b2 - 128)) * 64 + (b3 - 128)
    BY <1>0, <1>3, SMT
  <2> HIDE DEF b1, b2, b3
  <2> QED BY <2>1, <2>2, <2>3, <2>4, <2>5, SMT
<1>4. CASE 65536 <= cp
  <2> DEFINE b1 == 240 + (cp \div 262144)
             b2 == 128 + ((cp \div 4096) % 64)
             b3 == 128 + ((cp \div 64) % 64)
             b4 == 128 + (cp % 64)
  <2>1. Utf8(cp) = <<b1, b2, b3, b4>>
    BY <1>0, <1>4, SMT DEF Utf8
  <2>2. /\ b1 \in Int /\ b2 \in Int /\ b3 \in Int /\ b4 \in Int
        /\ 240 <= b1 /\ b1 <= 244 /\ 128 <= b2 /\ b2 <= 191
        /\ 128 <= b3 /\ b3 <= 191 /\ 128 <= b4 /\ b4 <= 191
    BY <1>0, <1>4, SMT
  <2>3. b1 = 240 => b2 >= 144
    BY <1>0, <1>4, SMT
  <2>4. b1 = 244 => b2 <= 143
    BY <1>0, <1>4, SMT
  <2>5. cp = (((b1 - 240) * 64 + (b2 - 128)) * 64 + (b3 - 128)) * 64 + (b4 - 128)
    BY <1>0, <1>4, SMT
  <2> HIDE DEF b1, b2, b3, b4
  <2> QED BY <2>1, <2>2, <2>3, <2>4, <2>5, SMT
<1> QED BY <1>0, <1>1, <1>2, <1>3, <1>4, SMT

\* What the bytes of one character are made into, one after the other.
LEMMA AddTwo ==
    ASSUME NEW b1, NEW b2, AddAll(<<b1, b2>>)
    PROVE  LET s1 == DecodeState(state, b1)
               c1 == DecodePoint(state, codepoint, b1)
           IN /\ token' = <<b1, b2>>
              /\ state' = DecodeState(s1, b2)
              /\ codepoint' = DecodePoint(s1, c1, b2)
BY SMT DEF AddAll

LEMMA AddThree ==
    ASSUME NEW b1, NEW b2, NEW b3, AddAll(<<b1, b2, b3>>)
    PROVE  LET s1 == DecodeState(state, b1)
               c1 == DecodePoint(state, codepoint, b1)
               s2 == DecodeState(s1, b2)
               c2 == DecodePoint(s1, c1, b2)
           IN /\ token' = <<b1, b2, b3>>
              /\ state' = DecodeState(s2, b3)
              /\ codepoint' = DecodePoint(s2, c2, b3)
BY SMT DEF AddAll

LEMMA AddFour ==
    ASSUME NEW b1, NEW b2, NEW b3, NEW b4, AddAll(<<b1, b2, b3, b4>>)
    PROVE  LET s1 == DecodeState(state, b1)
               c1 == DecodePoint(state, codepoint, b1)
               s2 == DecodeState(s1, b2)
               c2 == DecodePoint(s1, c1, b2)
               s3 == DecodeState(s2, b3)
               c3 == DecodePoint(s2, c2, b3)
           IN /\ token' = <<b1, b2, b3, b4>>
              /\ state' = DecodeState(s3, b4)
              /\ codepoint' = DecodePoint(s3, c3, b4)
BY SMT DEF AddAll

\* The bytes that scan_string makes of a code point are accepted by dump_escaped.
LEMMA Utf8Accepted ==
    ASSUME NEW cp, IsScalar(cp),
           state = 0, codepoint \in Nat, AddAll(Utf8(cp))
    PROVE  token' \in Seq(UInt8) /\ state' = 0 /\ codepoint' \in Nat
<1> USE SMT
<1>1. CASE /\ Utf8(cp) = <<cp>>
           /\ cp \in Int /\ 0 <= cp /\ cp <= 127
  <2>1. /\ state' = DecodeState(0, cp)
        /\ codepoint' = DecodePoint(0, codepoint, cp)
        /\ token' = <<cp>>
    BY <1>1 DEF AddAll
  <2>2. <<cp>> \in Seq(UInt8)
    BY <1>1 DEF UInt8
  <2> QED BY <1>1, <2>1, <2>2, AcceptsOne, DecodePointType
<1>2. ASSUME NEW b1 \in Int, NEW b2 \in Int,
             Utf8(cp) = <<b1, b2>>,
             194 <= b1, b1 <= 223, 128 <= b2, b2 <= 191
      PROVE  token' \in Seq(UInt8) /\ state' = 0 /\ codepoint' \in Nat
  <2>1. PICK c \in Nat : c = DecodePoint(0, codepoint, b1)
    BY <1>2, DecodePointType
  <2>2. DecodeState(0, b1) = 2
    BY <1>2, AcceptsTwo
  <2>3. /\ state' = DecodeState(2, b2)
        /\ codepoint' = DecodePoint(2, c, b2)
        /\ token' = <<b1, b2>>
    BY <1>2, <2>1, <2>2, AddTwo
  <2>4. <<b1, b2>> \in Seq(UInt8)
    BY <1>2 DEF UInt8
  <2>5. DecodeState(2, b2) = 0 /\ DecodePoint(2, c, b2) \in Nat
    BY <1>2, AcceptsLast, DecodePointType
  <2> QED BY <2>3, <2>4, <2>5
<1>3. ASSUME NEW b1 \in Int, NEW b2 \in Int, NEW b3 \in Int,
             Utf8(cp) = <<b1, b2, b3>>,
             224 <= b1, b1 <= 239, 128 <= b2, b2 <= 191, 128 <= b3, b3 <= 191,
             b1 = 224 => b2 >= 160, b1 = 237 => b2 <= 159
      PROVE  token' \in Seq(UInt8) /\ state' = 0 /\ codepoint' \in Nat
  <2>1. PICK c1 \in Nat : c1 = DecodePoint(0, codepoint, b1)
    BY <1>3, DecodePointType
  <2>2. PICK s1 \in 3 .. 5 : s1 = DecodeState(0, b1) /\ DecodeState(s1, b2) = 2
    BY <1>3, AcceptsThree
  <2>3. PICK c2 \in Nat : c2 = DecodePoint(s1, c1, b2)
    BY <1>3, <2>1, <2>2, DecodePointType
  <2>4. /\ state' = DecodeState(2, b3)
        /\ codepoint' = DecodePoint(2, c2, b3)
        /\ token' = <<b1, b2, b3>>
    BY <1>3, <2>1, <2>2, <2>3, AddThree
  <2>5. <<b1, b2, b3>> \in Seq(UInt8)
    BY <1>3 DEF UInt8
  <2>6. DecodeState(2, b3) = 0 /\ DecodePoint(2, c2, b3) \in Nat
    BY <1>3, AcceptsLast, DecodePointType
  <2> QED BY <2>4, <2>5, <2>6
<1>4. ASSUME NEW b1 \in Int, NEW b2 \in Int, NEW b3 \in Int, NEW b4 \in Int,
             Utf8(cp) = <<b1, b2, b3, b4>>,
             240 <= b1, b1 <= 244, 128 <= b2, b2 <= 191,
             128 <= b3, b3 <= 191, 128 <= b4, b4 <= 191,
             b1 = 240 => b2 >= 144, b1 = 244 => b2 <= 143
      PROVE  token' \in Seq(UInt8) /\ state' = 0 /\ codepoint' \in Nat
  <2>1. PICK c1 \in Nat : c1 = DecodePoint(0, codepoint, b1)
    BY <1>4, DecodePointType
  <2>2. PICK s1 \in 6 .. 8 : s1 = DecodeState(0, b1) /\ DecodeState(s1, b2) = 3
    BY <1>4, AcceptsFour
  <2>3. PICK c2 \in Nat : c2 = DecodePoint(s1, c1, b2)
    BY <1>4, <2>1, <2>2, DecodePointType
  <2>4. PICK c3 \in Nat : c3 = DecodePoint(3, c2, b3)
    BY <1>4, <2>3, DecodePointType
  <2>5. DecodeState(3, b3) = 2
    BY <1>4, AcceptsLast
  <2>6. /\ state' = DecodeState(2, b4)
        /\ codepoint' = DecodePoint(2, c3, b4)
        /\ token' = <<b1, b2, b3, b4>>
    BY <1>4, <2>1, <2>2, <2>3, <2>4, <2>5, AddFour
  <2>7. <<b1, b2, b3, b4>> \in Seq(UInt8)
    BY <1>4 DEF UInt8
  <2>8. DecodeState(2, b4) = 0 /\ DecodePoint(2, c3, b4) \in Nat
    BY <1>4, AcceptsLast, DecodePointType
  <2> QED BY <2>6, <2>7, <2>8
<1> QED BY <1>1, <1>2, <1>3, <1>4, Utf8Bytes

-----------------------------------------------------------------------------
\* The invariant

\* While bytes are to come, the decoder does not reject.
LEMMA PendingState ==
    ASSUME NEW t, NEW s, Pending(t, s)
    PROVE  s \in 2 .. 8 /\ s # Reject /\ s \in 0 .. 8
BY SMT DEF Pending, Reject

\* A byte that is read: an octet, or the end of the input.
LEMMA SourceType ==
    ASSUME BytesRead, NEW b \in Source, Get(b)
    PROVE  /\ b \in Int /\ 0 <= b /\ b <= 256
           /\ input' \in Seq(UInt8)
<1>1. CASE sent = <<>>
  <2>1. b \in 0 .. Eof
    BY <1>1, ByteAssumption, Zenon DEF Source
  <2>2. b \in Int /\ 0 <= b /\ b <= 256
    BY <2>1, SMT DEF Eof
  <2>3. input' = input
    BY <1>1, Zenon DEF Get
  <2> QED BY <2>2, <2>3, Zenon DEF BytesRead
<1>2. CASE sent # <<>>
  <2>1. input # <<>> /\ b \in {Head(input)} /\ input' = Tail(input)
    BY <1>2, Zenon DEF Source, Get
  <2>2. input \in Seq(UInt8)
    BY Zenon DEF BytesRead
  <2>3. b \in UInt8 /\ input' \in Seq(UInt8)
    BY <2>1, <2>2, SMT
  <2>4. b \in Int /\ 0 <= b /\ b <= 256
    BY <2>3, SMT DEF UInt8
  <2> QED BY <2>3, <2>4, Zenon
<1> QED BY <1>1, <1>2, Zenon

\* One byte more of a character that is read as it stands.
LEMMA AddType ==
    ASSUME token \in Seq(UInt8), codepoint \in Nat, state \in 0 .. 8,
           NEW b \in Int, 0 <= b, b <= 255, Add(b)
    PROVE  /\ token' \in Seq(UInt8) /\ codepoint' \in Nat
           /\ state' = Follows(state, Class(b))
<1>1. b \in UInt8
  BY SMT DEF UInt8
<1>2. token' \in Seq(UInt8)
  BY <1>1, SMT DEF Add
<1>3. codepoint' \in Nat
  BY DecodePointType, Zenon DEF Add
<1> QED BY <1>2, <1>3, Zenon DEF Add, DecodeState

\* Giving up keeps the decoder where it is.
LEMMA FailStep ==
    ASSUME token \in Seq(UInt8), codepoint \in Nat, HighRead, state # Reject,
           input' \in Seq(UInt8), Fail
    PROVE  StringInv'
<1>1. /\ at' = "error" /\ state' = state /\ high' = high
      /\ token' = token /\ codepoint' = codepoint
  BY Zenon DEF Fail, Goto
<1>2. BytesRead' /\ HighRead'
  BY <1>1, Zenon DEF BytesRead, HighRead
<1> QED BY <1>1, <1>2, Zenon DEF InStep, StringInv

\* Each step keeps decoder and scanner in step.
LEMMA CharStep ==
    ASSUME StringInv, NEW b \in Source, Char(b)
    PROVE  StringInv'
<1>1. /\ at = "chars" /\ state = 0 /\ high' = high
      /\ token \in Seq(UInt8) /\ codepoint \in Nat /\ HighRead
  BY Zenon DEF StringInv, InStep, BytesRead, Char
<1>2. b \in Int /\ 0 <= b /\ b <= 256 /\ input' \in Seq(UInt8)
  BY SourceType, Zenon DEF StringInv, Char
<1>3. HighRead'
  BY <1>1, Zenon DEF HighRead
<1>4. CASE b = Quote /\ Goto("closed") /\ UNCHANGED <<todo, token, state, codepoint>>
  <2>1. BytesRead' /\ at' = "closed" /\ state' = 0
    BY <1>1, <1>2, <1>4, Zenon DEF BytesRead, Goto
  <2> QED BY <1>3, <2>1, Zenon DEF StringInv, InStep
<1>5. CASE b = Backslash /\ Goto("escape") /\ UNCHANGED <<todo, token, state, codepoint>>
  <2>1. BytesRead' /\ at' = "escape" /\ state' = 0
    BY <1>1, <1>2, <1>5, Zenon DEF BytesRead, Goto
  <2> QED BY <1>3, <2>1, Zenon DEF StringInv, InStep
<1>6. CASE b \in Plain /\ Add(b) /\ UNCHANGED <<at, todo>>
  <2>1. b <= 127
    BY <1>6, SMT DEF Plain
  <2>2. state' = 0
    BY <1>1, <1>2, <1>6, <2>1, AcceptsOne, Zenon DEF Add
  <2>3. BytesRead'
    <3>1. state \in 0 .. 8 /\ b <= 255
      BY <1>1, <1>2, <2>1, SMT
    <3> QED BY <1>1, <1>2, <1>6, <3>1, AddType, Zenon DEF BytesRead
  <2> QED BY <1>1, <1>3, <1>6, <2>2, <2>3, Zenon DEF StringInv, InStep
<1>7. CASE Ranges(b) # <<>> /\ Add(b) /\ todo' = Ranges(b) /\ Goto("bytes")
  <2>1. b \in 0 .. 256 /\ state \in 0 .. 8
    BY <1>1, <1>2, SMT
  <2>2. b \in 194 .. 244 /\ Pending(Ranges(b), Follows(0, Class(b)))
    BY <1>7, <2>1, LeadingByte, Zenon
  <2>3. 0 <= b /\ b <= 255
    BY <2>2, SMT
  <2>4. BytesRead' /\ state' = Follows(state, Class(b))
    BY <1>1, <1>2, <1>7, <2>1, <2>3, AddType, Zenon DEF BytesRead
  <2>5. Pending(todo', state') /\ at' = "bytes"
    BY <1>1, <1>7, <2>2, <2>4, Zenon DEF Goto
  <2> QED BY <1>3, <2>4, <2>5, Zenon DEF StringInv, InStep
<1>8. CASE Fail
  <2>1. state # Reject
    BY <1>1, SMT DEF Reject
  <2> QED BY <1>1, <1>2, <1>8, <2>1, FailStep, Zenon
<1> QED BY <1>4, <1>5, <1>6, <1>7, <1>8, Zenon DEF Char

LEMMA NextByteStep ==
    ASSUME StringInv, NEW b \in Source, NextByteInRange(b)
    PROVE  StringInv'
<1>1. /\ at = "bytes" /\ Pending(todo, state)
      /\ token \in Seq(UInt8) /\ codepoint \in Nat /\ HighRead
  BY Zenon DEF StringInv, InStep, BytesRead, NextByteInRange
<1>2. b \in Int /\ 0 <= b /\ b <= 256 /\ input' \in Seq(UInt8)
  BY SourceType, Zenon DEF StringInv, NextByteInRange
<1>3. state \in 0 .. 8 /\ state # Reject
  BY <1>1, PendingState, Zenon
<1>4. CASE /\ b \in Head(todo)[1] .. Head(todo)[2]
           /\ Add(b)
           /\ todo' = Tail(todo)
           /\ Goto(IF Tail(todo) = <<>> THEN "chars" ELSE "bytes")
           /\ UNCHANGED <<left, number, high>>
  <2>1. b \in 0 .. 256
    BY <1>2, SMT
  <2>2. /\ b \in 128 .. 191
        /\ IF Tail(todo) = <<>> THEN Follows(state, Class(b)) = 0
           ELSE Pending(Tail(todo), Follows(state, Class(b)))
    BY <1>1, <1>3, <1>4, <2>1, FollowingByte, Zenon
  <2>3. 0 <= b /\ b <= 255
    BY <2>2, SMT
  <2>4. BytesRead' /\ state' = Follows(state, Class(b))
    BY <1>1, <1>2, <1>3, <1>4, <2>3, AddType, Zenon DEF BytesRead
  <2>5. HighRead'
    BY <1>1, <1>4, Zenon DEF HighRead
  <2>6. \/ at' = "chars" /\ state' = 0
        \/ at' = "bytes" /\ Pending(todo', state')
    BY <1>4, <2>2, <2>4, Zenon DEF Goto
  <2> QED BY <2>4, <2>5, <2>6, Zenon DEF StringInv, InStep
<1>5. CASE Fail
  BY <1>1, <1>2, <1>3, <1>5, FailStep, Zenon
<1> QED BY <1>4, <1>5, Zenon DEF NextByteInRange

\* The letters of the short escapes stand for single bytes.
LEMMA SimpleType ==
    ASSUME NEW b \in DOMAIN Simple
    PROVE  /\ b \in Int /\ 0 <= b /\ b <= 127
           /\ Simple[b] \in Int /\ 0 <= Simple[b] /\ Simple[b] <= 127
<1>1. b \in {34, 92, 47, 98, 102, 110, 114, 116}
  BY Zenon DEF Simple, Quote, Backslash, Slash
<1>2. Simple[b] \in {8, 12, 10, 13, 9, b}
  BY <1>1, SMT DEF Simple, Quote, Backslash, Slash
<1> QED BY <1>1, <1>2, SMT

LEMMA EscapeStep ==
    ASSUME StringInv, NEW b \in Source, Escape(b)
    PROVE  StringInv'
<1>1. /\ at = "escape" /\ state = 0
      /\ token \in Seq(UInt8) /\ codepoint \in Nat /\ HighRead
  BY Zenon DEF StringInv, InStep, BytesRead, Escape
<1>2. input' \in Seq(UInt8)
  BY SourceType, Zenon DEF StringInv, Escape
<1>3. CASE /\ b \in DOMAIN Simple /\ Add(Simple[b])
           /\ Goto("chars") /\ UNCHANGED <<todo, left, number, high>>
  <2>1. PICK c \in Int : c = Simple[b] /\ 0 <= c /\ c <= 127
    BY <1>3, SimpleType, Zenon
  <2>2. state' = 0 /\ at' = "chars" /\ Add(c)
    BY <1>1, <1>3, <2>1, AcceptsOne, Zenon DEF Add, Goto
  <2>3. BytesRead'
    <3>1. state \in 0 .. 8 /\ c <= 255
      BY <1>1, <2>1, SMT
    <3> QED BY <1>1, <1>2, <2>1, <2>2, <3>1, AddType, Zenon DEF BytesRead
  <2>4. HighRead'
    BY <1>1, <1>3, Zenon DEF HighRead
  <2> QED BY <2>2, <2>3, <2>4, Zenon DEF StringInv, InStep
<1>4. CASE /\ b = LetterU
           /\ Goto("hex") /\ left' = 4 /\ number' = 0
           /\ UNCHANGED <<todo, high, token, state, codepoint>>
  <2>1. BytesRead' /\ HighRead' /\ at' = "hex" /\ state' = 0
    BY <1>1, <1>2, <1>4, Zenon DEF BytesRead, HighRead, Goto
  <2>2. DigitsRead'
    BY <1>4, SMT DEF DigitsRead
  <2> QED BY <2>1, <2>2, Zenon DEF StringInv, InStep
<1>5. CASE Fail
  <2>1. state # Reject
    BY <1>1, SMT DEF Reject
  <2> QED BY <1>1, <1>2, <1>5, <2>1, FailStep, Zenon
<1> QED BY <1>3, <1>4, <1>5, Zenon DEF Escape

\* A fourth digit ends a number below 2^16, and a number that is added is a character.
IsUnit(n) == n \in Int /\ 0 <= n /\ n <= 65535

\* A hex digit is below 16.
LEMMA HexValueType ==
    ASSUME NEW b \in HexDigit
    PROVE  HexValue(b) \in Int /\ 0 <= HexValue(b) /\ HexValue(b) <= 15
<1>1. CASE b \in 48 .. 57
  BY <1>1, SMT DEF HexValue
<1>2. CASE b \in 65 .. 70
  BY <1>2, SMT DEF HexValue
<1>3. CASE b \in 97 .. 102
  BY <1>3, SMT DEF HexValue
<1> QED BY <1>1, <1>2, <1>3, Zenon DEF HexDigit

\* The unit, or pair of units, that is added is a character.
LEMMA UnitAdded ==
    ASSUME HighRead, NEW n, IsUnit(n), Unit(n) = "add"
    PROVE  IsScalar(Combine(high, n))
<1>1. CASE high = 0
  <2>1. ~IsHigh(n) /\ ~IsLow(n)
    BY <1>1, SMT DEF Unit
  <2>2. Combine(high, n) = n
    BY <1>1, SMT DEF Combine
  <2> QED BY <2>1, <2>2, SMT DEF IsScalar, IsUnit
<1>2. CASE high # 0
  <2>1. high \in Int /\ IsHigh(high) /\ IsLow(n)
    <3>1. IsLow(n)
      BY <1>2, SMT DEF Unit
    <3> QED BY <1>2, <3>1, Zenon DEF HighRead
  <2>2. PICK c \in Int : c = high * 1024 + n - 56613888
    BY <2>1, SMT DEF IsUnit
  <2>3. Combine(high, n) = c
    BY <1>2, <2>2, SMT DEF Combine
  <2>4. 65536 <= c /\ c <= 1114111
    BY <2>1, <2>2, SMT DEF IsHigh, IsLow, IsUnit
  <2>5. ~IsHigh(c) /\ ~IsLow(c) /\ c \in Nat
    BY <2>4, SMT DEF IsHigh, IsLow
  <2>6. IsScalar(c)
    BY <2>4, <2>5, SMT DEF IsScalar
  <2> QED BY <2>3, <2>6, Zenon
<1> QED BY <1>1, <1>2, Zenon

LEMMA HexStep ==
    ASSUME StringInv, NEW b \in Source, Hex(b)
    PROVE  StringInv'
<1>1. /\ at = "hex" /\ state = 0 /\ DigitsRead
      /\ token \in Seq(UInt8) /\ codepoint \in Nat /\ HighRead
  BY Zenon DEF StringInv, InStep, BytesRead, Hex
<1>2. input' \in Seq(UInt8)
  BY SourceType, Zenon DEF StringInv, Hex
<1>3. CASE Fail
  <2>1. state # Reject
    BY <1>1, SMT DEF Reject
  <2> QED BY <1>1, <1>2, <1>3, <2>1, FailStep, Zenon
<1>4. CASE b \in HexDigit /\ ~Fail
  <2>1. PICK v \in Int : v = HexValue(b) /\ 0 <= v /\ v <= 15
    BY <1>4, HexValueType, Zenon
  <2>2. PICK n \in Int : n = number * 16 + v
    BY <1>1, SMT DEF DigitsRead
  <2>3. number * 16 + HexValue(b) = n
    BY <2>1, <2>2, Zenon
  <2>4. CASE /\ left > 1
             /\ number' = n /\ left' = left - 1
             /\ UNCHANGED <<at, todo, high, token, state, codepoint>>
    <3>1. DigitsRead'
      BY <1>1, <2>1, <2>2, <2>4, SMT DEF DigitsRead
    <3>2. BytesRead' /\ HighRead' /\ at' = "hex" /\ state' = 0
      BY <1>1, <1>2, <2>4, Zenon DEF BytesRead, HighRead
    <3> QED BY <3>1, <3>2, Zenon DEF StringInv, InStep
  <2>5. ASSUME left = 1
        PROVE  IsUnit(n)
    BY <1>1, <2>1, <2>2, <2>5, SMT DEF DigitsRead, IsUnit
  <2>6. CASE /\ left = 1 /\ Unit(n) = "wait"
             /\ Goto("backslash") /\ high' = n /\ left' = 0 /\ number' = 0
             /\ UNCHANGED <<todo, token, state, codepoint>>
    <3>1. IsHigh(n)
      BY <2>6, Zenon DEF Unit
    <3>2. BytesRead' /\ HighRead' /\ at' = "backslash" /\ state' = 0
      BY <1>1, <1>2, <2>6, <3>1, Zenon DEF BytesRead, HighRead, Goto
    <3> QED BY <2>6, <3>2, Zenon DEF StringInv, InStep
  <2>7. CASE /\ left = 1 /\ Unit(n) = "add"
             /\ AddAll(Utf8(Combine(high, n)))
             /\ Goto("chars") /\ high' = 0 /\ left' = 0 /\ number' = 0
             /\ UNCHANGED todo
    <3>1. IsScalar(Combine(high, n))
      <4>1. IsUnit(n) /\ Unit(n) = "add"
        BY <2>5, <2>7, Zenon
      <4> QED BY <1>1, <4>1, UnitAdded, Zenon
    <3>2. token' \in Seq(UInt8) /\ state' = 0 /\ codepoint' \in Nat
      BY <1>1, <2>7, <3>1, Utf8Accepted, Zenon
    <3>3. at' = "chars" /\ HighRead'
      BY <2>7, Zenon DEF Goto, HighRead
    <3> QED BY <1>2, <3>2, <3>3, Zenon DEF StringInv, InStep, BytesRead
  <2> QED BY <1>4, <2>3, <2>4, <2>6, <2>7, Zenon DEF Hex
<1> QED BY <1>3, <1>4, Zenon DEF Hex

LEMMA LowSurrogateStep ==
    ASSUME StringInv, NEW b \in Source, LowSurrogate(b)
    PROVE  StringInv'
<1>1. /\ at \in {"backslash", "u"} /\ state = 0 /\ number = 0
      /\ token \in Seq(UInt8) /\ codepoint \in Nat /\ HighRead
  BY Zenon DEF StringInv, InStep, BytesRead, LowSurrogate
<1>2. input' \in Seq(UInt8)
  BY SourceType, Zenon DEF StringInv, LowSurrogate
<1>3. CASE Goto("u") /\ UNCHANGED <<todo, left, number, high, token, state, codepoint>>
  <2>1. BytesRead' /\ HighRead' /\ at' = "u" /\ state' = 0 /\ number' = 0
    BY <1>1, <1>2, <1>3, Zenon DEF BytesRead, HighRead, Goto
  <2> QED BY <2>1, Zenon DEF StringInv, InStep
<1>4. CASE /\ Goto("hex") /\ left' = 4
           /\ UNCHANGED <<todo, number, high, token, state, codepoint>>
  <2>1. BytesRead' /\ HighRead' /\ at' = "hex" /\ state' = 0 /\ number' = 0
    BY <1>1, <1>2, <1>4, Zenon DEF BytesRead, HighRead, Goto
  <2>2. DigitsRead'
    BY <1>4, <2>1, SMT DEF DigitsRead
  <2> QED BY <2>1, <2>2, Zenon DEF StringInv, InStep
<1>5. CASE Fail
  <2>1. state # Reject
    BY <1>1, SMT DEF Reject
  <2> QED BY <1>1, <1>2, <1>5, <2>1, FailStep, Zenon
<1> QED BY <1>3, <1>4, <1>5, Zenon DEF LowSurrogate

\* What is dumped of a character is bytes.
LEMMA AsciiIsByte ==
    ASSUME NEW c \in Int, 0 <= c, c <= 127
    PROVE  c \in UInt8
BY SMT DEF UInt8

\* What dump_escaped writes is bytes.
LEMMA DumpType ==
    ASSUME NEW cp \in Nat, NEW bytes \in Seq(UInt8)
    PROVE  DumpEscaped(cp, bytes) \in Seq(UInt8)
<1>1. CASE cp \in {Quote, Backslash}
  <2>1. DumpEscaped(cp, bytes) = <<Backslash, cp>>
    <3>1. cp \notin {8, 9, 10, 12, 13} /\ cp \notin (0 .. 31) \ {8, 9, 10, 12, 13}
      BY <1>1, SMT DEF Quote, Backslash
    <3> QED BY <1>1, <3>1, Zenon DEF DumpEscaped
  <2>2. Backslash \in UInt8 /\ cp \in UInt8
    BY <1>1, SMT DEF UInt8, Quote, Backslash
  <2> QED BY <2>1, <2>2, SMT
<1>2. CASE cp \in {8, 9, 10, 12, 13}
  <2>1. \E b \in DOMAIN Simple : Simple[b] = cp
    <3>1. {98, 116, 110, 102, 114} \subseteq DOMAIN Simple
      BY Zenon DEF Simple
    <3>2. /\ Simple[98] = 8 /\ Simple[116] = 9 /\ Simple[110] = 10
          /\ Simple[102] = 12 /\ Simple[114] = 13
      BY <3>1, SMT DEF Simple
    <3> QED BY <1>2, <3>1, <3>2, SMT
  <2>2. PICK b \in DOMAIN Simple : b = Letter(cp)
    BY <2>1, Zenon DEF Letter
  <2>3. DumpEscaped(cp, bytes) = <<Backslash, b>>
    <3>1. cp # Quote /\ cp # Backslash
      BY <1>2, SMT DEF Quote, Backslash
    <3> QED BY <1>2, <2>2, <3>1, SMT DEF DumpEscaped
  <2>4. Backslash \in UInt8
    BY SMT DEF UInt8, Backslash
  <2>5. b \in UInt8
    BY SimpleType, AsciiIsByte, Zenon
  <2> QED BY <2>3, <2>4, <2>5, SMT
<1>3. CASE cp \in (0 .. 31) \ {8, 9, 10, 12, 13}
  <2>1. cp \notin {Quote, Backslash}
    BY <1>3, SMT DEF Quote, Backslash
  <2>2. DumpEscaped(cp, bytes) =
            <<Backslash, LetterU, 48, 48, HexOf(cp \div 16), HexOf(cp % 16)>>
    BY <1>3, <2>1, SMT DEF DumpEscaped
  <2>3. HexOf(cp \div 16) \in UInt8 /\ HexOf(cp % 16) \in UInt8
    BY <1>3, SMT DEF HexOf, UInt8
  <2>4. Backslash \in UInt8 /\ LetterU \in UInt8 /\ 48 \in UInt8
    BY SMT DEF UInt8, Backslash, LetterU
  <2> QED BY <2>2, <2>3, <2>4, SMT
<1>4. CASE cp \notin {Quote, Backslash} \cup (0 .. 31)
  <2>1. cp \notin {8, 9, 10, 12, 13}
    BY <1>4, SMT
  <2>2. DumpEscaped(cp, bytes) = bytes
    BY <1>4, <2>1, Zenon DEF DumpEscaped
  <2> QED BY <2>2, Zenon
<1> QED BY <1>1, <1>2, <1>3, <1>4, Zenon

\* Between two characters, and when the text changes.
LEMMA BetweenStep ==
    ASSUME StringInv, NextChar \/ Relay \/ Restart
    PROVE  StringInv'
<1>1. <<>> \in Seq(UInt8) /\ 0 \in Nat
  BY SMT
<1>2. CASE NextChar
  <2>1. /\ at = "chars" /\ at' = "chars" /\ state' = state /\ high' = high
        /\ input' = input /\ token' = <<>> /\ codepoint' = 0
    BY <1>2, Zenon DEF NextChar, Complete, scanner
  <2> QED BY <1>1, <2>1, Zenon DEF StringInv, InStep, BytesRead, HighRead
<1>3. CASE Relay
  <2>1. /\ at = "chars" /\ at' = "chars" /\ state' = state /\ high' = high
        /\ input' = DumpEscaped(codepoint, token) /\ token' = <<>> /\ codepoint' = 0
    BY <1>3, Zenon DEF Relay, Complete, scanner
  <2>2. input' \in Seq(UInt8)
    BY <2>1, DumpType, Zenon DEF StringInv, BytesRead
  <2> QED BY <1>1, <2>1, <2>2, Zenon DEF StringInv, InStep, BytesRead, HighRead
<1>4. CASE Restart
  BY <1>1, <1>4, Zenon DEF Restart, StringInv, InStep, BytesRead, HighRead
<1> QED BY <1>2, <1>3, <1>4, Zenon

\* Decoder and scanner stay in step.
LEMMA StringInvariant == Spec => []StringInv
<1>1. Init => StringInv
  <2>1. <<>> \in Seq(UInt8) /\ 0 \in Nat
    BY SMT
  <2> QED BY <2>1, Zenon DEF Init, StringInv, InStep, BytesRead, HighRead
<1>2. StringInv /\ [Next]_vars => StringInv'
  <2> SUFFICES ASSUME StringInv, [Next]_vars
               PROVE  StringInv'
    OBVIOUS
  <2>1. ASSUME NEW b \in Source,
               Char(b) \/ NextByteInRange(b) \/ Escape(b) \/ Hex(b) \/ LowSurrogate(b)
        PROVE  StringInv'
    BY <2>1, CharStep, NextByteStep, EscapeStep, HexStep, LowSurrogateStep, Zenon
  <2>2. CASE NextChar \/ Relay \/ Restart
    BY <2>2, BetweenStep, Zenon
  <2>3. CASE UNCHANGED vars
    <3>1. /\ at' = at /\ todo' = todo /\ left' = left /\ number' = number /\ high' = high
          /\ token' = token /\ state' = state /\ codepoint' = codepoint /\ input' = input
      BY <2>3, Zenon DEF vars, scanner
    <3>2. DigitsRead' <=> DigitsRead
      BY <3>1, SMT DEF DigitsRead
    <3> QED BY <3>1, <3>2, Zenon DEF StringInv, InStep, BytesRead, HighRead
  <2> QED BY <2>1, <2>2, <2>3, Zenon DEF Next
<1> QED BY <1>1, <1>2, PTL DEF Spec

\* dump_escaped rejects nothing that scan_string has accepted, whatever the bytes that come
\* from the network and however often a text is dumped and parsed again: oneChat and
\* groupChat never throw at a message that they have parsed.
THEOREM DumpNeverThrows == Spec => []DumpAccepts
<1>1. StringInv => DumpAccepts
  <2> SUFFICES ASSUME StringInv
               PROVE  DumpAccepts
    OBVIOUS
  <2>1. CASE at = "bytes"
    <3>1. state # Reject
      BY <2>1, PendingState, Zenon DEF StringInv, InStep
    <3> QED BY <2>1, <3>1, Zenon DEF DumpAccepts
  <2>2. CASE at = "error"
    BY <2>2, Zenon DEF DumpAccepts, StringInv, InStep
  <2>3. CASE at \notin {"bytes", "error"}
    <3>1. state = 0
      BY <2>3, Zenon DEF StringInv, InStep
    <3>2. state # Reject
      BY <3>1, SMT DEF Reject
    <3> QED BY <3>1, <3>2, Zenon DEF DumpAccepts
  <2> QED BY <2>1, <2>2, <2>3, Zenon
<1> QED BY <1>1, StringInvariant, PTL

\* The bytes that may follow leading byte b.
SecondByte(b) ==
    IF b = 224 THEN 160 .. 191 ELSE IF b = 237 THEN 128 .. 159
    ELSE IF b = 240 THEN 144 .. 191 ELSE IF b = 244 THEN 128 .. 143 ELSE 128 .. 191

-----------------------------------------------------------------------------
\* Sequences: what is appended, and what a tuple is

\* What is appended is at the end.
LEMMA Appended ==
    ASSUME NEW S, NEW t \in Seq(S), NEW b \in S
    PROVE  /\ Append(t, b) \in Seq(S) /\ Append(t, b) # <<>>
           /\ Len(Append(t, b)) = Len(t) + 1
           /\ Append(t, b)[Len(t) + 1] = b
           /\ \A i \in 1 .. Len(t) : Append(t, b)[i] = t[i]
BY AppendProperties

\* Tuples grow by one.
LEMMA AppendToOne ==
    ASSUME NEW S, NEW b \in S, NEW c \in S
    PROVE  Append(<<b>>, c) = <<b, c>>
<1> DEFINE p == <<b>>
           t == Append(p, c)
           u == <<b, c>>
<1>1. p \in Seq(S) /\ Len(p) = 1 /\ p[1] = b
  OBVIOUS
<1>2. u \in Seq(S) /\ Len(u) = 2 /\ u[1] = b /\ u[2] = c
  OBVIOUS
<1> HIDE DEF p, u
<1>3. t \in Seq(S) /\ Len(t) = 2 /\ t[1] = b /\ t[2] = c
  <2>1. /\ t \in Seq(S) /\ Len(t) = Len(p) + 1 /\ t[Len(p) + 1] = c
        /\ \A i \in 1 .. Len(p) : t[i] = p[i]
    <3>1. p \in Seq(S)
      BY <1>1
    <3> QED BY <3>1, Appended, SMT
  <2>2. 1 + 1 = 2 /\ 1 \in 1 .. 1
    BY SMT
  <2> HIDE DEF t
  <2> QED BY <1>1, <2>1, <2>2, Zenon
<1> HIDE DEF t
<1>4. Len(t) = Len(u) /\ \A i \in 1 .. Len(t) : t[i] = u[i]
  <2>1. \A i \in 1 .. 2 : i = 1 \/ i = 2
    BY SMT
  <2> QED BY <1>2, <1>3, <2>1, Zenon
<1>5. t = u
  BY <1>2, <1>3, <1>4, SeqEqual, Zenon
<1> QED BY <1>5 DEF p, t, u

LEMMA AppendToTwo ==
    ASSUME NEW S, NEW b \in S, NEW c \in S, NEW d \in S
    PROVE  Append(<<b, c>>, d) = <<b, c, d>>
<1> DEFINE p == <<b, c>>
           t == Append(p, d)
           u == <<b, c, d>>
<1>1. p \in Seq(S) /\ Len(p) = 2 /\ p[1] = b /\ p[2] = c
  OBVIOUS
<1>2. u \in Seq(S) /\ Len(u) = 3 /\ u[1] = b /\ u[2] = c /\ u[3] = d
  OBVIOUS
<1> HIDE DEF p, u
<1>3. t \in Seq(S) /\ Len(t) = 3 /\ t[1] = b /\ t[2] = c /\ t[3] = d
  <2>1. /\ t \in Seq(S) /\ Len(t) = Len(p) + 1 /\ t[Len(p) + 1] = d
        /\ \A i \in 1 .. Len(p) : t[i] = p[i]
    <3>1. p \in Seq(S)
      BY <1>1
    <3> QED BY <3>1, Appended, SMT
  <2>2. 2 + 1 = 3 /\ 1 \in 1 .. 2 /\ 2 \in 1 .. 2
    BY SMT
  <2> HIDE DEF t
  <2> QED BY <1>1, <2>1, <2>2, Zenon
<1> HIDE DEF t
<1>4. Len(t) = Len(u) /\ \A i \in 1 .. Len(t) : t[i] = u[i]
  <2>1. \A i \in 1 .. 3 : i = 1 \/ i = 2 \/ i = 3
    BY SMT
  <2> QED BY <1>2, <1>3, <2>1, Zenon
<1>5. t = u
  BY <1>2, <1>3, <1>4, SeqEqual, Zenon
<1> QED BY <1>5 DEF p, t, u

LEMMA AppendToThree ==
    ASSUME NEW S, NEW b \in S, NEW c \in S, NEW d \in S, NEW e \in S
    PROVE  Append(<<b, c, d>>, e) = <<b, c, d, e>>
<1> DEFINE p == <<b, c, d>>
           t == Append(p, e)
           u == <<b, c, d, e>>
<1>1. p \in Seq(S) /\ Len(p) = 3 /\ p[1] = b /\ p[2] = c /\ p[3] = d
  OBVIOUS
<1>2. u \in Seq(S) /\ Len(u) = 4 /\ u[1] = b /\ u[2] = c /\ u[3] = d /\ u[4] = e
  OBVIOUS
<1> HIDE DEF p, u
<1>3. t \in Seq(S) /\ Len(t) = 4 /\ t[1] = b /\ t[2] = c /\ t[3] = d /\ t[4] = e
  <2>1. /\ t \in Seq(S) /\ Len(t) = Len(p) + 1 /\ t[Len(p) + 1] = e
        /\ \A i \in 1 .. Len(p) : t[i] = p[i]
    <3>1. p \in Seq(S)
      BY <1>1
    <3> QED BY <3>1, Appended, SMT
  <2>2. 3 + 1 = 4 /\ 1 \in 1 .. 3 /\ 2 \in 1 .. 3 /\ 3 \in 1 .. 3
    BY SMT
  <2> HIDE DEF t
  <2> QED BY <1>1, <2>1, <2>2, Zenon
<1> HIDE DEF t
<1>4. Len(t) = Len(u) /\ \A i \in 1 .. Len(t) : t[i] = u[i]
  <2>1. \A i \in 1 .. 4 : i = 1 \/ i = 2 \/ i = 3 \/ i = 4
    BY SMT
  <2> QED BY <1>2, <1>3, <2>1, Zenon
<1>5. t = u
  BY <1>2, <1>3, <1>4, SeqEqual, Zenon
<1> QED BY <1>5 DEF p, t, u

-----------------------------------------------------------------------------
\* The bytes of a code point and the code point of bytes

\* The bits of a leading byte.
LEMMA LeadingBits ==
    ASSUME NEW b \in Int, 192 <= b, b <= 247
    PROVE  /\ b <= 223 => Length(b) = 2 /\ LeadBits(b) = b - 192
           /\ 224 <= b /\ b <= 239 => Length(b) = 3 /\ LeadBits(b) = b - 224
           /\ 240 <= b => Length(b) = 4 /\ LeadBits(b) = b - 240
<1>1. CASE b <= 223
  <2>1. Length(b) = 2
    BY <1>1, SMT DEF Length
  <2> QED BY <1>1, <2>1, SMT DEF LeadBits
<1>2. CASE 224 <= b /\ b <= 239
  <2>1. Length(b) = 3
    BY <1>2, SMT DEF Length
  <2> QED BY <1>2, <2>1, SMT DEF LeadBits
<1>3. CASE 240 <= b
  <2>1. Length(b) = 4
    BY <1>3, SMT DEF Length
  <2> QED BY <1>3, <2>1, SMT DEF LeadBits
<1> QED BY <1>1, <1>2, <1>3, SMT

\* The decoder takes the same bits of it.
LEMMA LeadPoint ==
    ASSUME NEW b \in Int, 194 <= b, b <= 244, NEW cp
    PROVE  DecodePoint(0, cp, b) = LeadBits(b)
<1>1. CASE b <= 223
  <2>1. Class(b) = 2
    BY <1>1, LeadOfTwo
  <2>2. LeadMask(2) = 64
    BY SMT DEF LeadMask
  <2>3. b % 64 = b - 192
    BY <1>1, SMT
  <2> QED BY <1>1, <2>1, <2>2, <2>3, LeadingBits, SMT DEF DecodePoint
<1>2. CASE b \in {224, 240}
  <2>1. Class(b) \in {10, 11}
    BY <1>2, LeadOfThree, LeadOfFour, SMT
  <2>2. LeadMask(10) = 1 /\ LeadMask(11) = 1
    BY SMT DEF LeadMask
  <2>3. b % 1 = 0
    BY SMT
  <2>4. LeadBits(b) = 0
    BY <1>2, LeadingBits, SMT
  <2> QED BY <2>1, <2>2, <2>3, <2>4, SMT DEF DecodePoint
<1>3. CASE b \in (225 .. 239) \ {237}
  <2>1. Class(b) = 3
    BY <1>3, LeadOfThree, SMT
  <2>2. LeadMask(3) = 32
    BY SMT DEF LeadMask
  <2>3. b % 32 = b - 224
    BY <1>3, SMT
  <2>4. LeadBits(b) = b - 224
    BY <1>3, LeadingBits, SMT
  <2> QED BY <2>1, <2>2, <2>3, <2>4, SMT DEF DecodePoint
<1>4. CASE b = 237
  <2>1. Class(b) = 4
    BY <1>4, LeadOfThree, SMT
  <2>2. LeadMask(4) = 16
    BY SMT DEF LeadMask
  <2>3. LeadBits(b) = 13
    BY <1>4, LeadingBits, SMT
  <2> QED BY <1>4, <2>1, <2>2, <2>3, SMT DEF DecodePoint
<1>5. CASE b \in 241 .. 243
  <2>1. Class(b) = 6
    BY <1>5, LeadOfFour, SMT
  <2>2. LeadMask(6) = 4
    BY SMT DEF LeadMask
  <2>3. b % 4 = b - 240
    BY <1>5, SMT
  <2>4. LeadBits(b) = b - 240
    BY <1>5, LeadingBits, SMT
  <2> QED BY <2>1, <2>2, <2>3, <2>4, SMT DEF DecodePoint
<1>6. CASE b = 244
  <2>1. Class(b) = 5
    BY <1>6, LeadOfFour, SMT
  <2>2. LeadMask(5) = 8
    BY SMT DEF LeadMask
  <2>3. LeadBits(b) = 4
    BY <1>6, LeadingBits, SMT
  <2> QED BY <1>6, <2>1, <2>2, <2>3, SMT DEF DecodePoint
<1> QED BY <1>1, <1>2, <1>3, <1>4, <1>5, <1>6, SMT

\* Another byte is six more bits.
LEMMA NextPoint ==
    ASSUME NEW s \in Int, s # 0, NEW cp \in Nat, NEW b \in Int, 128 <= b, b <= 191
    PROVE  DecodePoint(s, cp, b) = cp * 64 + (b - 128) /\ b % 64 = b - 128
<1>1. b % 64 = b - 128
  BY SMT
<1> QED BY <1>1, SMT DEF DecodePoint

\* What two, three or four bytes make is the bytes' code point.
LEMMA EncodesTwo ==
    ASSUME NEW b1 \in Int, 194 <= b1, b1 <= 223, NEW b2 \in Int, 128 <= b2, b2 <= 191
    PROVE  LET cp == (b1 - 192) * 64 + (b2 - 128)
           IN  IsScalar(cp) /\ 128 <= cp /\ Utf8(cp) = <<b1, b2>>
<1> DEFINE x == b1 - 192
           y == b2 - 128
<1>1. x \in 2 .. 31 /\ y \in 0 .. 63 /\ b1 = 192 + x /\ b2 = 128 + y
  OBVIOUS
<1>a. b1 - 192 = x /\ b2 - 128 = y
  OBVIOUS
<1> HIDE DEF x, y
<1> DEFINE cp == x * 64 + y
<1>2. (b1 - 192) * 64 + (b2 - 128) = cp
  BY <1>a, Zenon
<1>3. cp \div 64 = x /\ cp % 64 = y /\ 128 <= cp /\ cp <= 2047 /\ cp \in Nat
  BY <1>1
<1> HIDE DEF cp
<1>4. Utf8(cp) = <<b1, b2>>
  <2>1. Utf8(cp) = <<192 + (cp \div 64), 128 + (cp % 64)>>
    BY <1>3, SMT DEF Utf8
  <2> QED BY <1>1, <1>3, <2>1
<1>5. IsScalar(cp)
  BY <1>3, SMT DEF IsScalar, IsHigh, IsLow
<1> QED BY <1>2, <1>3, <1>4, <1>5

LEMMA EncodesThree ==
    ASSUME NEW b1 \in Int, 224 <= b1, b1 <= 239,
           NEW b2 \in Int, 128 <= b2, b2 <= 191, NEW b3 \in Int, 128 <= b3, b3 <= 191,
           b1 = 224 => b2 >= 160, b1 = 237 => b2 <= 159
    PROVE  LET cp == ((b1 - 224) * 64 + (b2 - 128)) * 64 + (b3 - 128)
           IN  IsScalar(cp) /\ 128 <= cp /\ Utf8(cp) = <<b1, b2, b3>>
<1> DEFINE x == b1 - 224
           y == b2 - 128
           z == b3 - 128
<1>1. /\ x \in 0 .. 15 /\ y \in 0 .. 63 /\ z \in 0 .. 63
      /\ b1 = 224 + x /\ b2 = 128 + y /\ b3 = 128 + z
  OBVIOUS
<1>a. b1 - 224 = x /\ b2 - 128 = y /\ b3 - 128 = z
  OBVIOUS
<1> HIDE DEF x, y, z
<1>2. (x = 0 => y >= 32) /\ (x = 13 => y <= 31)
  BY <1>1
<1> DEFINE cp == (x * 64 + y) * 64 + z
<1>3. ((b1 - 224) * 64 + (b2 - 128)) * 64 + (b3 - 128) = cp
  BY <1>a, Zenon
<1>4. /\ 2048 <= cp /\ cp <= 65535 /\ cp \in Nat
      /\ ~(55296 <= cp /\ cp <= 57343)
  BY <1>1, <1>2
<1>5. cp \div 64 = x * 64 + y /\ cp % 64 = z
  BY <1>1
<1>6. cp \div 4096 = x
  BY <1>1
<1>7. (x * 64 + y) % 64 = y
  BY <1>1
<1> HIDE DEF cp
<1>8. Utf8(cp) = <<b1, b2, b3>>
  <2>1. Utf8(cp) = <<224 + (cp \div 4096), 128 + ((cp \div 64) % 64), 128 + (cp % 64)>>
    BY <1>4, SMT DEF Utf8
  <2> QED BY <1>1, <1>5, <1>6, <1>7, <2>1
<1>9. IsScalar(cp)
  BY <1>4, SMT DEF IsScalar, IsHigh, IsLow
<1> QED BY <1>3, <1>4, <1>8, <1>9

LEMMA EncodesFour ==
    ASSUME NEW b1 \in Int, 240 <= b1, b1 <= 244,
           NEW b2 \in Int, 128 <= b2, b2 <= 191, NEW b3 \in Int, 128 <= b3, b3 <= 191,
           NEW b4 \in Int, 128 <= b4, b4 <= 191,
           b1 = 240 => b2 >= 144, b1 = 244 => b2 <= 143
    PROVE  LET cp == (((b1 - 240) * 64 + (b2 - 128)) * 64 + (b3 - 128)) * 64 + (b4 - 128)
           IN  IsScalar(cp) /\ 128 <= cp /\ Utf8(cp) = <<b1, b2, b3, b4>>
<1> DEFINE x == b1 - 240
           y == b2 - 128
           z == b3 - 128
           w == b4 - 128
<1>1. /\ x \in 0 .. 4 /\ y \in 0 .. 63 /\ z \in 0 .. 63 /\ w \in 0 .. 63
      /\ b1 = 240 + x /\ b2 = 128 + y /\ b3 = 128 + z /\ b4 = 128 + w
  OBVIOUS
<1>a. b1 - 240 = x /\ b2 - 128 = y /\ b3 - 128 = z /\ b4 - 128 = w
  OBVIOUS
<1> HIDE DEF x, y, z, w
<1>2. (x = 0 => y >= 16) /\ (x = 4 => y <= 15)
  BY <1>1
<1> DEFINE cp == ((x * 64 + y) * 64 + z) * 64 + w
<1>3. (((b1 - 240) * 64 + (b2 - 128)) * 64 + (b3 - 128)) * 64 + (b4 - 128) = cp
  BY <1>a, Zenon
<1>4. 65536 <= cp /\ cp <= 1114111 /\ cp \in Nat
  BY <1>1, <1>2
<1>5. cp \div 64 = (x * 64 + y) * 64 + z /\ cp % 64 = w
  BY <1>1
<1>6. cp \div 4096 = x * 64 + y
  BY <1>1
<1>7. cp \div 262144 = x
  BY <1>1
<1>8. (x * 64 + y) % 64 = y /\ ((x * 64 + y) * 64 + z) % 64 = z
  BY <1>1
<1> HIDE DEF cp
<1>9. Utf8(cp) = <<b1, b2, b3, b4>>
  <2>1. Utf8(cp) = <<240 + (cp \div 262144), 128 + ((cp \div 4096) % 64),
                     128 + ((cp \div 64) % 64), 128 + (cp % 64)>>
    BY <1>4, SMT DEF Utf8
  <2> QED BY <1>1, <1>5, <1>6, <1>7, <1>8, <2>1
<1>10. IsScalar(cp)
  BY <1>4, SMT DEF IsScalar, IsHigh, IsLow
<1> QED BY <1>3, <1>4, <1>9, <1>10

\* The ranges of the scanner by bytes.
LEMMA RangesAre ==
    ASSUME NEW b \in 194 .. 244
    PROVE  /\ Ranges(b) # <<>>
           /\ Head(Ranges(b))[1] .. Head(Ranges(b))[2] = SecondByte(b)
           /\ Tail(Ranges(b)) = (IF b <= 223 THEN <<>> ELSE IF b <= 239 THEN <<Any>> ELSE <<Any, Any>>)
<1>0. ASSUME NEW r, NEW rest, NEW lo, NEW hi, r = <<lo, hi>>,
             \/ rest = <<>> /\ Ranges(b) = <<r>>
             \/ rest = <<Any>> /\ Ranges(b) = <<r, Any>>
             \/ rest = <<Any, Any>> /\ Ranges(b) = <<r, Any, Any>>
      PROVE  /\ Ranges(b) # <<>> /\ Tail(Ranges(b)) = rest
             /\ Head(Ranges(b))[1] = lo /\ Head(Ranges(b))[2] = hi
  <2>1. <<lo, hi>>[1] = lo /\ <<lo, hi>>[2] = hi
    OBVIOUS
  <2>2. /\ Head(<<r>>) = r /\ Tail(<<r>>) = <<>> /\ <<r>> # <<>>
        /\ Head(<<r, Any>>) = r /\ Tail(<<r, Any>>) = <<Any>> /\ <<r, Any>> # <<>>
        /\ Head(<<r, Any, Any>>) = r /\ Tail(<<r, Any, Any>>) = <<Any, Any>> /\ <<r, Any, Any>> # <<>>
    OBVIOUS
  <2> QED BY <1>0, <2>1, <2>2, Zenon
<1>1. CASE b <= 223
  <2>1. Ranges(b) = <<Any>>
    BY <1>1, LeadOfTwo
  <2>2. /\ Ranges(b) # <<>> /\ Tail(Ranges(b)) = <<>>
        /\ Head(Ranges(b))[1] = 128 /\ Head(Ranges(b))[2] = 191
    BY <1>0, <2>1, ZenonT(60) DEF Any
  <2>3. SecondByte(b) = 128 .. 191
    BY <1>1, SMT DEF SecondByte
  <2>4. b <= 223
    BY <1>1, SMT
  <2> QED BY <2>2, <2>3, <2>4, Zenon
<1>2. CASE b = 224
  <2>1. Ranges(b) = << <<160, 191>>, Any>>
    BY <1>2, SMT DEF Ranges, Any
  <2>2. /\ Ranges(b) # <<>> /\ Tail(Ranges(b)) = <<Any>>
        /\ Head(Ranges(b))[1] = 160 /\ Head(Ranges(b))[2] = 191
    BY <1>0, <2>1, ZenonT(60)
  <2>3. SecondByte(b) = 160 .. 191
    BY <1>2, SMT DEF SecondByte
  <2>4. ~(b <= 223) /\ b <= 239
    BY <1>2, SMT
  <2> QED BY <2>2, <2>3, <2>4, ZenonT(60)
<1>3. CASE b \in (225 .. 239) \ {237}
  <2>1. Ranges(b) = <<Any, Any>>
    <3>1. /\ b \notin 194 .. 223 /\ b # 224 /\ b # 237 /\ b # 240
          /\ b \notin 241 .. 243 /\ b # 244 /\ b \in (225 .. 239) \ {237}
      BY <1>3, SMT
    <3> QED BY <3>1, Z3 DEF Ranges, Any
  <2>2. /\ Ranges(b) # <<>> /\ Tail(Ranges(b)) = <<Any>>
        /\ Head(Ranges(b))[1] = 128 /\ Head(Ranges(b))[2] = 191
    BY <1>0, <2>1, ZenonT(60) DEF Any
  <2>3. SecondByte(b) = 128 .. 191
    BY <1>3, SMT DEF SecondByte
  <2>4. ~(b <= 223) /\ b <= 239
    BY <1>3, SMT
  <2> QED BY <2>2, <2>3, <2>4, ZenonT(60)
<1>4. CASE b = 237
  <2>1. Ranges(b) = << <<128, 159>>, Any>>
    BY <1>4, SMT DEF Ranges, Any
  <2>2. /\ Ranges(b) # <<>> /\ Tail(Ranges(b)) = <<Any>>
        /\ Head(Ranges(b))[1] = 128 /\ Head(Ranges(b))[2] = 159
    BY <1>0, <2>1, Zenon
  <2>3. SecondByte(b) = 128 .. 159
    BY <1>4, SMT DEF SecondByte
  <2>4. ~(b <= 223) /\ b <= 239
    BY <1>4, SMT
  <2> QED BY <2>2, <2>3, <2>4, ZenonT(60)
<1>5. CASE b = 240
  <2>1. Ranges(b) = << <<144, 191>>, Any, Any>>
    BY <1>5, SMT DEF Ranges, Any
  <2>2. /\ Ranges(b) # <<>> /\ Tail(Ranges(b)) = <<Any, Any>>
        /\ Head(Ranges(b))[1] = 144 /\ Head(Ranges(b))[2] = 191
    BY <1>0, <2>1, ZenonT(60)
  <2>3. SecondByte(b) = 144 .. 191
    BY <1>5, SMT DEF SecondByte
  <2>4. ~(b <= 223) /\ ~(b <= 239)
    BY <1>5, SMT
  <2> QED BY <2>2, <2>3, <2>4, Zenon
<1>6. CASE b \in 241 .. 243
  <2>1. Ranges(b) = <<Any, Any, Any>>
    BY <1>6, SMT DEF Ranges, Any
  <2>2. /\ Ranges(b) # <<>> /\ Tail(Ranges(b)) = <<Any, Any>>
        /\ Head(Ranges(b))[1] = 128 /\ Head(Ranges(b))[2] = 191
    BY <1>0, <2>1, ZenonT(60) DEF Any
  <2>3. SecondByte(b) = 128 .. 191
    BY <1>6, SMT DEF SecondByte
  <2>4. ~(b <= 223) /\ ~(b <= 239)
    BY <1>6, SMT
  <2> QED BY <2>2, <2>3, <2>4, Zenon
<1>7. CASE b = 244
  <2>1. Ranges(b) = << <<128, 143>>, Any, Any>>
    BY <1>7, SMT DEF Ranges, Any
  <2>2. /\ Ranges(b) # <<>> /\ Tail(Ranges(b)) = <<Any, Any>>
        /\ Head(Ranges(b))[1] = 128 /\ Head(Ranges(b))[2] = 143
    BY <1>0, <2>1, Zenon
  <2>3. SecondByte(b) = 128 .. 143
    BY <1>7, SMT DEF SecondByte
  <2>4. ~(b <= 223) /\ ~(b <= 239)
    BY <1>7, SMT
  <2> QED BY <2>2, <2>3, <2>4, Zenon
<1> QED BY <1>1, <1>2, <1>3, <1>4, <1>5, <1>6, <1>7, SMT

\* The second byte of a character is a byte of the range above 7F, and which.
LEMMA SecondBytes ==
    ASSUME NEW b1 \in 194 .. 244, NEW b2 \in SecondByte(b1)
    PROVE  /\ b2 \in Int /\ 128 <= b2 /\ b2 <= 191
           /\ b1 = 224 => b2 >= 160
           /\ b1 = 237 => b2 <= 159
           /\ b1 = 240 => b2 >= 144
           /\ b1 = 244 => b2 <= 143
BY SMT DEF SecondByte

-----------------------------------------------------------------------------
\* What bytes a character may begin with

\* Of the numbers of n bytes, m each for a beginning, some characters begin like v.
Fits(n, v, m) == \E r \in Needing[n] : v * m <= r[2] /\ (v + 1) * m - 1 >= r[1]

\* Bytes begin a character when the numbers they leave open meet those that need as many bytes.
LEMMA BeginsFits ==
    ASSUME NEW t, NEW n, n = Length(t[1])
    PROVE  Begins(t) <=> /\ n # 0
                         /\ \A i \in 2 .. Len(t) : t[i] \in 128 .. 191
                         /\ Fits(n, Bits(t), Span(n, Len(t)))
BY Zenon DEF Begins, Fits

LEMMA FitsTwo ==
    ASSUME NEW v \in Nat, NEW m \in Nat
    PROVE  Fits(2, v, m) <=> v * m <= 2047 /\ (v + 1) * m - 1 >= 128
<1>1. Needing[2] = {<<128, 2047>>}
  BY SMT DEF Needing
<1> QED BY <1>1, SMT DEF Fits

LEMMA FitsThree ==
    ASSUME NEW v \in Nat, NEW m \in Nat
    PROVE  Fits(3, v, m) <=> \/ v * m <= 55295 /\ (v + 1) * m - 1 >= 2048
                             \/ v * m <= 65535 /\ (v + 1) * m - 1 >= 57344
<1>1. Needing[3] = {<<2048, 55295>>, <<57344, 65535>>}
  BY SMT DEF Needing
<1> QED BY <1>1, SMT DEF Fits

LEMMA FitsFour ==
    ASSUME NEW v \in Nat, NEW m \in Nat
    PROVE  Fits(4, v, m) <=> v * m <= 1114111 /\ (v + 1) * m - 1 >= 65536
<1>1. Needing[4] = {<<65536, 1114111>>}
  BY SMT DEF Needing
<1> QED BY <1>1, SMT DEF Fits

\* The numbers that two, three or four bytes leave open.
LEMMA Spans ==
    /\ Span(2, 1) = 64 /\ Span(3, 1) = 4096 /\ Span(4, 1) = 262144
    /\ Span(2, 2) = 1 /\ Span(3, 2) = 64 /\ Span(4, 2) = 4096
    /\ Span(3, 3) = 1 /\ Span(4, 3) = 64 /\ Span(4, 4) = 1
BY SMT DEF Span

\* A single byte.
LEMMA BeginsLead ==
    ASSUME NEW t, NEW b \in 128 .. 255, Len(t) = 1, t[1] = b
    PROVE  Begins(t) <=> b \in 194 .. 244
<1>1. Bits(t) = LeadBits(b)
  BY SMT DEF Bits
<1>2. \A i \in 2 .. Len(t) : t[i] \in 128 .. 191
  BY SMT
<1>3. CASE b < 192 \/ b > 247
  <2>1. Length(b) = 0
    BY <1>3, SMT DEF Length
  <2>2. ~Begins(t)
    BY <2>1, BeginsFits, Zenon
  <2> QED BY <1>3, <2>2, SMT
<1>4. CASE 192 <= b /\ b <= 223
  <2>1. PICK v \in Nat : v = b - 192
    BY <1>4, SMT
  <2>2. Length(b) = 2 /\ LeadBits(b) = v
    BY <1>4, <2>1, LeadingBits, SMT
  <2>3. Begins(t) <=> 2 # 0 /\ Fits(2, v, Span(2, 1))
    BY <1>1, <1>2, <2>2, BeginsFits, Zenon
  <2>4. Fits(2, v, 64) <=> b >= 194
    BY <1>4, <2>1, FitsTwo, SMT
  <2> QED BY <1>4, <2>3, <2>4, Spans, SMT
<1>5. CASE 224 <= b /\ b <= 239
  <2>1. PICK v \in Nat : v = b - 224
    BY <1>5, SMT
  <2>2. Length(b) = 3 /\ LeadBits(b) = v
    BY <1>5, <2>1, LeadingBits, SMT
  <2>3. Begins(t) <=> 3 # 0 /\ Fits(3, v, Span(3, 1))
    BY <1>1, <1>2, <2>2, BeginsFits, Zenon
  <2>4. Fits(3, v, 4096)
    BY <1>5, <2>1, FitsThree, SMT
  <2> QED BY <1>5, <2>3, <2>4, Spans, SMT
<1>6. CASE 240 <= b /\ b <= 247
  <2>1. PICK v \in Nat : v = b - 240
    BY <1>6, SMT
  <2>2. Length(b) = 4 /\ LeadBits(b) = v
    BY <1>6, <2>1, LeadingBits, SMT
  <2>3. Begins(t) <=> 4 # 0 /\ Fits(4, v, Span(4, 1))
    BY <1>1, <1>2, <2>2, BeginsFits, Zenon
  <2>4. Fits(4, v, 262144) <=> b <= 244
    BY <1>6, <2>1, FitsFour, SMT
  <2> QED BY <1>6, <2>3, <2>4, Spans, SMT
<1> QED BY <1>3, <1>4, <1>5, <1>6, SMT

\* Two bytes.
LEMMA BeginsSecond ==
    ASSUME NEW b1 \in 194 .. 244, NEW b2 \in 0 .. 256
    PROVE  Begins(<<b1, b2>>) <=> b2 \in SecondByte(b1)
<1> DEFINE t == <<b1, b2>>
<1>t. Len(t) = 2 /\ t[1] = b1 /\ t[2] = b2
  OBVIOUS
<1> HIDE DEF t
<1>1. Bits(t) = LeadBits(b1) * 64 + (b2 % 64)
  BY <1>t, SMT DEF Bits
<1>2. (\A i \in 2 .. Len(t) : t[i] \in 128 .. 191) <=> b2 \in 128 .. 191
  BY <1>t, SMT
<1>3. CASE b2 \notin 128 .. 191
  <2>1. b2 \notin SecondByte(b1)
    BY <1>3, SecondBytes, SMT
  <2>2. ~Begins(t)
    BY <1>2, <1>3, Zenon DEF Begins
  <2> QED BY <2>1, <2>2 DEF t
<1>4. CASE b2 \in 128 .. 191
  <2>1. PICK x \in 0 .. 63 : b2 = x + 128 /\ b2 % 64 = x
    <3>1. b2 - 128 \in 0 .. 63 /\ b2 = (b2 - 128) + 128 /\ b2 % 64 = b2 - 128
      BY <1>4, SMT
    <3> QED BY <3>1, Zenon
  <2>2. ASSUME b1 <= 223 PROVE Begins(t) <=> b2 \in SecondByte(b1)
    <3>1. PICK v \in Nat : v = b1 - 192
      BY <2>2, SMT
    <3>2. Length(b1) = 2 /\ LeadBits(b1) = v
      BY <2>2, <3>1, LeadingBits, SMT
    <3>3. PICK w \in Nat : w = v * 64 + x
      BY SMT
    <3>4. Begins(t) <=> 2 # 0 /\ Fits(2, w, Span(2, 2))
      BY <1>t, <1>1, <1>2, <1>4, <2>1, <3>2, <3>3, BeginsFits, Zenon
    <3>5. Fits(2, w, 1)
      BY <2>2, <3>1, <3>3, FitsTwo, SMT
    <3>6. b2 \in SecondByte(b1)
      BY <1>4, <2>2, SMT DEF SecondByte
    <3> QED BY <3>4, <3>5, <3>6, Spans, SMT
  <2>3. ASSUME 224 <= b1, b1 <= 239 PROVE Begins(t) <=> b2 \in SecondByte(b1)
    <3>1. PICK v \in Nat : v = b1 - 224
      BY <2>3, SMT
    <3>2. Length(b1) = 3 /\ LeadBits(b1) = v
      BY <2>3, <3>1, LeadingBits, SMT
    <3>3. PICK w \in Nat : w = v * 64 + x
      BY SMT
    <3>4. Begins(t) <=> 3 # 0 /\ Fits(3, w, Span(3, 2))
      BY <1>t, <1>1, <1>2, <1>4, <2>1, <3>2, <3>3, BeginsFits, Zenon
    <3>5. Fits(3, w, 64) <=> (b1 = 224 => x >= 32) /\ (b1 = 237 => x <= 31)
      BY <2>3, <3>1, <3>3, FitsThree, SMT
    <3>6. b2 \in SecondByte(b1) <=> (b1 = 224 => x >= 32) /\ (b1 = 237 => x <= 31)
      BY <2>1, <2>3, SMT DEF SecondByte
    <3> QED BY <3>4, <3>5, <3>6, Spans, SMT
  <2>4. ASSUME 240 <= b1 PROVE Begins(t) <=> b2 \in SecondByte(b1)
    <3>1. PICK v \in Nat : v = b1 - 240
      BY <2>4, SMT
    <3>2. Length(b1) = 4 /\ LeadBits(b1) = v
      BY <2>4, <3>1, LeadingBits, SMT
    <3>3. PICK w \in Nat : w = v * 64 + x
      BY SMT
    <3>4. Begins(t) <=> 4 # 0 /\ Fits(4, w, Span(4, 2))
      BY <1>t, <1>1, <1>2, <1>4, <2>1, <3>2, <3>3, BeginsFits, Zenon
    <3>5. Fits(4, w, 4096) <=> (b1 = 240 => x >= 16) /\ (b1 = 244 => x <= 15)
      BY <2>4, <3>1, <3>3, FitsFour, SMT
    <3>6. b2 \in SecondByte(b1) <=> (b1 = 240 => x >= 16) /\ (b1 = 244 => x <= 15)
      BY <2>1, <2>4, SMT DEF SecondByte
    <3> QED BY <3>4, <3>5, <3>6, Spans, SMT
  <2>5. Begins(t) <=> b2 \in SecondByte(b1)
    BY <2>2, <2>3, <2>4, SMT
  <2> QED BY <2>5 DEF t
<1> QED BY <1>3, <1>4

\* Three bytes, the first two of them right, and four, the first three of them right.
LEMMA BeginsThird ==
    ASSUME NEW b1 \in 224 .. 244, NEW b2 \in SecondByte(b1), NEW b3 \in 0 .. 256
    PROVE  Begins(<<b1, b2, b3>>) <=> b3 \in 128 .. 191
<1> DEFINE t == <<b1, b2, b3>>
<1>1. Len(t) = 3 /\ t[1] = b1 /\ t[2] = b2 /\ t[3] = b3
  OBVIOUS
<1> HIDE DEF t
<1>2. /\ b2 \in Int /\ 128 <= b2 /\ b2 <= 191
      /\ b1 = 224 => b2 >= 160
      /\ b1 = 237 => b2 <= 159
      /\ b1 = 240 => b2 >= 144
      /\ b1 = 244 => b2 <= 143
  <2>1. b1 \in 194 .. 244
    BY SMT
  <2> QED BY <2>1, SecondBytes, SMT
<1>3. (\A i \in 2 .. Len(t) : t[i] \in 128 .. 191) <=> b3 \in 128 .. 191
  <2>1. \A i \in 2 .. 3 : i = 2 \/ i = 3
    BY SMT
  <2>2. b2 \in 128 .. 191 /\ 2 \in 2 .. 3 /\ 3 \in 2 .. 3
    BY <1>2, SMT
  <2> QED BY <1>1, <2>1, <2>2, SMT
<1>4. CASE b3 \notin 128 .. 191
  <2>1. ~Begins(t)
    BY <1>3, <1>4, Zenon DEF Begins
  <2> QED BY <1>4, <2>1 DEF t
<1>5. CASE b3 \in 128 .. 191
  <2>1. PICK x \in 0 .. 63 : b2 = x + 128 /\ b2 % 64 = x
    <3>1. b2 - 128 \in 0 .. 63 /\ b2 = (b2 - 128) + 128 /\ b2 % 64 = b2 - 128
      BY <1>2, SMT
    <3> QED BY <3>1, Zenon
  <2>2. PICK y \in 0 .. 63 : b3 = y + 128 /\ b3 % 64 = y
    <3>1. b3 - 128 \in 0 .. 63 /\ b3 = (b3 - 128) + 128 /\ b3 % 64 = b3 - 128
      BY <1>5, SMT
    <3> QED BY <3>1, Zenon
  <2>3. Bits(t) = (LeadBits(b1) * 64 + x) * 64 + y
    BY <1>1, <2>1, <2>2, SMT DEF Bits
  <2>4. CASE b1 <= 239
    <3>1. PICK v \in Nat : v = b1 - 224
      BY <2>4, SMT
    <3>2. Length(b1) = 3 /\ LeadBits(b1) = v
      BY <2>4, <3>1, LeadingBits, SMT
    <3>3. PICK w \in Nat : w = (v * 64 + x) * 64 + y
      BY SMT
    <3>4. Begins(t) <=> 3 # 0 /\ Fits(3, w, Span(3, 3))
      BY <1>1, <1>3, <1>5, <2>3, <3>2, <3>3, BeginsFits, Zenon
    <3>5. Fits(3, w, 1)
      BY <1>2, <2>1, <2>4, <3>1, <3>3, FitsThree, SMT
    <3> QED BY <1>5, <3>4, <3>5, Spans, SMT DEF t
  <2>5. CASE 240 <= b1
    <3>1. PICK v \in Nat : v = b1 - 240
      BY <2>5, SMT
    <3>2. Length(b1) = 4 /\ LeadBits(b1) = v
      BY <2>5, <3>1, LeadingBits, SMT
    <3>3. PICK w \in Nat : w = (v * 64 + x) * 64 + y
      BY SMT
    <3>4. Begins(t) <=> 4 # 0 /\ Fits(4, w, Span(4, 3))
      BY <1>1, <1>3, <1>5, <2>3, <3>2, <3>3, BeginsFits, Zenon
    <3>5. Fits(4, w, 64)
      BY <1>2, <2>1, <2>5, <3>1, <3>3, FitsFour, SMT
    <3> QED BY <1>5, <3>4, <3>5, Spans, SMT DEF t
  <2> QED BY <2>4, <2>5, SMT
<1> QED BY <1>4, <1>5

LEMMA BeginsFourth ==
    ASSUME NEW b1 \in 240 .. 244, NEW b2 \in SecondByte(b1), NEW b3 \in 128 .. 191,
           NEW b4 \in 0 .. 256
    PROVE  Begins(<<b1, b2, b3, b4>>) <=> b4 \in 128 .. 191
<1> DEFINE t == <<b1, b2, b3, b4>>
<1>1. Len(t) = 4 /\ t[1] = b1 /\ t[2] = b2 /\ t[3] = b3 /\ t[4] = b4
  OBVIOUS
<1> HIDE DEF t
<1>2. /\ b2 \in Int /\ 128 <= b2 /\ b2 <= 191
      /\ b1 = 240 => b2 >= 144
      /\ b1 = 244 => b2 <= 143
  <2>1. b1 \in 194 .. 244
    BY SMT
  <2> QED BY <2>1, SecondBytes, SMT
<1>3. (\A i \in 2 .. Len(t) : t[i] \in 128 .. 191) <=> b4 \in 128 .. 191
  <2>1. \A i \in 2 .. 4 : i = 2 \/ i = 3 \/ i = 4
    BY SMT
  <2>2. b2 \in 128 .. 191 /\ 2 \in 2 .. 4 /\ 3 \in 2 .. 4 /\ 4 \in 2 .. 4
    BY <1>2, SMT
  <2> QED BY <1>1, <2>1, <2>2, SMT
<1>4. CASE b4 \notin 128 .. 191
  <2>1. ~Begins(t)
    BY <1>3, <1>4, Zenon DEF Begins
  <2> QED BY <1>4, <2>1 DEF t
<1>5. CASE b4 \in 128 .. 191
  <2>1. PICK x \in 0 .. 63 : b2 = x + 128 /\ b2 % 64 = x
    <3>1. b2 - 128 \in 0 .. 63 /\ b2 = (b2 - 128) + 128 /\ b2 % 64 = b2 - 128
      BY <1>2, SMT
    <3> QED BY <3>1, Zenon
  <2>2. PICK y \in 0 .. 63 : b3 = y + 128 /\ b3 % 64 = y
    <3>1. b3 - 128 \in 0 .. 63 /\ b3 = (b3 - 128) + 128 /\ b3 % 64 = b3 - 128
      BY SMT
    <3> QED BY <3>1, Zenon
  <2>3. PICK z \in 0 .. 63 : b4 = z + 128 /\ b4 % 64 = z
    <3>1. b4 - 128 \in 0 .. 63 /\ b4 = (b4 - 128) + 128 /\ b4 % 64 = b4 - 128
      BY <1>5, SMT
    <3> QED BY <3>1, Zenon
  <2>4. Bits(t) = ((LeadBits(b1) * 64 + x) * 64 + y) * 64 + z
    BY <1>1, <2>1, <2>2, <2>3, SMT DEF Bits
  <2>5. PICK v \in Nat : v = b1 - 240
    BY SMT
  <2>6. Length(b1) = 4 /\ LeadBits(b1) = v
    BY <2>5, LeadingBits, SMT
  <2>7. PICK w \in Nat : w = ((v * 64 + x) * 64 + y) * 64 + z
    BY SMT
  <2>8. Begins(t) <=> 4 # 0 /\ Fits(4, w, Span(4, 4))
    BY <1>1, <1>3, <1>5, <2>4, <2>6, <2>7, BeginsFits, Zenon
  <2>9. Fits(4, w, 1)
    BY <1>2, <2>1, <2>5, <2>7, FitsFour, SMT
  <2> QED BY <1>5, <2>8, <2>9, Spans, SMT DEF t
<1> QED BY <1>4, <1>5

-----------------------------------------------------------------------------
\* What has been read of a character, by the place where the scanner is

\* Within a character of several bytes: one, two or three of them.
AtBytes ==
    /\ high = 0 /\ token = text
    /\ \/ \E b1 \in 194 .. 244 :
              /\ text = <<b1>> /\ todo = Ranges(b1)
              /\ codepoint = LeadBits(b1)
       \/ \E b1 \in 224 .. 244 : \E b2 \in SecondByte(b1) :
              /\ text = <<b1, b2>> /\ todo = (IF b1 <= 239 THEN <<Any>> ELSE <<Any, Any>>)
              /\ codepoint = LeadBits(b1) * 64 + (b2 - 128)
       \/ \E b1 \in 240 .. 244 : \E b2 \in SecondByte(b1) : \E b3 \in 128 .. 191 :
              /\ text = <<b1, b2, b3>> /\ todo = <<Any>>
              /\ codepoint = (LeadBits(b1) * 64 + (b2 - 128)) * 64 + (b3 - 128)

\* The value of the digits behind place i of the text when the last left of four are missing.
Digits(i) ==
    CASE left = 4 -> 0
      [] left = 3 -> HexValue(text[i + 1])
      [] left = 2 -> HexValue(text[i + 1]) * 16 + HexValue(text[i + 2])
      [] left = 1 -> HexValue(text[i + 1]) * 256 + HexValue(text[i + 2]) * 16 + HexValue(text[i + 3])

\* The text is an escape sequence of UTF-16 units.
UnitText == Len(text) >= 2 /\ text[1] = Backslash /\ text[2] = LetterU

\* Between characters: nothing, a character, a short escape or one or two units.
AtChars ==
    /\ high = 0
    /\ text = <<>> => token = <<>>
    /\ text # <<>> =>
          /\ IsScalar(codepoint) /\ token = Utf8(codepoint)
          /\ \/ /\ text[1] # Backslash /\ text = token
                /\ text[1] \in 128 .. 255 => Begins(text)
             \/ /\ text[1] = Backslash /\ Len(text) = 2
                /\ text[2] \in DOMAIN Simple /\ codepoint = Simple[text[2]]
             \/ UnitText /\ Len(text) \in {6, 12} /\ codepoint = Meaning

\* After a backslash.
AtEscape == high = 0 /\ token = <<>> /\ text = <<Backslash>>

\* Within the digits of a unit, the first or the second.
AtHex ==
    /\ token = <<>> /\ UnitText
    /\ \/ high = 0 /\ Len(text) = 6 - left /\ number = Digits(2)
       \/ high # 0 /\ high = Hex4(3) /\ Len(text) = 12 - left /\ number = Digits(8)

\* Behind a high surrogate.
AtLow ==
    /\ token = <<>> /\ UnitText
    /\ high # 0 /\ high = Hex4(3)
    /\ Len(text) = (IF at = "u" THEN 7 ELSE 6)

Place ==
    /\ at = "chars" => AtChars
    /\ at = "bytes" => AtBytes
    /\ at = "escape" => AtEscape
    /\ at = "hex" => AtHex
    /\ at \in {"backslash", "u"} => AtLow
    /\ at = "closed" => text # <<>> /\ text[1] = Quote
    /\ at = "error" => text # <<>> /\ (text[1] \in 128 .. 255 => ~Begins(text))

ReadInv ==
    /\ text \in Seq(0 .. 256)
    /\ at \in {"chars", "bytes", "escape", "hex", "backslash", "u", "closed", "error"}
    /\ Place

\* A byte that is read is put behind the text.
LEMMA TextGrows ==
    ASSUME StringInv, ReadInv, NEW b \in Source, Get(b)
    PROVE  /\ b \in 0 .. 256 /\ text' = Append(text, b)
           /\ text' \in Seq(0 .. 256) /\ text' # <<>> /\ Len(text') = Len(text) + 1
           /\ text'[Len(text) + 1] = b
           /\ \A i \in 1 .. Len(text) : text'[i] = text[i]
<1>1. b \in 0 .. 256
  <2>1. b \in Int /\ 0 <= b /\ b <= 256
    BY SourceType, Zenon DEF StringInv
  <2> QED BY <2>1, SMT
<1>2. text' = Append(text, b) /\ text \in Seq(0 .. 256)
  BY Zenon DEF Get, ReadInv
<1> QED BY <1>1, <1>2, Appended, SMT

\* What has to be shown after a byte.
LEMMA CharsRead ==
    ASSUME text' \in Seq(0 .. 256), at' = "chars", AtChars'
    PROVE  ReadInv'
BY SMT DEF ReadInv, Place

\* Within a character, at its end and after a failure: what is left to show.
LEMMA BytesAreRead ==
    ASSUME text' \in Seq(0 .. 256), at' = "bytes", AtBytes'
    PROVE  ReadInv'
BY SMT DEF ReadInv, Place

LEMMA ErrorRead ==
    ASSUME text' \in Seq(0 .. 256), text' # <<>>, at' = "error",
           text'[1] \in 128 .. 255 => ~Begins(text')
    PROVE  ReadInv'
BY SMT DEF ReadInv, Place

LEMMA FailGoes ==
    ASSUME Fail
    PROVE  at' = "error"
BY Zenon DEF Fail, Goto

\* A character of several bytes is complete.
LEMMA MultiByteRead ==
    ASSUME text' \in Seq(0 .. 256), at' = "chars", high' = 0, token' = text',
           IsScalar(codepoint'), Utf8(codepoint') = text',
           text' # <<>>, text'[1] # Backslash, Begins(text')
    PROVE  ReadInv'
<1>1. AtChars'
  BY Zenon DEF AtChars
<1> QED BY <1>1, CharsRead, Zenon

\* The next byte of a character, by the number of those before it.
LEMMA OneByteBefore ==
    ASSUME StringInv, ReadInv, NEW b \in Source, NextByteInRange(b),
           NEW b1 \in 194 .. 244, text = <<b1>>, todo = Ranges(b1), codepoint = LeadBits(b1)
    PROVE  ReadInv'
<1>1. /\ at = "bytes" /\ Get(b) /\ high = 0 /\ token = text /\ Pending(todo, state)
  BY SMT DEF NextByteInRange, ReadInv, Place, AtBytes, StringInv, InStep
<1>2. b \in 0 .. 256 /\ text' = Append(text, b) /\ text' \in Seq(0 .. 256)
  BY <1>1, TextGrows, Zenon
<1>3. text' = <<b1, b>>
  <2>1. b1 \in 0 .. 256
    BY SMT
  <2> QED BY <1>2, <2>1, AppendToOne, Zenon
<1>4. text'[1] = b1 /\ text'[2] = b /\ Len(text') = 2 /\ text' # <<>>
  BY <1>3, SMT
<1>5. Begins(text') <=> b \in SecondByte(b1)
  <2>1. b \in 0 .. 256
    BY <1>2, Zenon
  <2>2. Begins(<<b1, b>>) <=> b \in SecondByte(b1)
    BY ONLY b1 \in 194 .. 244, <2>1, BeginsSecond, Zenon
  <2> QED BY <1>3, <2>2, Zenon
<1>6. Head(todo)[1] .. Head(todo)[2] = SecondByte(b1)
  BY RangesAre, Zenon
<1>7. CASE b \notin Head(todo)[1] .. Head(todo)[2] /\ Fail
  <2>1. ~Begins(text')
    BY <1>5, <1>6, <1>7, Zenon
  <2> QED BY <1>2, <1>4, <1>7, <2>1, FailGoes, ErrorRead, Zenon
<1>8. CASE /\ b \in Head(todo)[1] .. Head(todo)[2]
           /\ Add(b)
           /\ todo' = Tail(todo)
           /\ Goto(IF Tail(todo) = <<>> THEN "chars" ELSE "bytes")
           /\ UNCHANGED <<left, number, high>>
  <2>1. b \in SecondByte(b1) /\ Begins(text')
    BY <1>5, <1>6, <1>8, Zenon
  <2>2. /\ b \in Int /\ 128 <= b /\ b <= 191
        /\ b1 = 224 => b >= 160
        /\ b1 = 237 => b <= 159
    BY <2>1, SecondBytes, SMT
  <2>3. high' = 0 /\ token' = text'
    BY <1>1, <1>2, <1>8, Zenon DEF Add
  <2>4. codepoint' = LeadBits(b1) * 64 + (b - 128)
    <3>1. state \in Int /\ state # 0 /\ codepoint \in Nat
      <4>1. state \in 2 .. 8 /\ codepoint \in Nat
        BY <1>1, PendingState, Zenon DEF StringInv, BytesRead
      <4> QED BY <4>1, SMT
    <3>2. codepoint' = DecodePoint(state, codepoint, b)
      BY <1>8, Zenon DEF Add
    <3> QED BY <2>2, <3>1, <3>2, NextPoint, SMT
  <2>5. CASE b1 <= 223
    <3>1. at' = "chars"
      BY <1>8, <2>5, RangesAre, Zenon DEF Goto
    <3>2. LeadBits(b1) = b1 - 192
      BY <2>5, LeadingBits, SMT
    <3>3. IsScalar(codepoint') /\ Utf8(codepoint') = <<b1, b>>
      BY <2>2, <2>4, <2>5, <3>2, EncodesTwo, SMT
    <3>4. text'[1] # Backslash
      BY <1>4, SMT DEF Backslash
    <3> QED BY <1>2, <1>3, <1>4, <2>1, <2>3, <3>1, <3>3, <3>4, MultiByteRead, Zenon
  <2>6. CASE ~(b1 <= 223)
    <3>1. todo' = (IF b1 <= 239 THEN <<Any>> ELSE <<Any, Any>>)
      BY <1>8, <2>6, RangesAre, Zenon
    <3>2. <<Any>> # <<>> /\ <<Any, Any>> # <<>>
      OBVIOUS
    <3>3. at' = "bytes"
      BY <1>8, <3>1, <3>2, Zenon DEF Goto
    <3>4. b1 \in 224 .. 244
      BY <2>6, SMT
    <3>5. AtBytes'
      BY <1>3, <2>1, <2>3, <2>4, <3>1, <3>4, Zenon DEF AtBytes
    <3> QED BY <1>2, <3>3, <3>5, BytesAreRead, Zenon
  <2> QED BY <2>5, <2>6, Zenon
<1> QED BY <1>7, <1>8, Zenon DEF NextByteInRange

LEMMA TwoBytesBefore ==
    ASSUME StringInv, ReadInv, NEW b \in Source, NextByteInRange(b),
           NEW b1 \in 224 .. 244, NEW b2 \in SecondByte(b1), text = <<b1, b2>>,
           todo = (IF b1 <= 239 THEN <<Any>> ELSE <<Any, Any>>),
           codepoint = LeadBits(b1) * 64 + (b2 - 128)
    PROVE  ReadInv'
<1>1. /\ at = "bytes" /\ Get(b) /\ high = 0 /\ token = text /\ Pending(todo, state)
  BY SMT DEF NextByteInRange, ReadInv, Place, AtBytes, StringInv, InStep
<1>2. b \in 0 .. 256 /\ text' = Append(text, b) /\ text' \in Seq(0 .. 256)
  BY <1>1, TextGrows, Zenon
<1>s. /\ b2 \in Int /\ 128 <= b2 /\ b2 <= 191
      /\ b1 = 224 => b2 >= 160
      /\ b1 = 237 => b2 <= 159
  <2>1. b1 \in 194 .. 244
    BY SMT
  <2> QED BY <2>1, SecondBytes, SMT
<1>3. text' = <<b1, b2, b>>
  <2>1. b1 \in 0 .. 256 /\ b2 \in 0 .. 256
    BY <1>s, SMT
  <2> QED BY <1>2, <2>1, AppendToTwo, ZenonT(60)
<1>4. text'[1] = b1 /\ text' # <<>>
  BY <1>3, SMT
<1>5. Begins(text') <=> b \in 128 .. 191
  <2>1. Begins(<<b1, b2, b>>) <=> b \in 128 .. 191
    BY ONLY <1>2, <1>s, b1 \in 224 .. 244, b2 \in SecondByte(b1), BeginsThird, ZenonT(60)
  <2> QED BY <1>3, <2>1, Zenon
<1>6. Head(todo)[1] = 128 /\ Head(todo)[2] = 191
  <2>1. Head(todo) = Any
    <3>1. Head(<<Any>>) = Any /\ Head(<<Any, Any>>) = Any
      OBVIOUS
    <3> QED BY <3>1, Zenon
  <2> QED BY <2>1, SMT DEF Any
<1>7. CASE b \notin Head(todo)[1] .. Head(todo)[2] /\ Fail
  <2>1. ~Begins(text')
    BY <1>5, <1>6, <1>7, Zenon
  <2> QED BY <1>2, <1>4, <1>7, <2>1, FailGoes, ErrorRead, Zenon
<1>8. CASE /\ b \in Head(todo)[1] .. Head(todo)[2]
           /\ Add(b)
           /\ todo' = Tail(todo)
           /\ Goto(IF Tail(todo) = <<>> THEN "chars" ELSE "bytes")
           /\ UNCHANGED <<left, number, high>>
  <2>1. b \in 128 .. 191 /\ Begins(text')
    BY <1>5, <1>6, <1>8, Zenon
  <2>2. b \in Int /\ 128 <= b /\ b <= 191
    BY <2>1, SMT
  <2>3. high' = 0 /\ token' = text'
    BY <1>1, <1>2, <1>8, Zenon DEF Add
  <2>4. codepoint' = (LeadBits(b1) * 64 + (b2 - 128)) * 64 + (b - 128)
    <3>1. state \in Int /\ state # 0 /\ codepoint \in Nat
      <4>1. state \in 2 .. 8 /\ codepoint \in Nat
        BY <1>1, PendingState, Zenon DEF StringInv, BytesRead
      <4> QED BY <4>1, SMT
    <3>2. codepoint' = DecodePoint(state, codepoint, b)
      BY <1>8, Zenon DEF Add
    <3> QED BY <2>2, <3>1, <3>2, NextPoint, SMT
  <2>5. CASE b1 <= 239
    <3>1. at' = "chars"
      <4>1. Tail(<<Any>>) = <<>>
        OBVIOUS
      <4> QED BY <1>8, <2>5, <4>1, Zenon DEF Goto
    <3>2. LeadBits(b1) = b1 - 224
      BY <2>5, LeadingBits, SMT
    <3>3. IsScalar(codepoint') /\ Utf8(codepoint') = <<b1, b2, b>>
      BY <1>s, <2>2, <2>4, <2>5, <3>2, EncodesThree, SMT
    <3>4. text'[1] # Backslash
      BY <1>4, SMT DEF Backslash
    <3> QED BY <1>2, <1>3, <1>4, <2>1, <2>3, <3>1, <3>3, <3>4, MultiByteRead, Zenon
  <2>6. CASE ~(b1 <= 239)
    <3>1. todo' = <<Any>> /\ <<Any>> # <<>>
      <4>1. Tail(<<Any, Any>>) = <<Any>> /\ <<Any>> # <<>>
        OBVIOUS
      <4> QED BY <1>8, <2>6, <4>1, Zenon
    <3>2. at' = "bytes"
      BY <1>8, <3>1, Zenon DEF Goto
    <3>3. b1 \in 240 .. 244
      BY <2>6, SMT
    <3>4. AtBytes'
      BY <1>3, <2>1, <2>3, <2>4, <3>1, <3>3, Zenon DEF AtBytes
    <3> QED BY <1>2, <3>2, <3>4, BytesAreRead, Zenon
  <2> QED BY <2>5, <2>6, Zenon
<1> QED BY <1>7, <1>8, Zenon DEF NextByteInRange

LEMMA ThreeBytesBefore ==
    ASSUME StringInv, ReadInv, NEW b \in Source, NextByteInRange(b),
           NEW b1 \in 240 .. 244, NEW b2 \in SecondByte(b1), NEW b3 \in 128 .. 191,
           text = <<b1, b2, b3>>, todo = <<Any>>,
           codepoint = (LeadBits(b1) * 64 + (b2 - 128)) * 64 + (b3 - 128)
    PROVE  ReadInv'
<1>1. /\ at = "bytes" /\ Get(b) /\ high = 0 /\ token = text /\ Pending(todo, state)
  BY SMT DEF NextByteInRange, ReadInv, Place, AtBytes, StringInv, InStep
<1>2. b \in 0 .. 256 /\ text' = Append(text, b) /\ text' \in Seq(0 .. 256)
  BY <1>1, TextGrows, Zenon
<1>s. /\ b2 \in Int /\ 128 <= b2 /\ b2 <= 191
      /\ b1 = 240 => b2 >= 144
      /\ b1 = 244 => b2 <= 143
  <2>1. b1 \in 194 .. 244
    BY SMT
  <2> QED BY <2>1, SecondBytes, SMT
<1>3. text' = <<b1, b2, b3, b>>
  <2>1. b1 \in 0 .. 256 /\ b2 \in 0 .. 256 /\ b3 \in 0 .. 256
    BY <1>s, SMT
  <2>2. Append(<<b1, b2, b3>>, b) = <<b1, b2, b3, b>>
    <3> DEFINE S == 0 .. 256
    <3>1. b \in S /\ b1 \in S /\ b2 \in S /\ b3 \in S
      BY <1>2, <2>1, Zenon
    <3> HIDE DEF S
    <3> QED BY ONLY <3>1, AppendToThree, ZenonT(60)
  <2> QED BY <1>2, <2>2, Zenon
<1>4. text'[1] = b1 /\ text' # <<>>
  BY <1>3, SMT
<1>5. Begins(text') <=> b \in 128 .. 191
  <2>1. Begins(<<b1, b2, b3, b>>) <=> b \in 128 .. 191
    BY ONLY <1>2, <1>s, b1 \in 240 .. 244, b2 \in SecondByte(b1), b3 \in 128 .. 191, BeginsFourth, ZenonT(60)
  <2> QED BY <1>3, <2>1, Zenon
<1>6. Head(todo)[1] = 128 /\ Head(todo)[2] = 191 /\ Tail(todo) = <<>>
  BY SMT DEF Any
<1>7. CASE b \notin Head(todo)[1] .. Head(todo)[2] /\ Fail
  <2>1. ~Begins(text')
    BY <1>5, <1>6, <1>7, Zenon
  <2> QED BY <1>2, <1>4, <1>7, <2>1, FailGoes, ErrorRead, Zenon
<1>8. CASE /\ b \in Head(todo)[1] .. Head(todo)[2]
           /\ Add(b)
           /\ todo' = Tail(todo)
           /\ Goto(IF Tail(todo) = <<>> THEN "chars" ELSE "bytes")
           /\ UNCHANGED <<left, number, high>>
  <2>1. b \in 128 .. 191 /\ Begins(text')
    BY <1>5, <1>6, <1>8, Zenon
  <2>2. b \in Int /\ 128 <= b /\ b <= 191
    BY <2>1, SMT
  <2>3. high' = 0 /\ token' = text' /\ at' = "chars"
    BY <1>1, <1>2, <1>6, <1>8, Zenon DEF Add, Goto
  <2>4. codepoint' = ((LeadBits(b1) * 64 + (b2 - 128)) * 64 + (b3 - 128)) * 64 + (b - 128)
    <3>1. state \in Int /\ state # 0 /\ codepoint \in Nat
      <4>1. state \in 2 .. 8 /\ codepoint \in Nat
        BY <1>1, PendingState, Zenon DEF StringInv, BytesRead
      <4> QED BY <4>1, SMT
    <3>2. codepoint' = DecodePoint(state, codepoint, b)
      BY <1>8, Zenon DEF Add
    <3> QED BY <2>2, <3>1, <3>2, NextPoint, SMT
  <2>5. LeadBits(b1) = b1 - 240
    BY LeadingBits, SMT
  <2>6. IsScalar(codepoint') /\ Utf8(codepoint') = <<b1, b2, b3, b>>
    BY <1>s, <2>2, <2>4, <2>5, EncodesFour, SMT
  <2>7. text'[1] # Backslash
    BY <1>4, SMT DEF Backslash
  <2> QED BY <1>2, <1>3, <1>4, <2>1, <2>3, <2>6, <2>7, MultiByteRead, Zenon
<1> QED BY <1>7, <1>8, Zenon DEF NextByteInRange

\* next_byte_in_range keeps to what has been read.
LEMMA NextByteRead ==
    ASSUME StringInv, ReadInv, NEW b \in Source, NextByteInRange(b)
    PROVE  ReadInv'
<1>1. AtBytes
  BY SMT DEF ReadInv, Place, NextByteInRange
<1> QED BY <1>1, OneByteBefore, TwoBytesBefore, ThreeBytesBefore, ZenonT(60) DEF AtBytes

\* The bytes that are made of a code point are decoded to it.
LEMMA Utf8Point ==
    ASSUME NEW cp, IsScalar(cp),
           state = 0, codepoint \in Nat, AddAll(Utf8(cp))
    PROVE  token' = Utf8(cp) /\ codepoint' = cp
<1>0. token' = Utf8(cp)
  BY Zenon DEF AddAll
<1>1. CASE /\ Utf8(cp) = <<cp>>
           /\ cp \in Int /\ 0 <= cp /\ cp <= 127
  <2>1. codepoint' = DecodePoint(0, codepoint, cp)
    BY <1>1, SMT DEF AddAll
  <2>2. Class(cp) = 0 /\ LeadMask(0) = 256
    BY <1>1, SMT DEF Class, LeadMask
  <2>3. cp % 256 = cp
    BY <1>1, SMT
  <2> QED BY <1>0, <2>1, <2>2, <2>3, SMT DEF DecodePoint
<1>2. ASSUME NEW b1 \in Int, NEW b2 \in Int,
             Utf8(cp) = <<b1, b2>>,
             194 <= b1, b1 <= 223, 128 <= b2, b2 <= 191,
             cp = (b1 - 192) * 64 + (b2 - 128)
      PROVE  codepoint' = cp
  <2>1. PICK c1 \in Nat : c1 = DecodePoint(0, codepoint, b1) /\ c1 = b1 - 192
    <3>1. DecodePoint(0, codepoint, b1) = b1 - 192
      BY <1>2, LeadPoint, LeadingBits, SMT
    <3> QED BY <1>2, <3>1, SMT
  <2>2. DecodeState(0, b1) = 2
    BY <1>2, AcceptsTwo, SMT
  <2>3. codepoint' = DecodePoint(2, c1, b2)
    BY <1>2, <2>1, <2>2, AddTwo, SMT
  <2> QED BY <1>2, <2>1, <2>3, NextPoint, SMT
<1>3. ASSUME NEW b1 \in Int, NEW b2 \in Int, NEW b3 \in Int,
             Utf8(cp) = <<b1, b2, b3>>,
             224 <= b1, b1 <= 239, 128 <= b2, b2 <= 191, 128 <= b3, b3 <= 191,
             b1 = 224 => b2 >= 160, b1 = 237 => b2 <= 159,
             cp = ((b1 - 224) * 64 + (b2 - 128)) * 64 + (b3 - 128)
      PROVE  codepoint' = cp
  <2>1. PICK c1 \in Nat : c1 = DecodePoint(0, codepoint, b1) /\ c1 = b1 - 224
    <3>1. DecodePoint(0, codepoint, b1) = b1 - 224
      BY <1>3, LeadPoint, LeadingBits, SMT
    <3> QED BY <1>3, <3>1, SMT
  <2>2. PICK s1 \in 3 .. 5 : s1 = DecodeState(0, b1) /\ DecodeState(s1, b2) = 2
    BY <1>3, AcceptsThree, SMT
  <2>3. PICK c2 \in Nat : c2 = DecodePoint(s1, c1, b2) /\ c2 = c1 * 64 + (b2 - 128)
    <3>1. DecodePoint(s1, c1, b2) = c1 * 64 + (b2 - 128)
      <4>1. s1 \in Int /\ s1 # 0
        BY <2>2, SMT
      <4>2. b2 \in Int /\ 128 <= b2 /\ b2 <= 191
        BY <1>3, Zenon
      <4> QED BY ONLY <4>1, <4>2, c1 \in Nat, NextPoint, SMT
    <3> QED BY <1>3, <3>1, SMT
  <2>4. codepoint' = DecodePoint(2, c2, b3)
    BY <1>3, <2>1, <2>2, <2>3, AddThree, SMT
  <2> QED BY <1>3, <2>1, <2>3, <2>4, NextPoint, SMT
<1>4. ASSUME NEW b1 \in Int, NEW b2 \in Int, NEW b3 \in Int, NEW b4 \in Int,
             Utf8(cp) = <<b1, b2, b3, b4>>,
             240 <= b1, b1 <= 244, 128 <= b2, b2 <= 191,
             128 <= b3, b3 <= 191, 128 <= b4, b4 <= 191,
             b1 = 240 => b2 >= 144, b1 = 244 => b2 <= 143,
             cp = (((b1 - 240) * 64 + (b2 - 128)) * 64 + (b3 - 128)) * 64 + (b4 - 128)
      PROVE  codepoint' = cp
  <2>1. PICK c1 \in Nat : c1 = DecodePoint(0, codepoint, b1) /\ c1 = b1 - 240
    <3>1. DecodePoint(0, codepoint, b1) = b1 - 240
      BY <1>4, LeadPoint, LeadingBits, SMT
    <3> QED BY <1>4, <3>1, SMT
  <2>2. PICK s1 \in 6 .. 8 : s1 = DecodeState(0, b1) /\ DecodeState(s1, b2) = 3
    BY <1>4, AcceptsFour, SMT
  <2>3. PICK c2 \in Nat : c2 = DecodePoint(s1, c1, b2) /\ c2 = c1 * 64 + (b2 - 128)
    <3>1. DecodePoint(s1, c1, b2) = c1 * 64 + (b2 - 128)
      <4>1. s1 \in Int /\ s1 # 0
        BY <2>2, SMT
      <4>2. b2 \in Int /\ 128 <= b2 /\ b2 <= 191
        BY <1>4, Zenon
      <4> QED BY ONLY <4>1, <4>2, c1 \in Nat, NextPoint, SMT
    <3> QED BY <1>4, <3>1, SMT
  <2>4. PICK c3 \in Nat : c3 = DecodePoint(3, c2, b3) /\ c3 = c2 * 64 + (b3 - 128)
    <3>1. DecodePoint(3, c2, b3) = c2 * 64 + (b3 - 128)
      BY <1>4, NextPoint, SMT
    <3> QED BY <1>4, <3>1, SMT
  <2>5. DecodeState(3, b3) = 2
    BY <1>4, AcceptsLast, SMT
  <2>6. codepoint' = DecodePoint(2, c3, b4)
    BY <1>4, <2>1, <2>2, <2>3, <2>4, <2>5, AddFour, SMT
  <2> QED BY <1>4, <2>1, <2>3, <2>4, <2>6, NextPoint, SMT
<1> QED BY <1>0, <1>1, <1>2, <1>3, <1>4, Utf8Bytes, SMT

\* An ASCII character as it stands.
LEMMA AsciiPoint ==
    ASSUME NEW b \in Int, 0 <= b, b <= 127
    PROVE  IsScalar(b) /\ Utf8(b) = <<b>> /\ \A cp : DecodePoint(0, cp, b) = b
<1>1. IsScalar(b)
  BY SMT DEF IsScalar, IsHigh, IsLow
<1>2. Utf8(b) = <<b>>
  BY SMT DEF Utf8
<1>3. Class(b) = 0 /\ LeadMask(0) = 256
  BY SMT DEF Class, LeadMask
<1>4. b % 256 = b
  BY SMT
<1> QED BY <1>1, <1>2, <1>3, <1>4, SMT DEF DecodePoint

\* At the start of a character.
LEMMA AtStart ==
    ASSUME ReadInv, at = "chars", NEW b \in Source
    PROVE  text = <<>> /\ token = <<>> /\ high = 0
<1>1. ~Complete
  BY Zenon DEF Source
<1>2. AtChars
  BY SMT DEF ReadInv, Place
<1> QED BY <1>1, <1>2, Zenon DEF Complete, AtChars

\* A sequence of one.
LEMMA FirstByte ==
    ASSUME NEW S, NEW b \in S, NEW t, t = <<>>
    PROVE  Append(t, b) = <<b>> /\ <<b>>[1] = b /\ Len(<<b>>) = 1 /\ <<b>> # <<>>
<1>1. Append(<<>>, b) = <<b>>
  OBVIOUS
<1> QED BY <1>1, SMT

\* So does the first byte.
LEMMA CharRead ==
    ASSUME StringInv, ReadInv, NEW b \in Source, Char(b)
    PROVE  ReadInv'
<1>1. /\ at = "chars" /\ Get(b) /\ state = 0 /\ high' = high
      /\ text = <<>> /\ token = <<>> /\ high = 0
  <2>1. at = "chars" /\ Get(b) /\ high' = high
    BY Zenon DEF Char
  <2>2. state = 0
    BY <2>1, SMT DEF StringInv, InStep
  <2> QED BY <2>1, <2>2, AtStart, Zenon
<1>2. b \in 0 .. 256 /\ text' = Append(text, b) /\ text' \in Seq(0 .. 256)
  BY <1>1, TextGrows, Zenon
<1>3. text' = <<b>> /\ text'[1] = b /\ Len(text') = 1 /\ text' # <<>>
  BY <1>1, <1>2, FirstByte, Zenon
<1>4. CASE b = Quote /\ Goto("closed") /\ UNCHANGED <<todo, token, state, codepoint>>
  <2>1. at' = "closed" /\ text'[1] = Quote
    BY <1>3, <1>4, Zenon DEF Goto
  <2> QED BY <1>2, <1>3, <2>1, SMT DEF ReadInv, Place
<1>5. CASE b = Backslash /\ Goto("escape") /\ UNCHANGED <<todo, token, state, codepoint>>
  <2>1. at' = "escape" /\ AtEscape'
    BY <1>1, <1>3, <1>5, Zenon DEF Goto, AtEscape
  <2> QED BY <1>2, <2>1, SMT DEF ReadInv, Place
<1>6. CASE b \in Plain /\ Add(b) /\ UNCHANGED <<at, todo>>
  <2>1. b \in Int /\ 0 <= b /\ b <= 127 /\ b # Backslash
    BY <1>6, SMT DEF Plain
  <2>2. codepoint' = b /\ token' = <<b>>
    BY <1>1, <1>2, <1>3, <1>6, <2>1, AsciiPoint, Zenon DEF Add
  <2>3. IsScalar(codepoint') /\ token' = Utf8(codepoint')
    BY <2>1, <2>2, AsciiPoint, Zenon
  <2>4. text'[1] # Backslash /\ text' = token' /\ text'[1] \notin 128 .. 255
    BY <1>3, <2>1, <2>2, SMT
  <2>5. AtChars'
    BY <1>1, <1>3, <2>3, <2>4, Zenon DEF AtChars
  <2> QED BY <1>1, <1>2, <1>6, <2>5, CharsRead, Zenon
<1>7. CASE Ranges(b) # <<>> /\ Add(b) /\ todo' = Ranges(b) /\ Goto("bytes")
  <2>1. b \in 194 .. 244
    BY <1>2, <1>7, LeadingByte, ZenonT(60)
  <2>2. codepoint' = LeadBits(b)
    <3>1. b \in Int /\ 194 <= b /\ b <= 244
      BY <2>1, SMT
    <3> QED BY <1>1, <1>7, <3>1, LeadPoint, Zenon DEF Add
  <2>3. token' = text' /\ high' = 0 /\ at' = "bytes"
    BY <1>1, <1>2, <1>7, Zenon DEF Add, Goto
  <2>4. AtBytes'
    BY <1>3, <1>7, <2>1, <2>2, <2>3, Zenon DEF AtBytes
  <2> QED BY <1>2, <2>3, <2>4, BytesAreRead, Zenon
<1>8. CASE b \notin {Quote, Backslash} \cup Plain /\ Ranges(b) = <<>> /\ Fail
  <2>1. b \notin 194 .. 244
    BY <1>8, RangesAre, Zenon
  <2>2. text'[1] \in 128 .. 255 => ~Begins(text')
    <3>1. b \in 128 .. 255 => ~Begins(text')
      BY ONLY <1>3, <2>1, BeginsLead, SMT
    <3> QED BY <1>3, <3>1, Zenon
  <2> QED BY <1>2, <1>3, <1>8, <2>2, FailGoes, ErrorRead, Zenon
<1> QED BY <1>4, <1>5, <1>6, <1>7, <1>8, Zenon DEF Char

\* An escape sequence is not a byte above 7F.
LEMMA EscapeFails ==
    ASSUME text' \in Seq(0 .. 256), text' # <<>>, text'[1] = Backslash, at' = "error"
    PROVE  ReadInv'
<1>1. Backslash \notin 128 .. 255
  BY SMT DEF Backslash
<1> QED BY <1>1, ErrorRead, Zenon

\* So does the letter of an escape.
LEMMA EscapeRead ==
    ASSUME StringInv, ReadInv, NEW b \in Source, Escape(b)
    PROVE  ReadInv'
<1>1. /\ at = "escape" /\ Get(b) /\ state = 0
      /\ high = 0 /\ token = <<>> /\ text = <<Backslash>>
  BY SMT DEF Escape, StringInv, InStep, ReadInv, Place, AtEscape
<1>2. b \in 0 .. 256 /\ text' = Append(text, b) /\ text' \in Seq(0 .. 256)
  BY <1>1, TextGrows, Zenon
<1>3. text' = <<Backslash, b>>
  <2>1. Backslash \in 0 .. 256
    BY SMT DEF Backslash
  <2> QED BY <1>1, <1>2, <2>1, AppendToOne, Zenon
<1>4. text'[1] = Backslash /\ text'[2] = b /\ Len(text') = 2 /\ text' # <<>>
  BY <1>3, SMT
<1>5. CASE b \in DOMAIN Simple /\ Add(Simple[b]) /\ Goto("chars") /\ UNCHANGED <<todo, left, number, high>>
  <2>1. PICK c \in Int : c = Simple[b] /\ 0 <= c /\ c <= 127
    BY <1>5, SimpleType, Zenon
  <2>2. codepoint' = c /\ token' = <<c>>
    <3>1. Append(token, c) = <<c>>
      BY <1>1, <2>1, FirstByte, Zenon
    <3> QED BY <1>1, <1>5, <2>1, <3>1, AsciiPoint, Zenon DEF Add
  <2>3. IsScalar(codepoint') /\ token' = Utf8(codepoint')
    BY <2>1, <2>2, AsciiPoint, Zenon
  <2>4. AtChars'
    BY <1>1, <1>4, <1>5, <2>1, <2>2, <2>3, Zenon DEF AtChars
  <2> QED BY <1>2, <1>5, <2>4, CharsRead, Zenon DEF Goto
<1>6. CASE /\ b = LetterU
           /\ Goto("hex") /\ left' = 4 /\ number' = 0
           /\ UNCHANGED <<todo, high, token, state, codepoint>>
  <2>1. UnitText'
    BY <1>4, <1>6, SMT DEF UnitText
  <2>2. number' = Digits(2)'
    BY <1>6, SMT DEF Digits
  <2>3. AtHex' /\ at' = "hex"
    BY <1>1, <1>4, <1>6, <2>1, <2>2, SMT DEF AtHex, Goto
  <2> QED BY <1>2, <2>3, SMT DEF ReadInv, Place
<1>7. CASE b \notin DOMAIN Simple \cup {LetterU} /\ Fail
  BY <1>2, <1>4, <1>7, FailGoes, EscapeFails, Zenon
<1> QED BY <1>5, <1>6, <1>7, Zenon DEF Escape

\* Any byte has some hex value.
LEMMA HexValueInt ==
    ASSUME NEW b \in 0 .. 256
    PROVE  HexValue(b) \in Int
BY SMT DEF HexValue

\* Text and digits after one digit more.
LEMMA DigitAdded ==
    ASSUME text \in Seq(0 .. 256), NEW b \in 0 .. 256,
           text'[Len(text) + 1] = b, \A i \in 1 .. Len(text) : text'[i] = text[i],
           NEW base \in {2, 8}, left \in 1 .. 4, Len(text) = base + 4 - left,
           number = Digits(base)
    PROVE  /\ left > 1 /\ left' = left - 1 => number * 16 + HexValue(b) = Digits(base)'
           /\ left = 1 => number * 16 + HexValue(b) = Hex4(base + 1)'
<1>1. CASE left = 4
  <2>1. number = 0
    BY <1>1, SMT DEF Digits
  <2>2. text'[base + 1] = b
    BY <1>1, SMT
  <2>3. HexValue(b) \in Int
    BY HexValueInt, Zenon
  <2>4. ASSUME left' = 3
        PROVE  Digits(base)' = HexValue(b)
    BY <2>2, <2>4, SMT DEF Digits
  <2> QED BY <1>1, <2>1, <2>3, <2>4, SMT
<1>2. CASE left = 3
  <2>1. PICK h1 \in Int : h1 = HexValue(text[base + 1])
    <3>1. text[base + 1] \in 0 .. 256
      BY <1>2, SMT
    <3> QED BY <3>1, HexValueInt, Zenon
  <2>2. number = h1
    BY <1>2, <2>1, SMT DEF Digits
  <2>3. text'[base + 2] = b /\ text'[base + 1] = text[base + 1]
    BY <1>2, SMT
  <2>4. HexValue(b) \in Int
    BY HexValueInt, Zenon
  <2>5. ASSUME left' = 2
        PROVE  Digits(base)' = h1 * 16 + HexValue(b)
    BY <2>1, <2>3, <2>5, SMT DEF Digits
  <2> QED BY <1>2, <2>2, <2>4, <2>5, SMT
<1>3. CASE left = 2
  <2>1. PICK h1 \in Int, h2 \in Int : h1 = HexValue(text[base + 1]) /\ h2 = HexValue(text[base + 2])
    <3>1. text[base + 1] \in 0 .. 256 /\ text[base + 2] \in 0 .. 256
      <4>1. base + 1 \in 1 .. Len(text) /\ base + 2 \in 1 .. Len(text)
        BY <1>3, SMT
      <4> QED BY <4>1, ElementOfSeq, Zenon
    <3> QED BY <3>1, HexValueInt, Zenon
  <2>2. number = h1 * 16 + h2
    BY <1>3, <2>1, SMT DEF Digits
  <2>3. text'[base + 3] = b /\ text'[base + 1] = text[base + 1] /\ text'[base + 2] = text[base + 2]
    BY <1>3, SMT
  <2>4. PICK h3 \in Int : h3 = HexValue(b)
    BY HexValueInt, Zenon
  <2>5. ASSUME left' = 1
        PROVE  Digits(base)' = h1 * 256 + h2 * 16 + h3
    BY <2>1, <2>3, <2>4, <2>5, SMT DEF Digits
  <2> QED BY <1>3, <2>2, <2>4, <2>5, SMT
<1>4. CASE left = 1
  <2>1. PICK h1 \in Int, h2 \in Int, h3 \in Int :
            h1 = HexValue(text[base + 1]) /\ h2 = HexValue(text[base + 2]) /\ h3 = HexValue(text[base + 3])
    <3>1. text[base + 1] \in 0 .. 256 /\ text[base + 2] \in 0 .. 256 /\ text[base + 3] \in 0 .. 256
      <4>1. base + 1 \in 1 .. Len(text) /\ base + 2 \in 1 .. Len(text) /\ base + 3 \in 1 .. Len(text)
        BY <1>4, SMT
      <4> QED BY <4>1, ElementOfSeq, Zenon
    <3> QED BY <3>1, HexValueInt, Zenon
  <2>2. number = h1 * 256 + h2 * 16 + h3
    BY <1>4, <2>1, SMT DEF Digits
  <2>3. /\ text'[base + 4] = b /\ text'[base + 1] = text[base + 1]
        /\ text'[base + 2] = text[base + 2] /\ text'[base + 3] = text[base + 3]
    BY <1>4, SMT
  <2>4. PICK h4 \in Int : h4 = HexValue(b)
    BY HexValueInt, Zenon
  <2>5. Hex4(base + 1)' = h1 * 4096 + h2 * 256 + h3 * 16 + h4
    <3>1. base + 1 + 1 = base + 2 /\ base + 1 + 2 = base + 3 /\ base + 1 + 3 = base + 4
      BY SMT
    <3>2. Hex4(base + 1)' = HexValue(text'[base + 1]) * 4096 + HexValue(text'[base + 2]) * 256
                              + HexValue(text'[base + 3]) * 16 + HexValue(text'[base + 4])
      BY <3>1, SMT DEF Hex4
    <3> QED BY <2>1, <2>3, <2>4, <3>2, SMT
  <2> QED BY <1>4, <2>2, <2>4, <2>5, SMT
<1> QED BY <1>1, <1>2, <1>3, <1>4, SMT

\* The first unit stays what it is.
LEMMA FirstUnitStays ==
    ASSUME Len(text) \in Int, Len(text) >= 6, \A i \in 1 .. Len(text) : text'[i] = text[i]
    PROVE  Hex4(3)' = Hex4(3)
<1>1. text'[3] = text[3] /\ text'[4] = text[4] /\ text'[5] = text[5] /\ text'[6] = text[6]
  BY SMT
<1>2. 3 + 1 = 4 /\ 3 + 2 = 5 /\ 3 + 3 = 6
  BY SMT
<1> QED BY <1>1, <1>2, SMT DEF Hex4

\* get_codepoint keeps to what has been read: its number is that of the digits.
LEMMA HexRead ==
    ASSUME StringInv, ReadInv, NEW b \in Source, Hex(b)
    PROVE  ReadInv'
<1>1. /\ at = "hex" /\ Get(b) /\ state = 0 /\ AtHex /\ left \in 1 .. 4 /\ HighRead
      /\ codepoint \in Nat /\ DigitsRead
  BY SMT DEF Hex, StringInv, InStep, ReadInv, Place, DigitsRead, BytesRead
<1>2. /\ b \in 0 .. 256 /\ text' \in Seq(0 .. 256) /\ text' # <<>> /\ Len(text') = Len(text) + 1
      /\ text'[Len(text) + 1] = b
      /\ \A i \in 1 .. Len(text) : text'[i] = text[i]
  BY <1>1, TextGrows, Zenon
<1>3. text \in Seq(0 .. 256) /\ Len(text) \in Int /\ Len(text) >= 2
  <2>1. text \in Seq(0 .. 256)
    BY Zenon DEF ReadInv
  <2>2. Len(text) >= 2
    BY <1>1, Zenon DEF AtHex, UnitText
  <2> QED BY <2>1, <2>2, SMT
<1>4. UnitText' /\ token = <<>>
  <2>1. text'[1] = text[1] /\ text'[2] = text[2] /\ Len(text') >= 2
    BY <1>2, <1>3, SMT
  <2> QED BY <1>1, <2>1, Zenon DEF AtHex, UnitText
<1>5. ASSUME Fail
      PROVE  ReadInv'
  <2>1. text'[1] = Backslash
    BY <1>4, Zenon DEF UnitText
  <2> QED BY <1>2, <1>5, <2>1, FailGoes, EscapeFails, Zenon
<1>6. PICK base \in {2, 8} :
          /\ Len(text) = base + 4 - left /\ number = Digits(base)
          /\ base = 2 => high = 0
          /\ base = 8 => high # 0 /\ high = Hex4(3)
  <2>1. 6 - left = 2 + 4 - left /\ 12 - left = 8 + 4 - left
    BY <1>1, SMT
  <2>2. 2 \in {2, 8} /\ 8 \in {2, 8} /\ 2 # 8
    BY SMT
  <2> QED BY <1>1, <2>1, <2>2, Zenon DEF AtHex
<1>7. ASSUME high # 0
      PROVE  Hex4(3)' = high
  <2>1. base = 8 /\ Len(text) >= 6
    BY <1>1, <1>6, <1>7, SMT
  <2>2. Hex4(3)' = Hex4(3)
    BY <1>2, <1>3, <2>1, FirstUnitStays, Zenon
  <2> QED BY <1>6, <2>1, <2>2, Zenon
<1>8. PICK n \in Int : n = number * 16 + HexValue(b)
  <2>1. HexValue(b) \in Int /\ number \in Int
    <3>1. HexValue(b) \in Int
      BY <1>2, HexValueInt, Zenon
    <3> QED BY <1>1, <3>1, SMT DEF DigitsRead
  <2> QED BY <2>1, SMT
<1>9. /\ left > 1 /\ left' = left - 1 => n = Digits(base)'
      /\ left = 1 => n = Hex4(base + 1)'
  BY <1>1, <1>2, <1>3, <1>6, <1>8, DigitAdded, Zenon
<1>10. CASE b \in HexDigit /\ left > 1 /\ number' = n /\ left' = left - 1
            /\ UNCHANGED <<at, todo, high, token, state, codepoint>>
  <2>1. AtHex'
    <3>1. number' = Digits(base)' /\ Len(text') = base + 4 - left'
      BY <1>1, <1>2, <1>3, <1>6, <1>9, <1>10, SMT
    <3>2. high' = high /\ token' = <<>>
      BY <1>4, <1>10, Zenon
    <3>3. CASE base = 2
      <4>1. Len(text') = 6 - left' /\ number' = Digits(2)'
        BY <1>1, <1>10, <3>1, <3>3, SMT
      <4> QED BY <1>4, <1>6, <3>2, <3>3, <4>1, Zenon DEF AtHex
    <3>4. CASE base = 8
      <4>1. Len(text') = 12 - left' /\ number' = Digits(8)'
        BY <1>1, <1>10, <3>1, <3>4, SMT
      <4> QED BY <1>4, <1>6, <1>7, <3>2, <3>4, <4>1, Zenon DEF AtHex
    <3> QED BY <3>3, <3>4, SMT
  <2> QED BY <1>1, <1>2, <1>10, <2>1, SMT DEF ReadInv, Place
<1>11. CASE b \in HexDigit /\ left = 1 /\ Unit(n) = "wait"
            /\ Goto("backslash") /\ high' = n /\ left' = 0 /\ number' = 0
            /\ UNCHANGED <<todo, token, state, codepoint>>
  <2>1. high = 0 /\ IsHigh(n)
    BY <1>11, SMT DEF Unit
  <2>2. base = 2
    BY <1>6, <2>1, SMT
  <2>3. Hex4(3)' = n /\ Len(text') = 6
    <3>1. 2 + 1 = 3
      BY SMT
    <3>2. Hex4(3)' = n
      BY <1>9, <1>11, <2>2, <3>1, Zenon
    <3> QED BY <1>2, <1>3, <1>6, <1>11, <2>2, <3>2, SMT
  <2>4. high' # 0 /\ high' = Hex4(3)'
    BY <1>11, <2>1, <2>3, SMT DEF IsHigh
  <2>5. at' = "backslash" /\ token' = <<>>
    BY <1>4, <1>11, Zenon DEF Goto
  <2>6. AtLow'
    BY <1>4, <2>3, <2>4, <2>5, SMT DEF AtLow
  <2> QED BY <1>2, <2>5, <2>6, SMT DEF ReadInv, Place
<1>12. CASE b \in HexDigit /\ left = 1 /\ Unit(n) = "add"
            /\ AddAll(Utf8(Combine(high, n)))
            /\ Goto("chars") /\ high' = 0 /\ left' = 0 /\ number' = 0
            /\ UNCHANGED todo
  <2>1. IsUnit(n)
    <3>1. PICK v \in Int : v = HexValue(b) /\ 0 <= v /\ v <= 15
      BY <1>12, HexValueType, Zenon
    <3> QED BY <1>1, <1>8, <1>12, <3>1, SMT DEF DigitsRead, IsUnit
  <2>2. IsScalar(Combine(high, n))
    BY <1>1, <1>12, <2>1, UnitAdded, Zenon
  <2>3. token' = Utf8(codepoint') /\ codepoint' = Combine(high, n)
    BY <1>1, <1>12, <2>2, Utf8Point, Zenon
  <2>4. Len(text') \in {6, 12} /\ codepoint' = Meaning'
    <3>1. text'[2] = LetterU
      BY <1>4, Zenon DEF UnitText
    <3>2. CASE base = 2
      <4>1. Hex4(3)' = n
        <5>1. 2 + 1 = 3
          BY SMT
        <5> QED BY <1>9, <1>12, <3>2, <5>1, Zenon
      <4>2. Len(text') = 6
        BY <1>2, <1>3, <1>6, <1>12, <3>2, SMT
      <4>3. codepoint' = n
        BY <1>6, <2>3, <3>2, SMT DEF Combine
      <4> QED BY <3>1, <4>1, <4>2, <4>3, SMT DEF Meaning
    <3>3. CASE base = 8
      <4>1. Hex4(9)' = n
        <5>1. 8 + 1 = 9
          BY SMT
        <5> QED BY <1>9, <1>12, <3>3, <5>1, Zenon
      <4>2. Len(text') = 12 /\ Len(text') # 6
        BY <1>2, <1>3, <1>6, <1>12, <3>3, SMT
      <4>3. high # 0 /\ high \in Int /\ Hex4(3)' = high
        BY <1>1, <1>6, <1>7, <3>3, Zenon DEF HighRead
      <4>4. codepoint' = high * 1024 + n - 56613888
        BY <2>3, <4>3, SMT DEF Combine
      <4>5. Meaning' = 65536 + (high - 55296) * 1024 + (n - 56320)
        BY <3>1, <4>1, <4>2, <4>3, SMT DEF Meaning
      <4>6. 65536 + (high - 55296) * 1024 + (n - 56320) = high * 1024 + n - 56613888
        BY <4>3, SMT
      <4> QED BY <4>2, <4>4, <4>5, <4>6, SMT
    <3> QED BY <3>2, <3>3, SMT
  <2>5. AtChars' /\ at' = "chars"
    BY <1>2, <1>4, <1>12, <2>2, <2>3, <2>4, Zenon DEF AtChars, Goto
  <2> QED BY <1>2, <2>5, CharsRead, Zenon
<1> QED BY <1>5, <1>8, <1>10, <1>11, <1>12, Zenon DEF Hex

\* So does what must come between two surrogates.
LEMMA LowRead ==
    ASSUME StringInv, ReadInv, NEW b \in Source, LowSurrogate(b)
    PROVE  ReadInv'
<1>1. at \in {"backslash", "u"} /\ Get(b) /\ AtLow
  BY SMT DEF LowSurrogate, ReadInv, Place
<1>2. /\ b \in 0 .. 256 /\ text' \in Seq(0 .. 256) /\ text' # <<>> /\ Len(text') = Len(text) + 1
      /\ text'[Len(text) + 1] = b
      /\ \A i \in 1 .. Len(text) : text'[i] = text[i]
  BY <1>1, TextGrows, Zenon
<1>3. Len(text) \in Int /\ Len(text) >= 6
  BY <1>1, SMT DEF AtLow
<1>4. UnitText' /\ token = <<>> /\ high # 0 /\ high = Hex4(3)'
  <2>1. text'[1] = text[1] /\ text'[2] = text[2] /\ Len(text') >= 2
    BY <1>2, <1>3, SMT
  <2>2. Hex4(3)' = Hex4(3)
    BY <1>2, <1>3, FirstUnitStays, Zenon
  <2> QED BY <1>1, <2>1, <2>2, Zenon DEF AtLow, UnitText
<1>5. CASE /\ at = "backslash" /\ b = Backslash
           /\ Goto("u")
           /\ UNCHANGED <<todo, left, number, high, token, state, codepoint>>
  <2>1. at' = "u" /\ Len(text') = 7
    BY <1>1, <1>2, <1>5, SMT DEF AtLow, Goto
  <2>2. AtLow'
    BY <1>4, <1>5, <2>1, Zenon DEF AtLow
  <2> QED BY <1>2, <2>1, <2>2, SMT DEF ReadInv, Place
<1>6. CASE /\ at = "u" /\ b = LetterU
           /\ Goto("hex") /\ left' = 4
           /\ UNCHANGED <<todo, number, high, token, state, codepoint>>
  <2>1. at' = "hex" /\ Len(text') = 12 - left'
    BY <1>1, <1>2, <1>6, SMT DEF AtLow, Goto
  <2>2. number' = Digits(8)'
    <3>1. number = 0
      BY <1>1, SMT DEF StringInv, InStep
    <3> QED BY <1>6, <3>1, SMT DEF Digits
  <2>3. AtHex'
    BY <1>4, <1>6, <2>1, <2>2, Zenon DEF AtHex
  <2> QED BY <1>2, <2>1, <2>3, SMT DEF ReadInv, Place
<1>7. CASE Fail
  <2>1. text'[1] = Backslash
    BY <1>4, Zenon DEF UnitText
  <2> QED BY <1>2, <1>7, <2>1, FailGoes, EscapeFails, Zenon
<1> QED BY <1>5, <1>6, <1>7, Zenon DEF LowSurrogate

\* Nothing has been read before a character.
LEMMA BetweenRead ==
    ASSUME ReadInv, NextChar \/ Relay \/ Restart
    PROVE  ReadInv'
<1>1. <<>> \in Seq(0 .. 256)
  BY SMT
<1>2. CASE NextChar \/ Relay
  <2>1. /\ at = "chars" /\ at' = "chars" /\ high' = high /\ token' = <<>> /\ text' = <<>>
    BY <1>2, Zenon DEF NextChar, Relay, Complete, scanner
  <2>2. high = 0
    BY <2>1, SMT DEF ReadInv, Place, AtChars
  <2>3. AtChars'
    BY <2>1, <2>2, Zenon DEF AtChars
  <2> QED BY <1>1, <2>1, <2>3, CharsRead, Zenon
<1>3. CASE Restart
  <2>1. at' = "chars" /\ high' = 0 /\ token' = <<>> /\ text' = <<>>
    BY <1>3, Zenon DEF Restart
  <2>2. AtChars'
    BY <2>1, Zenon DEF AtChars
  <2> QED BY <1>1, <2>1, <2>2, CharsRead, Zenon
<1> QED BY <1>2, <1>3, Zenon

\* At each place the scanner and the decoder have what the text says so far.
LEMMA ReadInvariant == Spec => []ReadInv
<1>1. Init => ReadInv
  <2> SUFFICES ASSUME Init
               PROVE  ReadInv
    OBVIOUS
  <2>1. at = "chars" /\ high = 0 /\ token = <<>> /\ text = <<>> /\ <<>> \in Seq(0 .. 256)
    BY SMT DEF Init
  <2>2. AtChars
    BY <2>1, Zenon DEF AtChars
  <2> QED BY <2>1, <2>2, SMT DEF ReadInv, Place
<1>2. StringInv /\ ReadInv /\ [Next]_vars => ReadInv'
  <2> SUFFICES ASSUME StringInv, ReadInv, [Next]_vars
               PROVE  ReadInv'
    OBVIOUS
  <2>1. ASSUME NEW b \in Source,
               Char(b) \/ NextByteInRange(b) \/ Escape(b) \/ Hex(b) \/ LowSurrogate(b)
        PROVE  ReadInv'
    BY <2>1, CharRead, NextByteRead, EscapeRead, HexRead, LowRead, Zenon
  <2>2. CASE NextChar \/ Relay \/ Restart
    BY <2>2, BetweenRead, Zenon
  <2>3. CASE UNCHANGED vars
    <3>1. /\ at' = at /\ todo' = todo /\ left' = left /\ number' = number /\ high' = high
          /\ token' = token /\ state' = state /\ codepoint' = codepoint /\ text' = text
      BY <2>3, Zenon DEF vars, scanner
    <3>2. /\ UnitText' <=> UnitText
          /\ Hex4(3)' = Hex4(3) /\ Meaning' = Meaning
          /\ Digits(2)' = Digits(2) /\ Digits(8)' = Digits(8)
      <4>1. Hex4(3)' = Hex4(3) /\ Hex4(9)' = Hex4(9)
        BY <3>1, SMT DEF Hex4
      <4>2. Meaning' = Meaning
        BY <3>1, <4>1, SMT DEF Meaning
      <4>3. Digits(2)' = Digits(2) /\ Digits(8)' = Digits(8)
        BY <3>1, Zenon DEF Digits
      <4> QED BY <3>1, <4>1, <4>2, <4>3, Zenon DEF UnitText
    <3>3. (AtChars <=> AtChars') /\ (AtBytes <=> AtBytes') /\ (AtEscape <=> AtEscape')
      <4>1. AtChars <=> AtChars'
        BY <3>1, <3>2, SMT DEF AtChars
      <4>2. AtBytes <=> AtBytes'
        BY <3>1, SMT DEF AtBytes
      <4>3. AtEscape <=> AtEscape'
        BY <3>1, SMT DEF AtEscape
      <4> QED BY <4>1, <4>2, <4>3, Zenon
    <3>4. (AtHex <=> AtHex') /\ (AtLow <=> AtLow')
      BY <3>1, <3>2, Zenon DEF AtHex, AtLow
    <3> QED BY <3>1, <3>3, <3>4, SMT DEF ReadInv, Place
  <2> QED BY <2>1, <2>2, <2>3, Zenon DEF Next
<1> QED BY <1>1, <1>2, StringInvariant, PTL DEF Spec

\* The first bytes that have been read are those of some character.
LEMMA BytesBegin ==
    ASSUME AtBytes
    PROVE  Begins(text)
<1>1. ASSUME NEW b1 \in 194 .. 244, text = <<b1>>
      PROVE  Begins(text)
  <2>1. b1 \in 128 .. 255 /\ Len(text) = 1 /\ text[1] = b1
    BY <1>1, SMT
  <2> QED BY <2>1, BeginsLead, SMT
<1>2. ASSUME NEW b1 \in 224 .. 244, NEW b2 \in SecondByte(b1), text = <<b1, b2>>
      PROVE  Begins(text)
  <2>1. b1 \in 194 .. 244
    BY SMT
  <2>2. b2 \in 0 .. 256
    BY <2>1, SecondBytes, SMT
  <2>3. Begins(<<b1, b2>>)
    BY ONLY b2 \in SecondByte(b1), <2>1, <2>2, BeginsSecond, Zenon
  <2> QED BY <1>2, <2>3, Zenon
<1>3. ASSUME NEW b1 \in 240 .. 244, NEW b2 \in SecondByte(b1), NEW b3 \in 128 .. 191,
             text = <<b1, b2, b3>>
      PROVE  Begins(text)
  <2>1. b1 \in 224 .. 244 /\ b3 \in 0 .. 256
    BY SMT
  <2>2. Begins(<<b1, b2, b3>>)
    BY ONLY b2 \in SecondByte(b1), b3 \in 128 .. 191, <2>1, BeginsThird, Zenon
  <2> QED BY <1>3, <2>2, Zenon
<1> QED BY <1>1, <1>2, <1>3, Zenon DEF AtBytes

\* dump_escaped decodes what the scanner has read to the character that the text says, in
\* its shortest encoding, for every text: what a client has typed is what the others see.
THEOREM DumpMeansText == Spec => []CodepointIsMeant
<1>1. ReadInv => CodepointIsMeant
  <2> SUFFICES ASSUME ReadInv, Complete
               PROVE  /\ IsScalar(codepoint)
                      /\ token = Utf8(codepoint)
                      /\ IF text[1] = Backslash THEN codepoint = Meaning ELSE text = token
    BY Zenon DEF CodepointIsMeant
  <2>1. AtChars /\ text # <<>>
    BY SMT DEF ReadInv, Place, Complete
  <2>2. text[2] \in DOMAIN Simple => text[2] # LetterU
    BY SMT DEF Simple, LetterU, Quote, Backslash, Slash
  <2>3. text[2] # LetterU => Meaning = Simple[text[2]]
    BY SMT DEF Meaning
  <2> QED BY <2>1, <2>2, <2>3, Zenon DEF AtChars, UnitText
<1> QED BY <1>1, ReadInvariant, PTL

\* Of the bytes above 7F the scanner refuses those that no UTF-8 has, at the first that is
\* wrong, and no others.
THEOREM OnlyUtf8 == Spec => []ScansUtf8
<1>1. ReadInv => ScansUtf8
  <2> SUFFICES ASSUME ReadInv, text # <<>>, text[1] \in 128 .. 255
               PROVE  at = "error" <=> ~Begins(text)
    BY Zenon DEF ScansUtf8
  <2>1. text[1] # Backslash /\ text[1] # Quote
    <3>1. \A x \in 128 .. 255 : x # Backslash /\ x # Quote
      BY SMT DEF Backslash, Quote
    <3> QED BY <3>1, Zenon
  <2>2. CASE at = "chars"
    <3>1. AtChars
      BY <2>2, SMT DEF ReadInv, Place
    <3>2. Begins(text)
      BY <2>1, <3>1, Zenon DEF AtChars, UnitText
    <3> QED BY <2>2, <3>2, SMT
  <2>3. CASE at = "bytes"
    <3>1. AtBytes
      BY <2>3, SMT DEF ReadInv, Place
    <3> QED BY <2>3, <3>1, BytesBegin, SMT
  <2>4. CASE at = "error"
    BY <2>4, SMT DEF ReadInv, Place
  <2>5. CASE at \in {"escape", "hex", "backslash", "u", "closed"}
    <3>1. text[1] = Backslash \/ text[1] = Quote
      BY <2>5, SMT DEF ReadInv, Place, AtEscape, AtHex, AtLow, UnitText
    <3> QED BY <2>1, <3>1, Zenon
  <2> QED BY <2>2, <2>3, <2>4, <2>5, Zenon DEF ReadInv
<1> QED BY <1>1, ReadInvariant, PTL

-----------------------------------------------------------------------------
\* What is dumped and read again

\* The shape of a character's bytes u.
Utf8Shape(cp, u) ==
    /\ u \in Seq(0 .. 256) /\ Len(u) \in 1 .. 4
    /\ cp < 128 => u = <<cp>> /\ u[1] = cp /\ Len(u) = 1
    /\ cp >= 128 =>
          /\ u[1] \in 194 .. 244 /\ u[2] \in SecondByte(u[1])
          /\ Len(u) = (IF u[1] <= 223 THEN 2 ELSE IF u[1] <= 239 THEN 3 ELSE 4)
          /\ u[1] > 223 => u[3] \in 128 .. 191
          /\ u[1] > 239 => u[4] \in 128 .. 191

\* The bytes of a character have that shape.
LEMMA Utf8First ==
    ASSUME NEW cp, IsScalar(cp)
    PROVE  Utf8Shape(cp, Utf8(cp))
<1>0. cp \in Int /\ 0 <= cp
  BY SMT DEF IsScalar
<1>1. CASE Utf8(cp) = <<cp>> /\ cp \in Int /\ 0 <= cp /\ cp <= 127
  <2>1. cp \in 0 .. 256 /\ ~(cp >= 128)
    BY <1>1, SMT
  <2>2. <<cp>> \in Seq(0 .. 256) /\ Len(<<cp>>) = 1 /\ <<cp>>[1] = cp
    BY <2>1
  <2>3. Utf8Shape(cp, <<cp>>)
    BY <1>1, <2>1, <2>2, SMT DEF Utf8Shape
  <2> QED BY <1>1, <2>3, Zenon
<1>2. ASSUME NEW b1 \in Int, NEW b2 \in Int, Utf8(cp) = <<b1, b2>>,
             194 <= b1, b1 <= 223, 128 <= b2, b2 <= 191,
             cp = (b1 - 192) * 64 + (b2 - 128)
      PROVE  Utf8Shape(cp, Utf8(cp))
  <2>1. b1 \in 0 .. 256 /\ b2 \in 0 .. 256
    BY <1>2, SMT
  <2>2. <<b1, b2>> \in Seq(0 .. 256) /\ Len(<<b1, b2>>) = 2 /\ <<b1, b2>>[1] = b1 /\ <<b1, b2>>[2] = b2
    BY <2>1
  <2>3. b2 \in SecondByte(b1)
    BY <1>2, SMT DEF SecondByte
  <2>4. ~(cp < 128) /\ cp >= 128 /\ b1 \in 194 .. 244 /\ ~(b1 > 223) /\ ~(b1 > 239)
    BY <1>2, SMT
  <2> QED BY <1>2, <2>1, <2>2, <2>3, <2>4, SMT DEF Utf8Shape
<1>3. ASSUME NEW b1 \in Int, NEW b2 \in Int, NEW b3 \in Int, Utf8(cp) = <<b1, b2, b3>>,
             224 <= b1, b1 <= 239, 128 <= b2, b2 <= 191, 128 <= b3, b3 <= 191,
             b1 = 224 => b2 >= 160, b1 = 237 => b2 <= 159,
             cp = ((b1 - 224) * 64 + (b2 - 128)) * 64 + (b3 - 128)
      PROVE  Utf8Shape(cp, Utf8(cp))
  <2>1. b1 \in 0 .. 256 /\ b2 \in 0 .. 256 /\ b3 \in 0 .. 256 /\ b3 \in 128 .. 191
    BY <1>3, SMT
  <2>2. /\ <<b1, b2, b3>> \in Seq(0 .. 256) /\ Len(<<b1, b2, b3>>) = 3
        /\ <<b1, b2, b3>>[1] = b1 /\ <<b1, b2, b3>>[2] = b2 /\ <<b1, b2, b3>>[3] = b3
    BY <2>1
  <2>3. b2 \in SecondByte(b1)
    BY <1>3, SMT DEF SecondByte
  <2>4. ~(cp < 128) /\ cp >= 128 /\ b1 \in 194 .. 244 /\ ~(b1 <= 223) /\ ~(b1 > 239)
    BY <1>3, SMT
  <2> QED BY <1>3, <2>1, <2>2, <2>3, <2>4, SMT DEF Utf8Shape
<1>4. ASSUME NEW b1 \in Int, NEW b2 \in Int, NEW b3 \in Int, NEW b4 \in Int, Utf8(cp) = <<b1, b2, b3, b4>>,
             240 <= b1, b1 <= 244, 128 <= b2, b2 <= 191,
             128 <= b3, b3 <= 191, 128 <= b4, b4 <= 191,
             b1 = 240 => b2 >= 144, b1 = 244 => b2 <= 143,
             cp = (((b1 - 240) * 64 + (b2 - 128)) * 64 + (b3 - 128)) * 64 + (b4 - 128)
      PROVE  Utf8Shape(cp, Utf8(cp))
  <2>1. /\ b1 \in 0 .. 256 /\ b2 \in 0 .. 256 /\ b3 \in 0 .. 256 /\ b4 \in 0 .. 256
        /\ b3 \in 128 .. 191 /\ b4 \in 128 .. 191
    BY <1>4, SMT
  <2>2. /\ <<b1, b2, b3, b4>> \in Seq(0 .. 256) /\ Len(<<b1, b2, b3, b4>>) = 4
        /\ <<b1, b2, b3, b4>>[1] = b1 /\ <<b1, b2, b3, b4>>[2] = b2
        /\ <<b1, b2, b3, b4>>[3] = b3 /\ <<b1, b2, b3, b4>>[4] = b4
    BY <2>1
  <2>3. b2 \in SecondByte(b1)
    BY <1>4, SMT DEF SecondByte
  <2>4. ~(cp < 128) /\ cp >= 128 /\ b1 \in 194 .. 244 /\ ~(b1 <= 223) /\ ~(b1 <= 239)
    BY <1>4, SMT
  <2> QED BY <1>4, <2>1, <2>2, <2>3, <2>4, SMT DEF Utf8Shape
<1> QED BY <1>1, <1>2, <1>3, <1>4, Utf8Bytes, SMT

\* Text t has been read of what is d, and rest is still to come.
ReadOf(d, t, rest) ==
    /\ d \in Seq(0 .. 256) /\ t \in Seq(0 .. 256) /\ rest \in Seq(0 .. 256)
    /\ Len(t) + Len(rest) = Len(d)
    /\ \A i \in 1 .. Len(t) : t[i] = d[i]
    /\ \A i \in 1 .. Len(rest) : rest[i] = d[Len(t) + i]

\* The four forms of what dump_escaped writes for a character: the character, the bytes
\* of one above 7F, a short escape and a control character in hex digits.
PlainForm(cp, d) == cp \in Plain /\ d = <<cp>> /\ d[1] = cp /\ Len(d) = 1
BytesForm(cp, d) == cp >= 128 /\ d = Utf8(cp) /\ Utf8Shape(cp, d)
ShortForm(cp, d) ==
    Len(d) = 2 /\ d[1] = Backslash /\ d[2] \in DOMAIN Simple /\ Simple[d[2]] = cp
HexForm(cp, d) ==
    /\ Len(d) = 6 /\ d[1] = Backslash /\ d[2] = LetterU /\ d[3] = 48 /\ d[4] = 48
    /\ d[5] \in HexDigit /\ d[6] \in HexDigit
    /\ HexValue(d[5]) * 16 + HexValue(d[6]) = cp /\ cp < 32

Dumped(cp, d) ==
    /\ cp \in Int /\ d \in Seq(0 .. 256)
    /\ PlainForm(cp, d) \/ BytesForm(cp, d) \/ ShortForm(cp, d) \/ HexForm(cp, d)

\* What the next process reads is what was dumped for it, and it has not gone wrong.
Replay ==
    sent # <<>> =>
        /\ at \in {"chars", "bytes", "escape", "hex"}
        /\ \E cp : /\ IsScalar(cp) /\ sent = Utf8(cp)
                   /\ Dumped(cp, DumpEscaped(cp, sent))
                   /\ ReadOf(DumpEscaped(cp, sent), text, input)

\* Nothing has been read yet.
LEMMA ReadOfBegins ==
    ASSUME NEW d \in Seq(0 .. 256)
    PROVE  ReadOf(d, <<>>, d)
<1>1. <<>> \in Seq(0 .. 256) /\ Len(<<>>) = 0 /\ Len(d) \in Nat
  BY SMT
<1> QED BY <1>1, SMT DEF ReadOf

\* One more has been read.
LEMMA ReadOfGoes ==
    ASSUME NEW d, NEW t, NEW rest, ReadOf(d, t, rest), rest # <<>>
    PROVE  /\ Len(t) + 1 \in 1 .. Len(d) /\ Head(rest) = d[Len(t) + 1]
           /\ ReadOf(d, Append(t, Head(rest)), Tail(rest))
<1>1. /\ d \in Seq(0 .. 256) /\ t \in Seq(0 .. 256) /\ rest \in Seq(0 .. 256)
      /\ Len(t) + Len(rest) = Len(d)
      /\ \A i \in 1 .. Len(t) : t[i] = d[i]
      /\ \A i \in 1 .. Len(rest) : rest[i] = d[Len(t) + i]
  BY Zenon DEF ReadOf
<1>2. Len(t) \in Nat /\ Len(rest) \in Nat /\ Len(d) \in Nat /\ Len(rest) >= 1
  BY <1>1, SMT
<1>3. /\ Head(rest) = rest[1] /\ Head(rest) \in 0 .. 256
      /\ Tail(rest) \in Seq(0 .. 256) /\ Len(Tail(rest)) = Len(rest) - 1
      /\ \A i \in 1 .. Len(Tail(rest)) : Tail(rest)[i] = rest[i + 1]
  <2>1. rest # <<>>
    OBVIOUS
  <2>2. Head(rest) \in 0 .. 256 /\ Tail(rest) \in Seq(0 .. 256) /\ Len(Tail(rest)) = Len(rest) - 1
    BY <1>1, <2>1, HeadTailProperties
  <2>3. Head(rest) = rest[1]
    BY <1>1, <2>1, SMT
  <2>4. \A i \in 1 .. Len(Tail(rest)) : Tail(rest)[i] = rest[i + 1]
    BY <1>1, <1>2, <2>1, <2>2, HeadTailProperties
  <2> QED BY <2>2, <2>3, <2>4
<1>4. Head(rest) = d[Len(t) + 1]
  BY <1>1, <1>2, <1>3, SMT
<1> DEFINE u == Append(t, Head(rest))
<1>6. /\ u \in Seq(0 .. 256) /\ Len(u) = Len(t) + 1 /\ u[Len(t) + 1] = Head(rest)
      /\ \A i \in 1 .. Len(t) : u[i] = t[i]
  <2>1. t \in Seq(0 .. 256) /\ Head(rest) \in 0 .. 256
    BY <1>1, <1>3
  <2> DEFINE S == 0 .. 256
  <2>2. t \in Seq(S) /\ Head(rest) \in S
    BY <2>1
  <2> HIDE DEF S
  <2>3. PICK e : e = Head(rest) /\ e \in S
    BY <2>2
  <2>4. /\ Append(t, e) \in Seq(S) /\ Len(Append(t, e)) = Len(t) + 1
        /\ Append(t, e)[Len(t) + 1] = e
        /\ \A i \in 1 .. Len(t) : Append(t, e)[i] = t[i]
    BY ONLY <2>2, <2>3, Appended, ZenonT(60)
  <2> QED BY <2>3, <2>4 DEF S, u
<1> HIDE DEF u
<1>7. \A i \in 1 .. Len(u) : u[i] = d[i]
  <2> SUFFICES ASSUME NEW i \in 1 .. Len(u)
               PROVE  u[i] = d[i]
    OBVIOUS
  <2>1. CASE i = Len(t) + 1
    BY <1>4, <1>6, <2>1, SMT
  <2>2. CASE i \in 1 .. Len(t)
    BY <1>1, <1>6, <2>2, SMT
  <2> QED BY <1>2, <1>6, <2>1, <2>2, SMT
<1>8. \A i \in 1 .. Len(Tail(rest)) : Tail(rest)[i] = d[Len(u) + i]
  <2> SUFFICES ASSUME NEW i \in 1 .. Len(Tail(rest))
               PROVE  Tail(rest)[i] = d[Len(u) + i]
    OBVIOUS
  <2>1. i + 1 \in 1 .. Len(rest) /\ Len(t) + (i + 1) = Len(u) + i
    BY <1>2, <1>3, <1>6, SMT
  <2> QED BY <1>1, <1>3, <2>1, Zenon
<1>9. Len(u) + Len(Tail(rest)) = Len(d)
  BY <1>1, <1>2, <1>3, <1>6, SMT
<1>10. ReadOf(d, u, Tail(rest))
  BY <1>1, <1>3, <1>6, <1>7, <1>8, <1>9, Zenon DEF ReadOf
<1> QED BY <1>1, <1>2, <1>4, <1>10, SMT DEF u

\* Escapes are not single characters.
LEMMA Letters ==
    /\ Backslash \in 0 .. 127 /\ LetterU \in 0 .. 127 /\ Backslash # Quote
    /\ Backslash \notin Plain /\ Quote \notin Plain
    /\ LetterU \notin DOMAIN Simple
    /\ 48 \in HexDigit /\ HexValue(48) = 0
<1>1. LetterU \notin DOMAIN Simple
  BY SMT DEF Simple, LetterU, Quote, Backslash, Slash
<1>2. /\ Backslash \in 0 .. 127 /\ LetterU \in 0 .. 127 /\ Backslash # Quote
      /\ Backslash \notin Plain /\ Quote \notin Plain
  BY SMT DEF LetterU, Quote, Backslash, Plain
<1>3. 48 \in HexDigit /\ HexValue(48) = 0
  BY SMT DEF HexDigit, HexValue
<1> QED BY <1>1, <1>2, <1>3

\* The digits that dump_escaped writes.
LEMMA HexOfDigit ==
    ASSUME NEW n \in Int, 0 <= n, n <= 15
    PROVE  HexOf(n) \in HexDigit /\ HexOf(n) \in 0 .. 256 /\ HexValue(HexOf(n)) = n
<1>1. CASE n < 10
  BY <1>1, SMT DEF HexOf, HexDigit, HexValue
<1>2. CASE n >= 10
  BY <1>2, SMT DEF HexOf, HexDigit, HexValue
<1> QED BY <1>1, <1>2, SMT

\* Each short escape has a letter, which means it.
LEMMA LetterFound ==
    ASSUME NEW cp \in {8, 9, 10, 12, 13}
    PROVE  Letter(cp) \in DOMAIN Simple /\ Simple[Letter(cp)] = cp
<1>1. \E b \in DOMAIN Simple : Simple[b] = cp
  <2>1. /\ 98 \in DOMAIN Simple /\ Simple[98] = 8
        /\ 116 \in DOMAIN Simple /\ Simple[116] = 9
        /\ 110 \in DOMAIN Simple /\ Simple[110] = 10
        /\ 102 \in DOMAIN Simple /\ Simple[102] = 12
        /\ 114 \in DOMAIN Simple /\ Simple[114] = 13
    BY SMT DEF Simple, Quote, Backslash, Slash
  <2> QED BY <2>1, SMT
<1> QED BY <1>1, Zenon DEF Letter

\* Whatever the character, what is written has one of the forms.
LEMMA DumpForms ==
    ASSUME NEW cp, IsScalar(cp)
    PROVE  Dumped(cp, DumpEscaped(cp, Utf8(cp)))
<1>1. cp \in Int /\ 0 <= cp
  BY SMT DEF IsScalar
<1>2. Utf8Shape(cp, Utf8(cp))
  BY Utf8First, Zenon
<1>3. CASE cp \in {Quote, Backslash}
  <2>1. DumpEscaped(cp, Utf8(cp)) = <<Backslash, cp>>
    BY <1>1, <1>3, SMT DEF DumpEscaped, Quote, Backslash
  <2>2. Backslash \in 0 .. 256 /\ cp \in 0 .. 256
    BY <1>1, <1>3, SMT DEF Quote, Backslash
  <2>3. <<Backslash, cp>> \in Seq(0 .. 256) /\ Len(<<Backslash, cp>>) = 2
    BY <2>2
  <2>4. cp \in DOMAIN Simple /\ Simple[cp] = cp
    BY <1>3, SMT DEF Simple, Quote, Backslash, Slash
  <2>5. ShortForm(cp, <<Backslash, cp>>)
    BY <2>3, <2>4, SMT DEF ShortForm
  <2> QED BY <1>1, <2>1, <2>3, <2>5, Zenon DEF Dumped
<1>4. CASE cp \in {8, 9, 10, 12, 13}
  <2>1. DumpEscaped(cp, Utf8(cp)) = <<Backslash, Letter(cp)>>
    BY <1>4, SMT DEF DumpEscaped, Quote, Backslash
  <2>2. PICK x : x = Letter(cp) /\ x \in DOMAIN Simple /\ Simple[x] = cp
    <3>1. Letter(cp) \in DOMAIN Simple /\ Simple[Letter(cp)] = cp
      BY <1>4, LetterFound
    <3> QED BY <3>1, Zenon
  <2>3. Backslash \in 0 .. 256 /\ x \in 0 .. 256
    <3>1. x \in Int /\ 0 <= x /\ x <= 127
      BY <2>2, SimpleType, Zenon
    <3> QED BY <3>1, SMT DEF Backslash
  <2>4. <<Backslash, x>> \in Seq(0 .. 256) /\ Len(<<Backslash, x>>) = 2
    BY <2>3
  <2>5. ShortForm(cp, <<Backslash, x>>)
    BY <2>2, <2>4, SMT DEF ShortForm
  <2> QED BY <1>1, <2>1, <2>2, <2>4, <2>5, Zenon DEF Dumped
<1>5. CASE cp \in (0 .. 31) \ {8, 9, 10, 12, 13}
  <2>1. DumpEscaped(cp, Utf8(cp)) = <<Backslash, LetterU, 48, 48, HexOf(cp \div 16), HexOf(cp % 16)>>
    BY <1>5, SMT DEF DumpEscaped, Quote, Backslash
  <2>2. PICK x, y : /\ x = HexOf(cp \div 16) /\ y = HexOf(cp % 16)
                    /\ x \in HexDigit /\ y \in HexDigit /\ x \in 0 .. 256 /\ y \in 0 .. 256
                    /\ HexValue(x) * 16 + HexValue(y) = cp
    <3>1. PICK p \in Int, q \in Int : p = cp \div 16 /\ q = cp % 16 /\ 0 <= p /\ p <= 15 /\ 0 <= q /\ q <= 15 /\ p * 16 + q = cp
      BY <1>1, <1>5, SMT
    <3>2. /\ HexOf(p) \in HexDigit /\ HexOf(p) \in 0 .. 256 /\ HexValue(HexOf(p)) = p
          /\ HexOf(q) \in HexDigit /\ HexOf(q) \in 0 .. 256 /\ HexValue(HexOf(q)) = q
      BY <3>1, HexOfDigit, Zenon
    <3> QED BY <3>1, <3>2, Zenon
  <2>3. Backslash \in 0 .. 256 /\ LetterU \in 0 .. 256 /\ 48 \in 0 .. 256
    BY SMT DEF Backslash, LetterU
  <2> DEFINE d == <<Backslash, LetterU, 48, 48, x, y>>
  <2>4. /\ d \in Seq(0 .. 256) /\ Len(d) = 6 /\ d[1] = Backslash /\ d[2] = LetterU
        /\ d[3] = 48 /\ d[4] = 48 /\ d[5] = x /\ d[6] = y
    BY <2>2, <2>3
  <2>5. DumpEscaped(cp, Utf8(cp)) = d
    BY <2>1, <2>2, Zenon
  <2>6. cp < 32
    BY <1>5, SMT
  <2> HIDE DEF d
  <2>7. HexForm(cp, d)
    BY <2>2, <2>4, <2>6, Zenon DEF HexForm
  <2> QED BY <1>1, <2>4, <2>5, <2>7, Zenon DEF Dumped
<1>6. CASE cp \notin {Quote, Backslash} /\ cp >= 32
  <2>1. DumpEscaped(cp, Utf8(cp)) = Utf8(cp)
    BY <1>1, <1>6, SMT DEF DumpEscaped
  <2>2. Utf8(cp) \in Seq(0 .. 256)
    BY <1>2, Zenon DEF Utf8Shape
  <2>3. CASE cp < 128
    <3>1. cp \in Plain
      BY <1>1, <1>6, <2>3, SMT DEF Plain
    <3>2. PlainForm(cp, Utf8(cp))
      BY <1>2, <2>3, <3>1, Zenon DEF Utf8Shape, PlainForm
    <3> QED BY <1>1, <2>1, <2>2, <3>2, Zenon DEF Dumped
  <2>4. CASE cp >= 128
    <3>1. BytesForm(cp, Utf8(cp))
      BY <1>2, <2>4, Zenon DEF BytesForm
    <3> QED BY <1>1, <2>1, <2>2, <3>1, Zenon DEF Dumped
  <2> QED BY <1>1, <2>3, <2>4, SMT
<1> QED BY <1>1, <1>3, <1>4, <1>5, <1>6, SMT

\* The first byte says which form it is.
LEMMA FirstSays ==
    ASSUME NEW cp, NEW d, Dumped(cp, d)
    PROVE  /\ Len(d) \in 1 .. 6
           /\ d[1] = Backslash => ShortForm(cp, d) \/ HexForm(cp, d)
           /\ d[1] \in 194 .. 244 => BytesForm(cp, d)
           /\ d[1] \in Plain \cup {Backslash} \cup (194 .. 244)
           /\ d[1] \in Plain => PlainForm(cp, d)
<1>0. Backslash \notin Plain /\ \A x \in 194 .. 244 : x # Backslash /\ x \notin Plain
  BY SMT DEF Backslash, Plain
<1>1. CASE PlainForm(cp, d)
  <2>1. d[1] \in Plain /\ Len(d) = 1
    BY <1>1, Zenon DEF PlainForm
  <2> QED BY <1>0, <1>1, <2>1, SMT
<1>2. CASE BytesForm(cp, d)
  <2>1. d[1] \in 194 .. 244 /\ Len(d) \in 1 .. 4
    BY <1>2, Zenon DEF BytesForm, Utf8Shape
  <2> QED BY <1>0, <1>2, <2>1, SMT
<1>3. CASE ShortForm(cp, d) \/ HexForm(cp, d)
  <2>1. d[1] = Backslash /\ (Len(d) = 2 \/ Len(d) = 6)
    BY <1>3, Zenon DEF ShortForm, HexForm
  <2> QED BY <1>0, <1>3, <2>1, SMT
<1> QED BY <1>1, <1>2, <1>3, Zenon DEF Dumped

\* Each step of the scanner within what was dumped goes well: the first byte,
LEMMA CharReplays ==
    ASSUME NEW cp, NEW d, Dumped(cp, d), NEW b, b = d[1], Char(b)
    PROVE  at' \in {"chars", "bytes", "escape", "hex"}
<1>1. b \in Plain \cup {Backslash} \cup (194 .. 244)
  BY FirstSays, Zenon
<1>2. b # Quote
  BY <1>1, SMT DEF Plain, Quote, Backslash
<1>3. b \in 194 .. 244 => Ranges(b) # <<>>
  BY RangesAre, Zenon
<1>4. at = "chars"
  BY Zenon DEF Char
<1>5. ~(b \notin {Quote, Backslash} \cup Plain /\ Ranges(b) = <<>>)
  BY <1>1, <1>3, Zenon
<1> QED BY <1>2, <1>4, <1>5, SMT DEF Char, Goto

\* a further byte of a character,
LEMMA NextByteReplays ==
    ASSUME NEW cp, NEW d, Dumped(cp, d), AtBytes,
           text \in Seq(0 .. 256), Len(text) + 1 \in 1 .. Len(d),
           \A i \in 1 .. Len(text) : text[i] = d[i],
           NEW b, b = d[Len(text) + 1], NextByteInRange(b)
    PROVE  at' \in {"chars", "bytes", "escape", "hex"}
<1>1. SUFFICES b \in Head(todo)[1] .. Head(todo)[2]
  BY SMT DEF NextByteInRange, Goto
<1>2. ASSUME text[1] \in 194 .. 244, Len(text) \in 1 .. 3
      PROVE  /\ text[1] = d[1] /\ d[2] \in SecondByte(d[1])
             /\ d[1] > 223 => d[3] \in 128 .. 191
             /\ d[1] > 239 => d[4] \in 128 .. 191
  <2>1. text[1] = d[1]
    BY <1>2, SMT
  <2>2. Utf8Shape(cp, d) /\ cp >= 128
    BY <1>2, <2>1, FirstSays, Zenon DEF BytesForm
  <2> QED BY <2>1, <2>2, SMT DEF Utf8Shape
<1>3. Head(<<Any>>) = Any /\ Head(<<Any, Any>>) = Any
  OBVIOUS
<1>4. Any[1] = 128 /\ Any[2] = 191
  BY DEF Any
<1>5. ASSUME NEW b1 \in 194 .. 244, text = <<b1>>, todo = Ranges(b1)
      PROVE  b \in Head(todo)[1] .. Head(todo)[2]
  <2>1. Len(text) = 1 /\ Len(text) + 1 = 2 /\ text[1] = b1
    BY <1>5, SMT
  <2>2. b = d[2] /\ d[1] = b1 /\ d[2] \in SecondByte(d[1])
    BY <1>2, <2>1, SMT
  <2> QED BY <1>5, <2>2, RangesAre, Zenon
<1>6. ASSUME NEW b1 \in 224 .. 244, NEW b2 \in SecondByte(b1), text = <<b1, b2>>,
             todo = (IF b1 <= 239 THEN <<Any>> ELSE <<Any, Any>>)
      PROVE  b \in Head(todo)[1] .. Head(todo)[2]
  <2>1. Len(text) = 2 /\ Len(text) + 1 = 3 /\ text[1] = b1 /\ b1 > 223
    BY <1>6, SMT
  <2>2. b \in 128 .. 191
    BY <1>2, <2>1, SMT
  <2>3. Head(todo) = Any
    BY <1>3, <1>6, SMT
  <2>4. b \in Any[1] .. Any[2]
    BY <1>4, <2>2, SMT
  <2> QED BY <2>3, <2>4, Zenon
<1>7. ASSUME NEW b1 \in 240 .. 244, NEW b2 \in SecondByte(b1), NEW b3 \in 128 .. 191,
             text = <<b1, b2, b3>>, todo = <<Any>>
      PROVE  b \in Head(todo)[1] .. Head(todo)[2]
  <2>1. Len(text) = 3 /\ Len(text) + 1 = 4 /\ text[1] = b1 /\ b1 > 239
    BY <1>7, SMT
  <2>2. b \in 128 .. 191
    BY <1>2, <2>1, SMT
  <2>3. Head(todo) = Any
    BY <1>3, <1>7, SMT
  <2>4. b \in Any[1] .. Any[2]
    BY <1>4, <2>2, SMT
  <2> QED BY <2>3, <2>4, Zenon
<1> QED BY <1>5, <1>6, <1>7, Zenon DEF AtBytes

\* the letter of an escape,
LEMMA EscapeReplays ==
    ASSUME NEW cp, NEW d, Dumped(cp, d), AtEscape,
           Len(text) + 1 \in 1 .. Len(d), \A i \in 1 .. Len(text) : text[i] = d[i],
           NEW b, b = d[Len(text) + 1], Escape(b)
    PROVE  at' \in {"chars", "bytes", "escape", "hex"}
<1>1. Len(text) = 1 /\ text[1] = Backslash /\ Len(text) + 1 = 2
  BY SMT DEF AtEscape
<1>2. d[1] = Backslash
  BY <1>1, SMT
<1>3. b \in DOMAIN Simple \cup {LetterU}
  BY <1>1, <1>2, FirstSays, ZenonT(60) DEF ShortForm, HexForm
<1> QED BY <1>3, SMT DEF Escape, Goto

\* a digit, of which the last makes a control character and no surrogate.
LEMMA HexReplays ==
    ASSUME StringInv, ReadInv, NEW b \in Source, Hex(b),
           NEW cp, NEW d, Dumped(cp, d),
           Len(text) + 1 \in 1 .. Len(d), \A i \in 1 .. Len(text) : text[i] = d[i],
           b = d[Len(text) + 1]
    PROVE  at' \in {"chars", "bytes", "escape", "hex"}
<1>1. at = "hex" /\ Get(b) /\ AtHex /\ left \in 1 .. 4 /\ text \in Seq(0 .. 256)
  BY SMT DEF Hex, StringInv, InStep, ReadInv, Place, DigitsRead
<1>2. /\ b \in 0 .. 256 /\ Len(text') = Len(text) + 1 /\ text'[Len(text) + 1] = b
      /\ \A i \in 1 .. Len(text) : text'[i] = text[i]
  BY <1>1, TextGrows, Zenon
<1>3. HexForm(cp, d)
  <2>1. Len(text) >= 2 /\ text[1] = Backslash /\ text[2] = LetterU
    BY <1>1, Zenon DEF AtHex, UnitText
  <2>2. d[1] = Backslash /\ d[2] = LetterU
    BY <1>1, <2>1, SMT
  <2> QED BY <2>2, Letters, FirstSays, ZenonT(60) DEF ShortForm
<1>4. Len(text) \in Int /\ Len(text) <= 5
  BY <1>1, <1>3, SMT DEF HexForm
<1>5. high = 0 /\ Len(text) = 6 - left /\ number = Digits(2)
  BY <1>1, <1>4, SMT DEF AtHex
<1>6. b \in HexDigit
  <2>1. Len(text) + 1 \in {3, 4, 5, 6}
    BY <1>1, <1>5, SMT
  <2> QED BY <1>3, <2>1, Letters, SMT DEF HexForm
<1>7. PICK n \in Int : n = number * 16 + HexValue(b)
  <2>1. HexValue(b) \in Int /\ number \in Int
    <3>1. HexValue(b) \in Int
      BY <1>2, HexValueInt, Zenon
    <3> QED BY <1>1, <3>1, SMT DEF DigitsRead, StringInv, InStep
  <2> QED BY <2>1, SMT
<1>8. left = 1 => n = cp /\ cp < 32 /\ 0 <= cp
  <2> SUFFICES ASSUME left = 1
               PROVE  n = cp /\ cp < 32 /\ 0 <= cp
    OBVIOUS
  <2>1. Len(text) = 5 /\ b = d[6]
    BY <1>5, SMT
  <2>2. text[3] = 48 /\ text[4] = 48 /\ text[5] = d[5]
    BY <1>3, <2>1, SMT DEF HexForm
  <2>3. PICK h1 \in Int, h2 \in Int : h1 = HexValue(d[5]) /\ h2 = HexValue(d[6])
                                      /\ 0 <= h1 /\ 0 <= h2
    BY <1>3, HexValueType, Zenon DEF HexForm
  <2>4. number = HexValue(text[3]) * 256 + HexValue(text[4]) * 16 + HexValue(text[5])
    BY <1>5, SMT DEF Digits
  <2>5. number = h1
    BY <2>2, <2>3, <2>4, Letters, SMT
  <2>6. n = h1 * 16 + h2
    BY <1>7, <2>1, <2>3, <2>5, Zenon
  <2>7. h1 * 16 + h2 = cp /\ cp < 32
    BY <1>3, <2>3, Zenon DEF HexForm
  <2> QED BY <2>3, <2>6, <2>7, SMT
<1>9. left = 1 => Unit(n) = "add"
  BY <1>5, <1>7, <1>8, SMT DEF Unit, IsHigh, IsLow
<1>10. CASE left > 1 /\ UNCHANGED at
  BY <1>1, <1>10, SMT
<1>11. CASE Goto("chars")
  BY <1>11, SMT DEF Goto
<1> QED BY <1>6, <1>7, <1>9, <1>10, <1>11, SMT DEF Hex

\* One more byte of what was dumped is read.
LEMMA ReadReplays ==
    ASSUME StringInv, ReadInv, Replay, NEW b \in Source,
           Char(b) \/ NextByteInRange(b) \/ Escape(b) \/ Hex(b) \/ LowSurrogate(b)
    PROVE  Replay'
<1>1. Get(b) /\ sent' = sent
  BY Zenon DEF Char, NextByteInRange, Escape, Hex, LowSurrogate, Get
<1> SUFFICES ASSUME sent # <<>>
             PROVE  Replay'
  BY <1>1, Zenon DEF Replay
<1>2. /\ at \in {"chars", "bytes", "escape", "hex"}
      /\ input # <<>> /\ b = Head(input)
      /\ text' = Append(text, b) /\ input' = Tail(input)
  <2>1. input # <<>> /\ b = Head(input)
    BY SMT DEF Source
  <2> QED BY <1>1, <2>1, Zenon DEF Replay, Get
<1>3. PICK cp : /\ IsScalar(cp) /\ sent = Utf8(cp)
                /\ Dumped(cp, DumpEscaped(cp, sent))
                /\ ReadOf(DumpEscaped(cp, sent), text, input)
  BY Zenon DEF Replay
<1>4. PICK d : d = DumpEscaped(cp, sent) /\ Dumped(cp, d) /\ ReadOf(d, text, input)
  BY <1>3, Zenon
<1>5. /\ Len(text) + 1 \in 1 .. Len(d) /\ b = d[Len(text) + 1]
      /\ ReadOf(d, text', input')
  BY ONLY <1>2, <1>4, ReadOfGoes, Zenon
<1>6. text \in Seq(0 .. 256) /\ \A i \in 1 .. Len(text) : text[i] = d[i]
  BY <1>4, Zenon DEF ReadOf
<1>7. at' \in {"chars", "bytes", "escape", "hex"}
  <2>1. CASE Char(b)
    <3>1. Len(text) + 1 = 1
      <4>1. text = <<>>
        BY <2>1, AtStart, Zenon DEF Char
      <4> QED BY <4>1, SMT
    <3> QED BY <1>4, <1>5, <2>1, <3>1, CharReplays, Zenon
  <2>2. CASE NextByteInRange(b)
    <3>1. AtBytes
      BY <2>2, SMT DEF ReadInv, Place, NextByteInRange
    <3> QED BY <1>4, <1>5, <1>6, <2>2, <3>1, NextByteReplays, Zenon
  <2>3. CASE Escape(b)
    <3>1. AtEscape
      BY <2>3, SMT DEF ReadInv, Place, Escape
    <3> QED BY <1>4, <1>5, <1>6, <2>3, <3>1, EscapeReplays, Zenon
  <2>4. CASE Hex(b)
    BY <1>4, <1>5, <1>6, <2>4, HexReplays, Zenon
  <2>5. CASE LowSurrogate(b)
    BY <1>2, <2>5, SMT DEF LowSurrogate
  <2> QED BY <2>1, <2>2, <2>3, <2>4, <2>5, Zenon
<1>8. DumpEscaped(cp, sent') = d
  BY <1>1, <1>4, Zenon
<1> QED BY <1>1, <1>3, <1>4, <1>5, <1>7, <1>8, Zenon DEF Replay

\* A message that is dumped.
LEMMA RelayReplays ==
    ASSUME ReadInv, Relay
    PROVE  Replay'
<1>1. /\ at' = "chars" /\ text' = <<>>
      /\ sent' = token /\ input' = DumpEscaped(codepoint, token)
  BY Zenon DEF Relay, Complete, scanner
<1>2. IsScalar(codepoint) /\ token = Utf8(codepoint)
  BY SMT DEF ReadInv, Place, AtChars, Relay, Complete
<1>3. PICK cp, d : cp = codepoint /\ d = DumpEscaped(cp, token) /\ Dumped(cp, d)
  BY <1>2, DumpForms, Zenon
<1>4. ReadOf(d, <<>>, d)
  BY <1>3, ReadOfBegins, Zenon DEF Dumped
<1>5. d = DumpEscaped(cp, sent') /\ d = input' /\ text' = <<>>
  BY <1>1, <1>3, Zenon
<1>6. IsScalar(cp) /\ sent' = Utf8(cp)
  BY <1>1, <1>2, <1>3, Zenon
<1>7. ReadOf(DumpEscaped(cp, sent'), text', input')
  BY <1>4, <1>5, Zenon
<1>8. Dumped(cp, DumpEscaped(cp, sent'))
  BY <1>3, <1>5, Zenon
<1> QED BY <1>1, <1>6, <1>7, <1>8, Zenon DEF Replay

\* The next process reads what was dumped for it and does not go wrong.
LEMMA ReplayInvariant == Spec => []Replay
<1>1. Init => Replay
  BY Zenon DEF Init, Replay
<1>2. StringInv /\ ReadInv /\ Replay /\ [Next]_vars => Replay'
  <2> SUFFICES ASSUME StringInv, ReadInv, Replay, [Next]_vars
               PROVE  Replay'
    OBVIOUS
  <2>1. ASSUME NEW b \in Source,
               Char(b) \/ NextByteInRange(b) \/ Escape(b) \/ Hex(b) \/ LowSurrogate(b)
        PROVE  Replay'
    BY <2>1, ReadReplays, Zenon
  <2>2. CASE NextChar
    BY <2>2, Zenon DEF NextChar, Replay
  <2>3. CASE Relay
    BY <2>3, RelayReplays, Zenon
  <2>4. CASE Restart
    BY <2>4, Zenon DEF Restart, Replay
  <2>5. CASE UNCHANGED vars
    BY <2>5, Zenon DEF vars, scanner, Replay
  <2> QED BY <2>1, <2>2, <2>3, <2>4, <2>5, Zenon DEF Next
<1> QED BY <1>1, <1>2, StringInvariant, ReadInvariant, PTL DEF Spec

-----------------------------------------------------------------------------
\* The end of what was dumped is the end of a character, the same

\* The first byte says how many there are.
LEMMA SameLength ==
    ASSUME NEW c1, NEW u1, NEW c2, NEW u2, c1 \in Int, c2 \in Int,
           Utf8Shape(c1, u1), Utf8Shape(c2, u2), u1[1] = u2[1]
    PROVE  Len(u1) = Len(u2)
<1> DEFINE Size(f) == IF f < 128 THEN 1 ELSE IF f <= 223 THEN 2 ELSE IF f <= 239 THEN 3 ELSE 4
<1>1. ASSUME NEW c \in Int, NEW u, Utf8Shape(c, u)
      PROVE  Len(u) = Size(u[1])
  <2>1. CASE c < 128
    <3>1. u[1] = c /\ Len(u) = 1
      BY <1>1, <2>1, Zenon DEF Utf8Shape
    <3> QED BY <2>1, <3>1, SMT
  <2>2. CASE c >= 128
    <3>1. /\ u[1] \in 194 .. 244
          /\ Len(u) = (IF u[1] <= 223 THEN 2 ELSE IF u[1] <= 239 THEN 3 ELSE 4)
      BY <1>1, <2>2, Zenon DEF Utf8Shape
    <3>2. ~(u[1] < 128)
      BY <3>1, SMT
    <3> QED BY <3>1, <3>2, SMT
  <2> QED BY <2>1, <2>2, SMT
<1> HIDE DEF Size
<1>2. Len(u1) = Size(u1[1]) /\ Len(u2) = Size(u2[1])
  BY <1>1, Zenon
<1> QED BY <1>2, Zenon

\* The second byte says which escape it is.
LEMMA SecondSays ==
    ASSUME NEW cp, NEW d, Dumped(cp, d), d[1] = Backslash
    PROVE  /\ Len(d) = 2 \/ Len(d) = 6
           /\ d[2] \in DOMAIN Simple => ShortForm(cp, d)
           /\ d[2] = LetterU => HexForm(cp, d)
<1>1. ShortForm(cp, d) \/ HexForm(cp, d)
  BY FirstSays, Zenon
<1>2. LetterU \notin DOMAIN Simple
  BY Letters, Zenon
<1>3. ShortForm(cp, d) => Len(d) = 2 /\ d[2] \in DOMAIN Simple
  BY Zenon DEF ShortForm
<1>4. HexForm(cp, d) => Len(d) = 6 /\ d[2] = LetterU
  BY Zenon DEF HexForm
<1> QED BY ONLY <1>1, <1>2, <1>3, <1>4, Zenon

\* Within a character there are bytes to come.
LEMMA BytesToCome ==
    ASSUME AtBytes
    PROVE  /\ text[1] \in 194 .. 244
           /\ Len(text) # (IF text[1] <= 223 THEN 2 ELSE IF text[1] <= 239 THEN 3 ELSE 4)
<1>1. ASSUME NEW b1 \in 194 .. 244, text = <<b1>>
      PROVE  /\ text[1] \in 194 .. 244
             /\ Len(text) # (IF text[1] <= 223 THEN 2 ELSE IF text[1] <= 239 THEN 3 ELSE 4)
  BY <1>1, SMT
<1>2. ASSUME NEW b1 \in 224 .. 244, NEW b2 \in SecondByte(b1), text = <<b1, b2>>
      PROVE  /\ text[1] \in 194 .. 244
             /\ Len(text) # (IF text[1] <= 223 THEN 2 ELSE IF text[1] <= 239 THEN 3 ELSE 4)
  BY <1>2, SMT
<1>3. ASSUME NEW b1 \in 240 .. 244, NEW b2 \in SecondByte(b1), NEW b3 \in 128 .. 191,
             text = <<b1, b2, b3>>
      PROVE  /\ text[1] \in 194 .. 244
             /\ Len(text) # (IF text[1] <= 223 THEN 2 ELSE IF text[1] <= 239 THEN 3 ELSE 4)
  BY <1>3, SMT
<1> QED BY ONLY AtBytes, <1>1, <1>2, <1>3, Zenon DEF AtBytes

\* A character that is complete is all that was dumped, and it is the one.
LEMMA CompleteIsAll ==
    ASSUME ReadInv, Complete, NEW cp, NEW d, IsScalar(cp), Dumped(cp, d),
           text \in Seq(0 .. 256), Len(text) \in 1 .. Len(d),
           \A i \in 1 .. Len(text) : text[i] = d[i]
    PROVE  Len(text) = Len(d) /\ token = Utf8(cp)
<1>1. AtChars /\ text # <<>>
  BY SMT DEF ReadInv, Place, Complete
<1>2. IsScalar(codepoint) /\ token = Utf8(codepoint) /\ codepoint \in Int /\ cp \in Int
  <2>1. IsScalar(codepoint) /\ token = Utf8(codepoint)
    BY <1>1, Zenon DEF AtChars
  <2> QED BY <2>1, SMT DEF IsScalar
<1>3. text[1] = d[1] /\ Len(d) \in 1 .. 6
  <2>1. Len(d) \in 1 .. 6
    BY FirstSays, Zenon
  <2> QED BY <2>1, SMT
<1>4. CASE text[1] # Backslash /\ text = token
  <2>1. PlainForm(cp, d) \/ BytesForm(cp, d)
    BY <1>3, <1>4, Zenon DEF Dumped, ShortForm, HexForm
  <2>2. d = Utf8(cp)
    <3>1. CASE PlainForm(cp, d)
      <4>1. cp \in Int /\ 0 <= cp /\ cp <= 127
        BY <3>1, SMT DEF PlainForm, Plain
      <4> QED BY <3>1, <4>1, AsciiPoint, Zenon DEF PlainForm
    <3> QED BY <2>1, <3>1, Zenon DEF BytesForm
  <2>3. Utf8Shape(cp, d) /\ Utf8Shape(codepoint, text)
    BY <1>2, <1>4, <2>2, Utf8First, Zenon
  <2>4. Len(text) = Len(d)
    BY ONLY <1>2, <1>3, <2>3, SameLength, Zenon
  <2>5. text = d
    <3>1. d \in Seq(0 .. 256)
      BY Zenon DEF Dumped
    <3> QED BY <2>4, <3>1, SMT
  <2> QED BY <1>4, <2>2, <2>4, <2>5, Zenon
<1>5. CASE text[1] = Backslash /\ Len(text) = 2
           /\ text[2] \in DOMAIN Simple /\ codepoint = Simple[text[2]]
  <2>1. text[2] = d[2]
    BY <1>5, SMT
  <2>2. ShortForm(cp, d)
    BY <1>3, <1>5, <2>1, SecondSays, Zenon
  <2> QED BY <1>2, <1>5, <2>1, <2>2, Zenon DEF ShortForm
<1>6. CASE UnitText /\ Len(text) \in {6, 12} /\ codepoint = Meaning
  <2>1. text[1] = Backslash /\ text[2] = LetterU /\ Len(text) = 6
    <3>1. Len(text) # 12
      <4>1. \A m, k : m \in 1 .. 6 /\ k \in 1 .. m => k # 12
        BY SMT
      <4> QED BY <1>3, <4>1, Zenon
    <3> QED BY <1>6, <3>1, Zenon DEF UnitText
  <2>2. /\ text[2] = d[2] /\ text[3] = d[3] /\ text[4] = d[4]
        /\ text[5] = d[5] /\ text[6] = d[6]
    BY <2>1, SMT
  <2>3. HexForm(cp, d)
    BY <1>3, <2>1, <2>2, SecondSays, Zenon
  <2>4. PICK h1 \in Int, h2 \in Int : h1 = HexValue(d[5]) /\ h2 = HexValue(d[6])
    BY <2>3, HexValueType, Zenon DEF HexForm
  <2>5. Hex4(3) = h1 * 16 + h2
    <3>1. 3 + 1 = 4 /\ 3 + 2 = 5 /\ 3 + 3 = 6
      BY SMT
    <3>2. Hex4(3) = HexValue(text[3]) * 4096 + HexValue(text[4]) * 256
                      + HexValue(text[5]) * 16 + HexValue(text[6])
      BY <3>1, SMT DEF Hex4
    <3>3. HexValue(text[3]) = 0 /\ HexValue(text[4]) = 0
          /\ HexValue(text[5]) = h1 /\ HexValue(text[6]) = h2
      BY <2>2, <2>3, <2>4, Letters, Zenon DEF HexForm
    <3> QED BY <3>2, <3>3, SMT
  <2>6. Meaning = Hex4(3)
    BY <2>1, SMT DEF Meaning
  <2>7. codepoint = cp
    BY <1>6, <2>3, <2>4, <2>5, <2>6, Zenon DEF HexForm
  <2>8. Len(d) = 6
    BY <2>3, Zenon DEF HexForm
  <2> QED BY <1>2, <2>1, <2>7, <2>8, Zenon
<1> QED BY <1>1, <1>4, <1>5, <1>6, Zenon DEF AtChars

\* When all that was dumped has been read, the scanner is not within a character.
LEMMA AllIsComplete ==
    ASSUME StringInv, ReadInv, at \in {"chars", "bytes", "escape", "hex"},
           NEW cp, NEW d, Dumped(cp, d),
           text \in Seq(0 .. 256), Len(text) = Len(d),
           \A i \in 1 .. Len(text) : text[i] = d[i]
    PROVE  at = "chars"
<1>1. Len(d) \in 1 .. 6 /\ text[1] = d[1]
  <2>1. Len(d) \in 1 .. 6
    BY FirstSays, Zenon
  <2> QED BY <2>1, SMT
<1>2. ASSUME at = "bytes"
      PROVE  FALSE
  <2>1. AtBytes
    BY <1>2, SMT DEF ReadInv, Place
  <2>2. text[1] \in 194 .. 244
    BY <2>1, BytesToCome, Zenon
  <2>3. Utf8Shape(cp, d) /\ cp >= 128
    BY <1>1, <2>2, FirstSays, Zenon DEF BytesForm
  <2>4. Len(text) = (IF text[1] <= 223 THEN 2 ELSE IF text[1] <= 239 THEN 3 ELSE 4)
    BY <1>1, <2>3, SMT DEF Utf8Shape
  <2> QED BY <2>1, <2>4, BytesToCome, Zenon
<1>3. ASSUME at = "escape"
      PROVE  FALSE
  <2>1. Len(text) = 1 /\ text[1] = Backslash
    <3>1. text = <<Backslash>>
      BY <1>3, SMT DEF ReadInv, Place, AtEscape
    <3> QED BY <3>1, SMT
  <2>2. Len(d) = 2 \/ Len(d) = 6
    BY <1>1, <2>1, SecondSays, Zenon
  <2> QED BY <2>1, <2>2, SMT
<1>4. ASSUME at = "hex"
      PROVE  FALSE
  <2>1. AtHex /\ left \in 1 .. 4
    BY <1>4, SMT DEF ReadInv, Place, StringInv, InStep, DigitsRead
  <2>2. Len(text) >= 2 /\ text[1] = Backslash /\ text[2] = LetterU
    BY <2>1, Zenon DEF AtHex, UnitText
  <2>3. d[2] = LetterU
    BY <2>2, SMT
  <2>4. HexForm(cp, d)
    BY <1>1, <2>2, <2>3, SecondSays, Zenon
  <2>5. Len(text) = 6
    BY <2>4, Zenon DEF HexForm
  <2>6. Len(text) = 6 - left \/ Len(text) = 12 - left
    BY <2>1, Zenon DEF AtHex
  <2> QED BY <2>1, <2>5, <2>6, SMT
<1> QED BY <1>2, <1>3, <1>4, Zenon

\* What one process dumps is parsed by the next to what it was, whatever the message: a
\* message that passes through a server arrives as it was sent.
THEOREM RoundTripKept == Spec => []RoundTrip
<1>1. StringInv /\ ReadInv /\ Replay => RoundTrip
  <2> SUFFICES ASSUME StringInv, ReadInv, Replay, sent # <<>>
               PROVE  /\ at \notin {"error", "closed"}
                      /\ input = <<>> => Complete /\ token = sent
                      /\ Complete => input = <<>>
    BY Zenon DEF RoundTrip
  <2>1. at \in {"chars", "bytes", "escape", "hex"}
    BY Zenon DEF Replay
  <2>2. PICK cp, d : /\ IsScalar(cp) /\ sent = Utf8(cp) /\ Dumped(cp, d)
                     /\ ReadOf(d, text, input)
    BY Zenon DEF Replay
  <2>3. /\ text \in Seq(0 .. 256) /\ input \in Seq(0 .. 256)
        /\ Len(text) + Len(input) = Len(d)
        /\ \A i \in 1 .. Len(text) : text[i] = d[i]
    BY <2>2, Zenon DEF ReadOf
  <2>4. Len(d) \in 1 .. 6
    BY <2>2, FirstSays, Zenon
  <2>5. ASSUME Complete
        PROVE  input = <<>> /\ token = sent
    <3>1. Len(text) \in 1 .. Len(d)
      <4>1. text # <<>>
        BY <2>5, Zenon DEF Complete
      <4> QED BY <2>3, <2>4, <4>1, SMT
    <3>2. Len(text) = Len(d) /\ token = Utf8(cp)
      BY <2>2, <2>3, <2>5, <3>1, CompleteIsAll, Zenon
    <3> QED BY <2>2, <2>3, <2>4, <3>2, SMT
  <2>6. ASSUME input = <<>>
        PROVE  Complete
    <3>1. Len(text) = Len(d) /\ text # <<>>
      BY <2>3, <2>4, <2>6, SMT
    <3>2. at = "chars"
      BY <2>1, <2>2, <2>3, <3>1, AllIsComplete, Zenon
    <3> QED BY <3>1, <3>2, Zenon DEF Complete
  <2>7. at \notin {"error", "closed"}
    BY <2>1, SMT
  <2> QED BY <2>5, <2>6, <2>7, Zenon
<1> QED BY <1>1, StringInvariant, ReadInvariant, ReplayInvariant, PTL
=============================================================================
