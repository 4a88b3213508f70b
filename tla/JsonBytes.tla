----------------------------- MODULE JsonBytes ------------------------------
(***************************************************************************)
(* Values of basic_json and what write_number and get_number make of their *)
(* numbers: what binary_writer (JsonWriter.tla) and binary_reader          *)
(* (JsonReader.tla) share.                                                 *)
(*                                                                         *)
(* A value is a tuple that begins with its type: <<"null">>,               *)
(* <<"boolean", b>>, <<"unsigned", w>>, <<"integer", w>>, <<"float", w>>,  *)
(* <<"string", bytes>>, <<"array", sequence of values>> and                *)
(* <<"object", function from keys, which are bytes, to values>>.  The      *)
(* number w is the eight bytes it has in memory, the highest first; so     *)
(* every 64-bit integer is a value and no arithmetic is needed on them.    *)
(***************************************************************************)
EXTENDS Integers, Sequences, SequencesExt

Null == <<"null">>
Boolean(b) == <<"boolean", b>>
Unsigned(w) == <<"unsigned", w>>
Integer(w) == <<"integer", w>>
Float(w) == <<"float", w>>
String(bytes) == <<"string", bytes>>
Array(items) == <<"array", items>>
Object(members) == <<"object", members>>

Filled(n, b) == [k \in 1 .. n |-> b]

\* A small number as eight bytes, and back.  2^24 and more are one number, which is larger
\* than any input here.
Word(n) == Filled(5, 0) \o <<n \div 65536, (n \div 256) % 256, n % 256>>
Large == 2 ^ 24
ToNat(w) ==
    IF \A k \in 1 .. 5 : w[k] = 0 THEN w[6] * 65536 + w[7] * 256 + w[8] ELSE Large

\* static_cast to n bytes, and from n bytes to eight.
Low(w, n) == SubSeq(w, 9 - n, 8)
Widened(bytes, signed) ==
    Filled(8 - Len(bytes), IF signed /\ bytes[1] >= 128 THEN 255 ELSE 0) \o bytes

\* w is a number of n bytes without sign, of the positive half of those with a sign, or with
\* a sign.
Fits(w, n) == \A k \in 1 .. 8 - n : w[k] = 0
FitsHalf(w, n) == Fits(w, n) /\ w[9 - n] < 128
FitsSigned(w, n) == Widened(Low(w, n), TRUE) = w

\* The smallest k where 2^k bytes are enough.
Width(w) == CHOOSE k \in 0 .. 3 : Fits(w, 2 ^ k) /\ \A l \in 0 .. k - 1 : ~Fits(w, 2 ^ l)
WidthSigned(w) ==
    CHOOSE k \in 0 .. 3 : FitsSigned(w, 2 ^ k) /\ \A l \in 0 .. k - 1 : ~FitsSigned(w, 2 ^ l)

\* -1 - n in two's complement.
Complement(w) == [k \in DOMAIN w |-> 255 - w[k]]

\* The keys of an object come in the order of their bytes.
Less(k, l) ==
    \/ IsStrictPrefix(k, l)
    \/ \E i \in DOMAIN k \cap DOMAIN l :
           k[i] < l[i] /\ \A j \in 1 .. i - 1 : k[j] = l[j]
RECURSIVE Sorted(_)
Sorted(keys) ==
    IF keys = {} THEN <<>>
    ELSE LET first == CHOOSE k \in keys : \A l \in keys \ {k} : Less(k, l)
         IN <<first>> \o Sorted(keys \ {first})

\* operator== of basic_json: a signed and an unsigned integer are equal when their bytes are.
RECURSIVE Equal(_, _)
Equal(a, b) ==
    \/ {a[1], b[1]} \subseteq {"integer", "unsigned"} /\ a[2] = b[2]
    \/ /\ a[1] = b[1]
       /\ CASE a[1] = "array" ->
                   Len(a[2]) = Len(b[2]) /\ \A i \in DOMAIN a[2] : Equal(a[2][i], b[2][i])
            [] a[1] = "object" ->
                   DOMAIN a[2] = DOMAIN b[2] /\ \A k \in DOMAIN a[2] : Equal(a[2][k], b[2][k])
            [] OTHER -> a = b
=============================================================================
