------------------------------- MODULE Base64 -------------------------------
(***************************************************************************)
(* base64_encode and base64_decode of KeyGuard, by which the AES key of a  *)
(* client gets through JSON: keyHandler of the client encodes the key it   *)
(* has generated, clientAESkey of the server decodes what it reads.  A     *)
(* step is a group that is full, or the rest behind the loop.  A character *)
(* of BASE64_CHARS is represented by its place there, "=" by Pad.          *)
(***************************************************************************)
EXTENDS Integers, Sequences

CONSTANTS
    Octet,  \* bytes a key may consist of
    MaxKey  \* bound: length of a key

Pad == 64
NotFound == 255   \* npos in an unsigned char, what find makes of a zero byte

ASSUME KeyAssumption == Octet \subseteq 0 .. 255 /\ MaxKey \in Nat

VARIABLES
    key,      \* raw_data
    chars,    \* encoded_string
    decoded,  \* decoded_string
    taken,    \* what the loop in work has taken of raw_data, or of encoded_string
    stage

coder == <<key, chars, decoded, taken, stage>>

KeyTypeOK ==
    /\ key \in Seq(Octet) /\ Len(key) <= MaxKey
    /\ chars \in Seq(0 .. Pad)
    /\ decoded \in Seq(0 .. 255)
    /\ taken \in Nat
    /\ stage \in {"none", "encode", "decode", "done"}

KeyInit == key = <<>> /\ chars = <<>> /\ decoded = <<>> /\ taken = 0 /\ stage = "none"

\* Three bytes as four groups of six bits.
Groups(a) ==
    << (a[1] \div 4),
       (a[1] % 4) * 16 + (a[2] \div 16),
       (a[2] % 16) * 4 + (a[3] \div 64),
       a[3] % 64 >>

\* One or two bytes that remain: filled with zeros, i + 1 characters of it, and padding.
EncodeRest(rest) ==
    LET i == Len(rest)
        groups == Groups([k \in 1 .. 3 |-> IF k <= i THEN rest[k] ELSE 0])
    IN IF i = 0 THEN <<>> ELSE [k \in 1 .. 4 |-> IF k <= i + 1 THEN groups[k] ELSE Pad]

\* Four groups as three bytes, each sum cut to eight bits.
Bytes(a) ==
    << (a[1] * 4 + ((a[2] % 64) \div 16)) % 256,
       ((a[2] % 16) * 16 + ((a[3] % 64) \div 4)) % 256,
       ((a[3] % 4) * 64 + a[4]) % 256 >>

\* What remains with fewer than four characters: the missing ones are zero bytes, which
\* are not in the alphabet.
Filled(rest) == [k \in 1 .. 4 |-> IF k <= Len(rest) THEN rest[k] ELSE NotFound]

\* Mutation of DecodeRest: as many bytes as characters.
DecodeRest_OneMore(rest) == [k \in 1 .. Len(rest) |-> Bytes(Filled(rest))[k]]

\* One byte less than characters, or none.
DecodeRest(rest) == [k \in 1 .. Len(rest) - 1 |-> Bytes(Filled(rest))[k]]

-----------------------------------------------------------------------------
\* The client generates a key.
Generate ==
    /\ stage = "none"
    /\ \E n \in 0 .. MaxKey : key' \in [1 .. n -> Octet]
    /\ stage' = "encode"
    /\ UNCHANGED <<chars, decoded, taken>>

EncodeThree ==
    /\ stage = "encode" /\ taken + 3 <= Len(key)
    /\ chars' = chars \o Groups(SubSeq(key, taken + 1, taken + 3))
    /\ taken' = taken + 3
    /\ UNCHANGED <<key, decoded, stage>>

EncodeLast ==
    /\ stage = "encode" /\ taken + 3 > Len(key)
    /\ chars' = chars \o EncodeRest(SubSeq(key, taken + 1, Len(key)))
    /\ taken' = 0 /\ stage' = "decode"
    /\ UNCHANGED <<key, decoded>>

\* The loop of the decoder goes on: there is a character, and it is in the alphabet.
InAlphabet(k) == k \in DOMAIN chars /\ chars[k] # Pad

DecodeFour ==
    /\ stage = "decode" /\ \A k \in 1 .. 4 : InAlphabet(taken + k)
    /\ decoded' = decoded \o Bytes(SubSeq(chars, taken + 1, taken + 4))
    /\ taken' = taken + 4
    /\ UNCHANGED <<key, chars, stage>>

\* It has ended with i characters of a group.
DecodeLast ==
    /\ stage = "decode"
    /\ \E i \in 0 .. 3 :
           /\ \A k \in 1 .. i : InAlphabet(taken + k)
           /\ ~InAlphabet(taken + i + 1)
           /\ decoded' = decoded \o DecodeRest(SubSeq(chars, taken + 1, taken + i))
    /\ stage' = "done"
    /\ UNCHANGED <<key, chars, taken>>

\* Another client, with a key of its own.
Forget ==
    /\ stage = "done"
    /\ key' = <<>> /\ chars' = <<>> /\ decoded' = <<>> /\ taken' = 0 /\ stage' = "none"

KeyNext == Generate \/ EncodeThree \/ EncodeLast \/ DecodeFour \/ DecodeLast \/ Forget

KeySpec == KeyInit /\ [][KeyNext]_coder

-----------------------------------------------------------------------------
\* Zero bits stand for the padding and behind the end of the key.
Six(k) == IF chars[k] = Pad THEN 0 ELSE chars[k]
Eight(k) == IF k <= Len(key) THEN key[k] ELSE 0

\* Four characters are the bits of three bytes in their order.
InOrder(n) ==
    ((Six(4 * n + 1) * 64 + Six(4 * n + 2)) * 64 + Six(4 * n + 3)) * 64 + Six(4 * n + 4)
    = (Eight(3 * n + 1) * 256 + Eight(3 * n + 2)) * 256 + Eight(3 * n + 3)

\* p characters of padding, at the end and nowhere else, make the last group full.
Padded(p) ==
    /\ 3 * Len(chars) = 4 * (Len(key) + p)
    /\ \A k \in DOMAIN chars : IF k > Len(chars) - p THEN chars[k] = Pad ELSE chars[k] \in 0 .. 63

\* The server decodes the key the client has encoded, for a length that is no multiple of
\* three too, as that of a 32 byte key; and what it decodes is Base64: the bits of the key
\* in their order, in groups of four characters, with padding at the end only.
KeyIsKept ==
    stage = "done" =>
        /\ decoded = key
        /\ \E p \in 0 .. 2 : Padded(p)
        /\ \A n \in 0 .. Len(chars) : 4 * n < Len(chars) => InOrder(n)
=============================================================================
