----------------------------- MODULE JsonString -----------------------------
(***************************************************************************)
(* A string in a message, as json.hpp reads and writes it.  Everything     *)
(* that client and server send each other is made by dump and read by      *)
(* parse, and a chat message is parsed and dumped again by every server it *)
(* passes: the scanner takes a text from the network byte by byte, then    *)
(* dump_escaped writes what it has understood, and the scanner of the next *)
(* process reads that.                                                     *)
(*                                                                         *)
(* The scanner accepts bytes by ranges, dump_escaped decodes them with a   *)
(* table of its own and throws type_error 316 at what it does not like.    *)
(* Here both run side by side.  Of the string only the character in work   *)
(* is kept.                                                                *)
(***************************************************************************)
EXTENDS Integers, Sequences

CONSTANT Byte   \* bytes that may come from the network, Eof among them or not

UInt8 == 0 .. 255
Eof == 256

ASSUME ByteAssumption == Byte \subseteq 0 .. Eof

VARIABLES
    at,         \* where the scanner is
    todo,       \* the ranges next_byte_in_range has still to see
    left,       \* hex digits get_codepoint has still to read
    number,     \* the number it has read so far
    high,       \* codepoint1 when it is a high surrogate, or 0
    token,      \* token_buffer: the bytes added for the current character
    state,      \* dump_escaped: state after the bytes added so far
    codepoint,  \* dump_escaped: the code point it has decoded
    \* history
    text,       \* the bytes read for the current character
    input,      \* what the next process has still to read of it
    sent        \* the character that was dumped for the next process, <<>> before

scanner == <<at, todo, left, number, high>>
vars == <<scanner, token, state, codepoint, text, input, sent>>

Quote == 34
Backslash == 92
Slash == 47
LetterU == 117

Reject == 1

\* UTF-16 surrogates.
IsHigh(unit) == 55296 <= unit /\ unit <= 56319
IsLow(unit) == 56320 <= unit /\ unit <= 57343

TypeOK ==
    /\ at \in {"chars", "bytes", "escape", "hex", "backslash", "u", "closed", "error"}
    /\ todo \in Seq(UInt8 \X UInt8)
    /\ left \in 0 .. 4
    /\ number \in Nat /\ number < 65536
    /\ high \in Nat /\ (high = 0 \/ IsHigh(high))
    /\ token \in Seq(UInt8)
    /\ state \in 0 .. 8
    /\ codepoint \in Nat
    /\ text \in Seq(0 .. Eof) /\ input \in Seq(UInt8) /\ sent \in Seq(UInt8)

Init ==
    /\ at = "chars" /\ todo = <<>> /\ left = 0 /\ number = 0 /\ high = 0
    /\ token = <<>> /\ state = 0 /\ codepoint = 0
    /\ text = <<>> /\ input = <<>> /\ sent = <<>>

-----------------------------------------------------------------------------
\* decode: the table of dump_escaped

\* The class of a byte.
Class(b) ==
    CASE b <= 127 -> 0
      [] b \in 128 .. 143 -> 1
      [] b \in 144 .. 159 -> 9
      [] b \in 160 .. 191 -> 7
      [] b \in {192, 193} -> 8
      [] b \in 194 .. 223 -> 2
      [] b = 224 -> 10
      [] b \in (225 .. 239) \ {237} -> 3
      [] b = 237 -> 4
      [] b = 240 -> 11
      [] b \in 241 .. 243 -> 6
      [] b = 244 -> 5
      [] OTHER -> 8

\* The state that follows state s on a byte of class t; 0 accepts.
Follows(s, t) ==
    CASE s = 0 /\ t \in {0, 2, 3} -> t
      [] s = 0 /\ t = 10 -> 4
      [] s = 0 /\ t = 4 -> 5
      [] s = 0 /\ t = 11 -> 6
      [] s = 0 /\ t = 6 -> 7
      [] s = 0 /\ t = 5 -> 8
      [] s = 2 /\ t \in {1, 7, 9} -> 0
      [] s = 3 /\ t \in {1, 7, 9} -> 2
      [] s = 4 /\ t = 7 -> 2
      [] s = 5 /\ t \in {1, 9} -> 2
      [] s = 6 /\ t \in {7, 9} -> 3
      [] s = 7 /\ t \in {1, 7, 9} -> 3
      [] s = 8 /\ t = 1 -> 3
      [] OTHER -> Reject

\* (0xFF >> type) & byte keeps what is below LeadMask(type) of a leading byte.
LeadMask(t) ==
    CASE t = 0 -> 256 [] t = 1 -> 128 [] t = 2 -> 64 [] t = 3 -> 32 [] t = 4 -> 16
      [] t = 5 -> 8 [] t = 6 -> 4 [] t = 7 -> 2 [] OTHER -> 1

DecodeState(s, b) == Follows(s, Class(b))
DecodePoint(s, cp, b) == IF s # 0 THEN cp * 64 + (b % 64) ELSE b % LeadMask(Class(b))

\* add: byte b is put into token_buffer, and dump_escaped will decode it.
Add(b) ==
    /\ token' = Append(token, b)
    /\ state' = DecodeState(state, b)
    /\ codepoint' = DecodePoint(state, codepoint, b)

\* Several bytes are added to an empty token.
AddAll(bytes) ==
    LET s1 == DecodeState(state, bytes[1])
        c1 == DecodePoint(state, codepoint, bytes[1])
        s2 == DecodeState(s1, bytes[2])
        c2 == DecodePoint(s1, c1, bytes[2])
        s3 == DecodeState(s2, bytes[3])
        c3 == DecodePoint(s2, c2, bytes[3])
    IN /\ token' = bytes
       /\ CASE Len(bytes) = 1 -> state' = s1 /\ codepoint' = c1
            [] Len(bytes) = 2 -> state' = s2 /\ codepoint' = c2
            [] Len(bytes) = 3 -> state' = s3 /\ codepoint' = c3
            [] Len(bytes) = 4 -> /\ state' = DecodeState(s3, bytes[4])
                                 /\ codepoint' = DecodePoint(s3, c3, bytes[4])

-----------------------------------------------------------------------------
\* scan_string

\* Characters that stand for themselves.
Plain == (32 .. 127) \ {Quote, Backslash}

\* Mutation of Ranges: E0 is taken as the leading bytes that follow it.
Ranges_NoE0(b) ==
    LET any == <<128, 191>> IN
    CASE b \in 194 .. 223 -> <<any>>
      [] b \in (224 .. 239) \ {237} -> <<any, any>>
      [] b = 237 -> <<<<128, 159>>, any>>
      [] b = 240 -> <<<<144, 191>>, any, any>>
      [] b \in 241 .. 243 -> <<any, any, any>>
      [] b = 244 -> <<<<128, 143>>, any, any>>
      [] OTHER -> <<>>

\* Mutation of Ranges: surrogates are let through.
Ranges_NoED(b) ==
    LET any == <<128, 191>> IN
    CASE b \in 194 .. 223 -> <<any>>
      [] b = 224 -> <<<<160, 191>>, any>>
      [] b \in 225 .. 239 -> <<any, any>>
      [] b = 240 -> <<<<144, 191>>, any, any>>
      [] b \in 241 .. 243 -> <<any, any, any>>
      [] b = 244 -> <<<<128, 143>>, any, any>>
      [] OTHER -> <<>>

\* The ranges of the bytes after leading byte b.
Ranges(b) ==
    LET any == <<128, 191>> IN
    CASE b \in 194 .. 223 -> <<any>>
      [] b = 224 -> <<<<160, 191>>, any>>
      [] b \in (225 .. 239) \ {237} -> <<any, any>>
      [] b = 237 -> <<<<128, 159>>, any>>
      [] b = 240 -> <<<<144, 191>>, any, any>>
      [] b \in 241 .. 243 -> <<any, any, any>>
      [] b = 244 -> <<<<128, 143>>, any, any>>
      [] OTHER -> <<>>

\* Letter after a backslash -> the character it stands for (u is on its own).
Simple == [b \in {Quote, Backslash, Slash, 98, 102, 110, 114, 116} |->
              CASE b = 98 -> 8 [] b = 102 -> 12 [] b = 110 -> 10
                [] b = 114 -> 13 [] b = 116 -> 9 [] OTHER -> b]

HexDigit == (48 .. 57) \cup (65 .. 70) \cup (97 .. 102)
HexValue(b) ==
    CASE b \in 48 .. 57 -> b - 48 [] b \in 65 .. 70 -> b - 55 [] OTHER -> b - 87

Utf8(cp) ==
    CASE cp < 128 -> <<cp>>
      [] 128 <= cp /\ cp <= 2047 -> <<192 + (cp \div 64), 128 + (cp % 64)>>
      [] 2048 <= cp /\ cp <= 65535 ->
             <<224 + (cp \div 4096), 128 + ((cp \div 64) % 64), 128 + (cp % 64)>>
      [] OTHER -> <<240 + (cp \div 262144), 128 + ((cp \div 4096) % 64),
                    128 + ((cp \div 64) % 64), 128 + (cp % 64)>>

\* A character has been scanned.
Complete == at = "chars" /\ text # <<>>

\* The bytes come from the network, or from the text that another process has dumped.
Source ==
    IF at \in {"closed", "error"} \/ Complete THEN {}
    ELSE IF sent = <<>> THEN Byte
    ELSE IF input # <<>> THEN {Head(input)} ELSE {}

Get(b) ==
    /\ text' = Append(text, b)
    /\ input' = IF sent = <<>> THEN input ELSE Tail(input)
    /\ UNCHANGED sent

Goto(place) == at' = place
Fail == Goto("error") /\ UNCHANGED <<todo, left, number, high, token, state, codepoint>>

\* At the start of a character.
Char(b) ==
    /\ at = "chars" /\ Get(b)
    /\ UNCHANGED <<left, number, high>>
    /\ \/ b = Quote /\ Goto("closed") /\ UNCHANGED <<todo, token, state, codepoint>>
       \/ b = Backslash /\ Goto("escape") /\ UNCHANGED <<todo, token, state, codepoint>>
       \/ b \in Plain /\ Add(b) /\ UNCHANGED <<at, todo>>
       \/ Ranges(b) # <<>> /\ Add(b) /\ todo' = Ranges(b) /\ Goto("bytes")
       \/ b \notin {Quote, Backslash} \cup Plain /\ Ranges(b) = <<>> /\ Fail

\* next_byte_in_range.
NextByteInRange(b) ==
    /\ at = "bytes" /\ Get(b)
    /\ \/ /\ b \in Head(todo)[1] .. Head(todo)[2]
          /\ Add(b)
          /\ todo' = Tail(todo)
          /\ Goto(IF Tail(todo) = <<>> THEN "chars" ELSE "bytes")
          /\ UNCHANGED <<left, number, high>>
       \/ b \notin Head(todo)[1] .. Head(todo)[2] /\ Fail

Escape(b) ==
    /\ at = "escape" /\ Get(b)
    /\ \/ b \in DOMAIN Simple /\ Add(Simple[b]) /\ Goto("chars") /\ UNCHANGED <<todo, left, number, high>>
       \/ /\ b = LetterU
          /\ Goto("hex") /\ left' = 4 /\ number' = 0
          /\ UNCHANGED <<todo, high, token, state, codepoint>>
       \/ b \notin DOMAIN Simple \cup {LetterU} /\ Fail

\* What becomes of a UTF-16 unit: a high surrogate waits for a low one, which may not
\* come without.
Unit(cp1) ==
    IF high = 0
    THEN IF IsHigh(cp1) THEN "wait" ELSE IF IsLow(cp1) THEN "error" ELSE "add"
    ELSE IF IsLow(cp1) THEN "add" ELSE "error"

\* Mutation of Combine: the offset is forgotten.
Combine_NoOffset(h, cp) == IF h = 0 THEN cp ELSE (h % 1024) * 1024 + (cp % 1024)

\* (codepoint1 << 10) + codepoint2 - 0x35FDC00.
Combine(h, cp) == IF h = 0 THEN cp ELSE h * 1024 + cp - 56613888

\* get_codepoint, and after its last digit what follows in scan_string.
Hex(b) ==
    /\ at = "hex" /\ Get(b)
    /\ \/ /\ b \in HexDigit
          /\ LET n == number * 16 + HexValue(b) IN
             \/ /\ left > 1
                /\ number' = n /\ left' = left - 1
                /\ UNCHANGED <<at, todo, high, token, state, codepoint>>
             \/ /\ left = 1 /\ Unit(n) = "wait"
                /\ Goto("backslash") /\ high' = n /\ left' = 0 /\ number' = 0
                /\ UNCHANGED <<todo, token, state, codepoint>>
             \/ /\ left = 1 /\ Unit(n) = "add"
                /\ AddAll(Utf8(Combine(high, n)))
                /\ Goto("chars") /\ high' = 0 /\ left' = 0 /\ number' = 0
                /\ UNCHANGED todo
             \/ left = 1 /\ Unit(n) = "error" /\ Fail
       \/ b \notin HexDigit /\ Fail

\* After a high surrogate.
LowSurrogate(b) ==
    /\ at \in {"backslash", "u"} /\ Get(b)
    /\ \/ /\ at = "backslash" /\ b = Backslash
          /\ Goto("u")
          /\ UNCHANGED <<todo, left, number, high, token, state, codepoint>>
       \/ /\ at = "u" /\ b = LetterU
          /\ Goto("hex") /\ left' = 4
          /\ UNCHANGED <<todo, number, high, token, state, codepoint>>
       \/ b # (IF at = "u" THEN LetterU ELSE Backslash) /\ Fail

-----------------------------------------------------------------------------
\* dump_escaped

\* The letter of a short escape.
Letter(cp) == CHOOSE b \in DOMAIN Simple : Simple[b] = cp

HexOf(n) == IF n < 10 THEN 48 + n ELSE 87 + n

\* Mutation of DumpEscaped: the quotation mark is written as it is.
DumpEscaped_Quote(cp, bytes) ==
    IF cp = Backslash THEN <<Backslash, cp>> ELSE bytes

\* What is written for code point cp with the UTF-8 bytes (ensure_ascii is off).
DumpEscaped(cp, bytes) ==
    CASE cp \in {Quote, Backslash} -> <<Backslash, cp>>
      [] cp \in {8, 9, 10, 12, 13} -> <<Backslash, Letter(cp)>>
      [] cp \in (0 .. 31) \ {8, 9, 10, 12, 13} ->
             <<Backslash, LetterU, 48, 48, HexOf(cp \div 16), HexOf(cp % 16)>>
      [] OTHER -> bytes

\* The string goes on.  What is over is forgotten, except for the state of decode.
NextChar ==
    /\ Complete /\ sent = <<>>
    /\ token' = <<>> /\ text' = <<>> /\ codepoint' = 0
    /\ UNCHANGED <<scanner, state, input, sent>>

\* The message is dumped and the next process scans the character.
Relay ==
    /\ Complete /\ sent = <<>>
    /\ sent' = token
    /\ input' = DumpEscaped(codepoint, token)
    /\ token' = <<>> /\ text' = <<>> /\ codepoint' = 0
    /\ UNCHANGED <<scanner, state>>

\* The text the scanner reads next may be any other.
Restart ==
    /\ at \in {"closed", "error"} \/ (sent # <<>> /\ Complete)
    /\ at' = "chars" /\ todo' = <<>> /\ left' = 0 /\ number' = 0 /\ high' = 0
    /\ token' = <<>> /\ state' = 0 /\ codepoint' = 0
    /\ text' = <<>> /\ input' = <<>> /\ sent' = <<>>

-----------------------------------------------------------------------------
Next ==
    \/ \E b \in Source :
           Char(b) \/ NextByteInRange(b) \/ Escape(b) \/ Hex(b) \/ LowSurrogate(b)
    \/ NextChar \/ Relay \/ Restart

Spec == Init /\ [][Next]_vars

-----------------------------------------------------------------------------
\* Properties

\* What parse has accepted, dump can write: between two characters the decoder of
\* dump_escaped accepts, and it never rejects a byte that the scanner has added.  So oneChat
\* and groupChat, which dump a message they have parsed, do not throw at it.
DumpAccepts ==
    /\ state # Reject
    /\ at \in {"chars", "closed"} => state = 0

\* The numbers that are characters: no surrogates, nothing above 10FFFF.
IsScalar(cp) == cp \in Nat /\ cp <= 1114111 /\ ~IsHigh(cp) /\ ~IsLow(cp)

\* The number that four hex digits from place i of the text say.
Hex4(i) ==
    HexValue(text[i]) * 4096 + HexValue(text[i + 1]) * 256
        + HexValue(text[i + 2]) * 16 + HexValue(text[i + 3])

\* The code point that an escape sequence says.
Meaning ==
    IF text[2] # LetterU THEN Simple[text[2]]
    ELSE IF Len(text) = 6 THEN Hex4(3)
    ELSE 65536 + (Hex4(3) - 55296) * 1024 + (Hex4(9) - 56320)

\* Scanner and decoder mean the same: dump_escaped finds the character that the text
\* says, in its shortest encoding.
CodepointIsMeant ==
    Complete =>
        /\ IsScalar(codepoint)
        /\ token = Utf8(codepoint)
        /\ IF text[1] = Backslash THEN codepoint = Meaning ELSE text = token

\* How many bytes a character has by its leading byte, the bits of it that count, and
\* the code points that need that many bytes.
Length(b) ==
    CASE b \in 192 .. 223 -> 2 [] b \in 224 .. 239 -> 3 [] b \in 240 .. 247 -> 4 [] OTHER -> 0
LeadBits(b) == b - <<0, 192, 224, 240>>[Length(b)]
Needing == << {<<0, 127>>}, {<<128, 2047>>},
              {<<2048, 55295>>, <<57344, 65535>>}, {<<65536, 1114111>>} >>

\* The number that bytes of a character say, the first ones or all.
Bits(t) ==
    CASE Len(t) = 1 -> LeadBits(t[1])
      [] Len(t) = 2 -> LeadBits(t[1]) * 64 + (t[2] % 64)
      [] Len(t) = 3 -> (LeadBits(t[1]) * 64 + (t[2] % 64)) * 64 + (t[3] % 64)
      [] Len(t) = 4 -> ((LeadBits(t[1]) * 64 + (t[2] % 64)) * 64 + (t[3] % 64)) * 64 + (t[4] % 64)

\* How many numbers of n bytes have the same k first bytes.
Span(n, k) == <<1, 64, 4096, 262144>>[n - k + 1]

\* Some character begins with the bytes t.
Begins(t) ==
    LET n == Length(t[1])
        span == Span(n, Len(t))
    IN /\ n # 0
       /\ \A i \in 2 .. Len(t) : t[i] \in 128 .. 191
       /\ \E r \in Needing[n] : Bits(t) * span <= r[2] /\ (Bits(t) + 1) * span - 1 >= r[1]

\* The ranges of the scanner are UTF-8: of the bytes above 7F it refuses those that no
\* character has, at the first one that is wrong, and no others.  A name or message that
\* a client can type is not refused.
ScansUtf8 ==
    text # <<>> /\ text[1] \in 128 .. 255 => (at = "error" <=> ~Begins(text))

\* What is dumped is parsed to what it was, by the next process, and so on.
RoundTrip ==
    sent # <<>> =>
        /\ at \notin {"error", "closed"}
        /\ input = <<>> => Complete /\ token = sent
        /\ Complete => input = <<>>
=============================================================================
