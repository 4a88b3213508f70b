------------------------------- MODULE MCJson -------------------------------
(***************************************************************************)
(* Small instances of the modules about json.hpp, and of Base64, for TLC.  *)
(* Strings and keys are explored as the state machines of JsonString and   *)
(* Base64; the others are functions, and every input of theirs is one      *)
(* state, a sample.                                                        *)
(***************************************************************************)
EXTENDS JsonString, Base64, FiniteSets

\* Bounds of the samples.
CONSTANTS
    Long,         \* length of the texts of the grammar
    LongNumber,   \* length of the numbers in them
    Short,        \* length of arbitrary texts
    LargeInteger, \* for dump_integer
    MaxBytes      \* length of arbitrary bytes for the binary formats

Text == INSTANCE JsonText
W == INSTANCE JsonWriter
R == INSTANCE JsonReader
P == INSTANCE JsonPatch

VARIABLE sample

\* The first and the last byte of every range the code tells apart; hex digits for both
\* ends of the ranges of code points.
Boundary ==
    {0, 8, 31, 32, 127, 128, 143, 144, 159, 160, 191, 192, 193, 194, 223, 224, 225, 236,
     237, 238, 239, 240, 241, 243, 244, 245, 255, Eof}
    \cup {Quote, Backslash, Slash, 110, 114, 116, LetterU}
    \cup {48, 55, 56, 67, 69, 98, 100, 102}

\* Single bits and all bits.
SomeOctets == {0, 1, 2, 4, 8, 16, 32, 64, 128, 255}

Grammar == Text!Grammar(LongNumber)
Pairs == UNION {Grammar[n].values : n \in 1 .. Long}
Texts == UNION {{p[1] : p \in Text!Grammar(Short)[n].values} : n \in 1 .. Short}

-----------------------------------------------------------------------------
\* Samples for the binary formats: numbers on both sides of the limits of every width,
\* strings and containers on both sides of the limits of every length.

Edge(n, first, rest) == W!Filled(8 - n, 0) \o <<first>> \o W!Filled(n - 1, rest)
Words ==
    {W!Word(n) : n \in {0, 23, 24, 31, 32}}
    \cup {Edge(n, b, r) : n \in {1, 2, 3, 4, 5, 8}, b \in {1, 127, 128, 255}, r \in {0, 255}}
Negative == {W!Complement(w) : w \in {v \in Words : v[1] < 128}}
Lengths == {0, 1, 23, 24, 31, 32, 127, 128, 255, 256, 32767, 32768, 65535, 65536}
Double == W!Float(<<63, 240, 0, 0, 0, 0, 0, 1>>)

Scalars ==
    {W!Null, W!Boolean(TRUE), W!Boolean(FALSE), Double}
    \cup {W!Unsigned(w) : w \in Words} \cup {W!Integer(w) : w \in Words \cup Negative}
    \cup {W!String(W!Filled(n, 97)) : n \in Lengths}

\* What containers contain: values of different prefixes, of the same one and of none.
Items ==
    {W!Null, W!Boolean(TRUE), W!Boolean(FALSE), Double, W!Unsigned(W!Word(1)), W!Unsigned(W!Word(200)),
     W!Integer(W!Word(200)), W!Integer(W!Complement(W!Word(0))), W!Unsigned(Edge(8, 128, 0)),
     W!String(<<>>), W!String(<<78>>), W!Array(<<>>), W!Object(<<>>)}
Few == {W!Null, W!Boolean(TRUE), W!Unsigned(W!Word(1)), W!String(<<78>>)}

ArraysOf(S) == {W!Array(a) : a \in UNION {[1 .. n -> S] : n \in 0 .. 2}}
ObjectsOf(K, S) == {W!Object(f) : f \in UNION {[D -> S] : D \in {D \in SUBSET K : Cardinality(D) <= 2}}}
Inner == ArraysOf(Few) \cup ObjectsOf({<<97>>}, Few)
Wide ==
    UNION {{W!Array(W!Filled(n, v)), W!Object([k \in {<<96 + i>> : i \in 1 .. n} |-> v])} :
           n \in {15, 16, 23, 24, 32}, v \in Few}

Values ==
    Scalars \cup Wide
    \cup ArraysOf(Items) \cup ObjectsOf({<<>>, <<97>>, <<0>>, <<97, 78>>}, Items)
    \cup ArraysOf(Inner) \cup ObjectsOf({<<97>>, <<98>>}, Inner)

\* Bytes that begin something, in each format, behind what every sample begins with.
Formats == {"cbor", "msgpack", "ubjson", "bson"}
Size == <<0, 0, 0, 0>>
Begin ==
    [cbor |-> {<<>>}, msgpack |-> {<<>>}, ubjson |-> {<<91>>, <<123>>},
     bson |-> {Size, Size \o <<3, 0>> \o Size, Size \o <<4, 0>> \o Size}]
Codes ==
    [cbor |-> {0, 24, 32, 96, 97, 127, 129, 159, 161, 191, 246, 255},
     msgpack |-> {0, 1, 128, 129, 145, 161, 192, 204, 208, 217, 220, 222},
     ubjson |-> {91, 93, 125, 36, 35, 105, 85, 84, 78, 83, 1, 255},
     bson |-> {0, 1, 2, 3, 4, 8, 10}]

-----------------------------------------------------------------------------
\* Samples for pointers and patches: arrays that grow, shrink and nest, keys that are
\* written with an escape, and tokens that are indices, nearly indices and none.

Leaves == {W!Null, W!Boolean(TRUE), W!Unsigned(W!Word(1)), W!Integer(W!Word(1))}
Keys == {<<97>>, <<126, 49>>, <<47>>}
Nested ==
    {W!Array(<<>>), W!Array(<<W!Null>>), W!Array(<<W!Boolean(TRUE), W!Null>>), W!Object(<<>>),
     W!Object([k \in {<<97>>} |-> W!Null]), W!Object([k \in {<<97>>} |-> W!Boolean(TRUE)])}
Documents ==
    Leaves \cup {W!Array(a) : a \in UNION {[1 .. n -> {W!Null, W!Boolean(TRUE)}] : n \in 0 .. 3}}
    \cup ObjectsOf(Keys, {W!Null, W!Boolean(TRUE)})
    \cup ArraysOf(Nested) \cup ObjectsOf({<<97>>, <<47>>}, Nested)
Tokens == {<<>>, <<48>>, <<49>>, <<48, 48>>, <<45>>, <<45, 49>>, <<43, 49>>, <<97>>, <<126, 49>>, <<47>>}
Pointers == UNION {[1 .. n -> Tokens] : n \in 0 .. 2}

NoSample == [of |-> "none"]

Choose(kind, value) == sample' = [of |-> kind, is |-> value]

Sample ==
    /\ Init /\ KeyInit /\ sample = NoSample /\ UNCHANGED <<vars, coder>>
    /\ \/ \E v \in Values : Choose("value", v)
       \/ \E f \in Formats : \E b \in Begin[f] : \E n \in 0 .. MaxBytes : \E s \in [1 .. n -> Codes[f]] :
              Choose(f, b \o s)
       \/ \E v, w \in Documents : Choose("documents", <<v, w>>)
       \/ \E v \in Documents : \E t \in Pointers : Choose("pointer", <<v, t>>)
       \/ \E p \in Pairs : Choose("pair", p)
       \/ \E n \in 0 .. Short : \E t \in [1 .. n -> Text!Symbol] : Choose("text", t)
       \/ \E n \in 0 .. LargeInteger : Choose("integer", n)

Done == sample # NoSample /\ sample' = NoSample /\ UNCHANGED <<vars, coder>>

MCInit == Init /\ KeyInit /\ sample = NoSample
MCNext ==
    \/ sample = NoSample /\ KeyInit /\ Next /\ UNCHANGED <<sample, coder>>
    \/ sample = NoSample /\ Init /\ KeyNext /\ UNCHANGED <<sample, vars>>
    \/ Sample
    \/ Done

MCSpec == MCInit /\ [][MCNext]_<<vars, coder, sample>>

-----------------------------------------------------------------------------
\* parse understands every JSON text as the grammar does, and throws at every other: what
\* one process sends another understands, and a text that is no message changes nothing.
\* With a callback that rejects something, it understands what the callback keeps, as
\* json.hpp documents at 13996, but for values in which the callback rejects an object in an
\* array or another value in an object: those it leaves discarded where they are, against the
\* documentation, and Filtered leaves them out.
ParseIsGrammar ==
    /\ sample.of = "pair" => Text!Understood(sample.is) /\ Text!Filtered(sample.is)
    /\ sample.of = "text" => Text!Judged(sample.is, Texts)

\* What dump writes of a value is parsed to the same value, and its integers are
\* written with the digits they have.
DumpParses ==
    /\ sample.of = "pair" => Text!Comes(sample.is[2])
    /\ sample.of = "integer" => Text!WellCounted(sample.is)

\* What a value is written as in CBOR, MessagePack, UBJSON or BSON, with or without counts and
\* types, is read as an equal value; and the sizes that stand in a BSON document, which are
\* calculated apart from what is written, are the lengths of what is.
WrittenIsRead(v) ==
    LET Reads(w) == W!Equal(w, v)
    IN /\ Reads(R!FromCbor(W!ToCbor(v)))
       /\ Reads(R!FromMsgpack(W!ToMsgpack(v)))
       /\ \A use \in W!UbjsonUse : W!TooLarge(v) \/ Reads(R!FromUbjson(W!ToUbjson(v, use)))
       /\ W!ToBson(v) # W!Thrown =>
              /\ Reads(R!FromBson(W!ToBson(v)))
              /\ \A p \in W!Parts(v) :
                     p[1] \in {"array", "object"} => Len(W!Bson(p)) = W!BsonSize(p)

\* Whatever bytes are read as a value, the value can be written in the same format and is
\* read as an equal one.
ReadIsWritten(format, s) ==
    LET Same(From(_), To(_)) ==
            LET v == From(s) IN v # R!Fail => W!Equal(From(To(v)), v)
    IN CASE format = "cbor" -> Same(R!FromCbor, W!ToCbor)
         [] format = "msgpack" -> Same(R!FromMsgpack, W!ToMsgpack)
         [] format = "bson" -> Same(R!FromBson, W!ToBson)
         [] format = "ubjson" ->
                \A use \in W!UbjsonUse : Same(R!FromUbjson, LAMBDA v : W!ToUbjson(v, use))

\* The binary writer and the binary reader are inverse to each other, on values and on bytes.
BinaryRoundTrip ==
    /\ sample.of = "value" => WrittenIsRead(sample.is)
    /\ sample.of \in Formats => ReadIsWritten(sample.of, sample.is)

\* The patch that diff makes of two documents turns the one into the other, although every
\* operation of it meets what the operations before it have left; and a merge patch that is
\* applied again changes nothing.
PatchReaches ==
    sample.of = "documents" =>
        LET v == sample.is[1]
            w == sample.is[2]
            merged == P!MergePatch(v, w)
        IN /\ P!Equal(P!Patch(v, P!Diff(v, w, <<>>)), w)
           /\ P!MergePatch(merged, w) = merged

\* A pointer written as a string is read as the same pointer, and what add puts at one is found
\* there and undone by remove (PointerAgrees).
\* What flatten makes of a document is made the same document again by unflatten, if it has
\* no empty container, which becomes null, and no key 0, which would be an index.
FlattenReturns ==
    sample.of = "pointer" =>
        /\ P!PointerAgrees(sample.is[1], sample.is[2])
        /\ P!Solid(sample.is[1]) => P!Unflatten(P!Flatten(<<>>, sample.is[1])) = sample.is[1]
=============================================================================
