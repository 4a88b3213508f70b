------------------------------ MODULE JsonText ------------------------------
(***************************************************************************)
(* json::parse and json::dump on whole messages: the scanner with its      *)
(* number automaton, the parser with its stack of open arrays and objects, *)
(* the builder of the value and the serializer; and the grammar of JSON as *)
(* the reference.                                                          *)
(*                                                                         *)
(* A text is a sequence of symbols: the characters of JSON, where a whole  *)
(* string literal ("a", "b"; scanned in JsonString.tla) and a whole        *)
(* literal ("true") count as one symbol, and "bad" is whatever begins no   *)
(* token.  A byte order mark, which scan skips, and a null byte, which it  *)
(* takes for the end of the input, are left out.                           *)
(***************************************************************************)
EXTENDS Integers, Sequences, SequencesExt

StringSymbol == {"a", "b"}
DigitSymbol == {"0", "1"}
NumberSymbol == DigitSymbol \cup {"-", ".", "e"}
Symbol == {"[", "]", "{", "}", ":", ",", "true", " ", "bad"} \cup StringSymbol \cup NumberSymbol
End == "end of input"

Errored == <<"error", <<>>>>
Null == <<"null", <<>>>>

-----------------------------------------------------------------------------
\* scan_number

\* Where scan_number goes from label m on character c ("-" stands for both signs
\* of an exponent).
NumberNext(m, c) ==
    CASE m = "minus" /\ c = "0" -> "zero"
      [] m = "minus" /\ c \in DigitSymbol \ {"0"} -> "any1"
      [] m = "any1" /\ c \in DigitSymbol -> "any1"
      [] m \in {"zero", "any1"} /\ c = "." -> "decimal1"
      [] m \in {"decimal1", "decimal2"} /\ c \in DigitSymbol -> "decimal2"
      [] m \in {"zero", "any1", "decimal2"} /\ c = "e" -> "exponent"
      [] m = "exponent" /\ c = "-" -> "sign"
      [] m \in {"exponent", "sign", "any2"} /\ c \in DigitSymbol -> "any2"
      [] m \in {"minus", "decimal1", "exponent", "sign"} -> "bad"
      [] OTHER -> "done"

NumberStart == "-" :> "minus" @@ "0" :> "zero" @@ "1" :> "any1"

\* number_type: what the labels on the way have made of it.
NumberType(buffer) ==
    IF "." \in ToSet(buffer) \/ "e" \in ToSet(buffer) THEN "float"
    ELSE IF buffer[1] = "-" THEN "integer" ELSE "unsigned"

\* What strtoull and strtoll make of a number within their range.  An unsigned and
\* a signed value that are equal are the same value; floats are left as they are.
Decimal(digits) ==
    LET n[i \in 0 .. Len(digits)] ==
            IF i = 0 THEN 0 ELSE n[i - 1] * 10 + (IF digits[i] = "0" THEN 0 ELSE 1)
    IN n[Len(digits)]

Number(buffer) ==
    CASE NumberType(buffer) = "unsigned" -> <<"integer", <<Decimal(buffer)>>>>
      [] NumberType(buffer) = "integer" -> <<"integer", <<-Decimal(Tail(buffer))>>>>
      [] OTHER -> <<"float", buffer>>

-----------------------------------------------------------------------------
\* json_sax_dom_parser: the containers that are open, each with what is in it so far

Array(items) == <<"array", items>>
Object(members) == <<"object", members>>
Container(isArray) ==
    [array |-> isArray, items |-> <<>>, members |-> <<>>, key |-> "none",
     keep |-> TRUE, ref |-> TRUE, store |-> TRUE]

\* Mutation of HandleValue: the first value of a key stays.
HandleValue_First(p, v) ==
    LET n == Len(p.refs) IN
    IF n = 0 THEN [p EXCEPT !.root = v]
    ELSE IF p.refs[n].array THEN [p EXCEPT !.refs[n].items = Append(@, v)]
    ELSE [p EXCEPT !.refs[n].members = @ @@ (p.refs[n].key :> v)]

\* handle_value: the new root, one more element, or the value of the key; an earlier value
\* of that key is replaced.
HandleValue(p, v) ==
    LET n == Len(p.refs) IN
    IF n = 0 THEN [p EXCEPT !.root = v]
    ELSE IF p.refs[n].array THEN [p EXCEPT !.refs[n].items = Append(@, v)]
    ELSE [p EXCEPT !.refs[n].members = (p.refs[n].key :> v) @@ @]

StartContainer(p, isArray) == [p EXCEPT !.refs = Append(@, Container(isArray))]

\* end_array, end_object.
EndContainer(p) ==
    LET c == Last(p.refs) IN
    HandleValue([p EXCEPT !.refs = Front(@)],
                IF c.array THEN Array(c.items) ELSE Object(c.members))

Key(p, k) == [p EXCEPT !.refs[Len(p.refs)].key = k]

-----------------------------------------------------------------------------
\* json_sax_dom_callback_parser: a callback says what to keep.  In a container, "keep" is
\* what it said of its start, "ref" that there is a place for it in the value, and
\* "store" what it said of the key in front of the next value.

\* The callback here rejects one kind of event, with any value or with one value; it is
\* called at the start of a container with a discarded value.
NoCallback == <<>>
Discarded == <<"discarded", <<>>>>
Keeps(p, event, v) == p.callback \notin {<<event>>, <<event, v>>}

\* There is a place for the next value: it is the root, an element, or that of a key to store.
HasPlace(p) ==
    LET c == Last(p.refs) IN p.refs = <<>> \/ (c.ref /\ (c.array \/ c.store))

\* handle_value of a value that is complete.
HandleFiltered(p, v) ==
    IF /\ p.refs = <<>> \/ Last(p.refs).keep
       /\ Keeps(p, "value", v)
       /\ HasPlace(p)
    THEN HandleValue(p, v) ELSE p

\* start_array, start_object: the container's own "keep" is on the stack when
\* handle_value looks at it.
StartFiltered(p, isArray) ==
    LET keep == Keeps(p, IF isArray THEN "array_start" ELSE "object_start", Discarded)
        c == [Container(isArray) EXCEPT !.keep = keep, !.ref = keep /\ HasPlace(p)]
    IN [p EXCEPT !.refs = Append(@, c)]

\* The key gets a discarded value until its own comes, if it comes.
KeyFiltered(p, k) ==
    LET n == Len(p.refs)
        keep == Keeps(p, "key", k)
    IN [Key(p, k) EXCEPT
            !.refs[n].store = keep,
            !.refs[n].members = IF keep /\ p.refs[n].ref THEN (k :> Discarded) @@ @ ELSE @]

\* Of the discarded members the first one goes.
EraseDiscarded(members) ==
    LET gone == SelectSeq(<<"a", "b">>, LAMBDA k : k \in DOMAIN members /\ members[k] = Discarded)
    IN [k \in DOMAIN members \ (IF gone = <<>> THEN {} ELSE {gone[1]}) |-> members[k]]

\* end_array: what the callback rejects is discarded, and leaves an array around it.
EndArrayFiltered(p) ==
    LET c == Last(p.refs)
        v == Array(c.items)
        q == [p EXCEPT !.refs = Front(@)]
    IN CASE ~c.ref -> q
         [] c.ref /\ Keeps(p, "array_end", v) -> HandleValue(q, v)
         [] OTHER -> IF q.refs # <<>> /\ Last(q.refs).array THEN q ELSE HandleValue(q, Discarded)

\* end_object: what the callback rejects is discarded, and a discarded member leaves an
\* object around it; an array around it keeps the discarded element.
EndObjectFiltered(p) ==
    LET c == Last(p.refs)
        v == Object(c.members)
        q == [p EXCEPT !.refs = Front(@)]
        r == IF ~c.ref THEN q
             ELSE HandleValue(q, IF Keeps(p, "object_end", v) THEN v ELSE Discarded)
        n == Len(r.refs)
    IN IF n > 0 /\ r.refs[n].ref /\ ~r.refs[n].array
       THEN [r EXCEPT !.refs[n].members = EraseDiscarded(@)] ELSE r

\* The events, for the parser with a callback and the one without.
OnValue(p, v) ==
    IF p.callback = NoCallback THEN HandleValue(p, v) ELSE HandleFiltered(p, v)
OnStart(p, isArray) ==
    IF p.callback = NoCallback THEN StartContainer(p, isArray) ELSE StartFiltered(p, isArray)
OnKey(p, k) == IF p.callback = NoCallback THEN Key(p, k) ELSE KeyFiltered(p, k)
OnEnd(p) ==
    CASE p.callback = NoCallback -> EndContainer(p)
      [] p.callback # NoCallback /\ Last(p.refs).array -> EndArrayFiltered(p)
      [] OTHER -> EndObjectFiltered(p)

-----------------------------------------------------------------------------
\* sax_parse_internal: "expect" is where it calls get_token next

Expect(p, e) == [p EXCEPT !.expect = e]
Wrong(p) == [Expect(p, "error") EXCEPT !.root = Errored]

\* State evaluation: with nothing on the stack parse goes on to the end of the input.
AfterValue(p) == Expect(p, IF p.states = <<>> THEN "end" ELSE "separator")

\* The switch at the head of the loop.
Value(p, t) ==
    CASE t = "{" -> Expect(OnStart(p, FALSE), "first key")
      [] t = "[" -> Expect(OnStart(p, TRUE), "first value")
      [] t \in StringSymbol \cup {"true"} -> AfterValue(OnValue(p, <<t, <<>>>>))
      [] OTHER -> Wrong(p)

\* After an element: a comma or the end of the container on top of the stack.
Separator(p, t) ==
    LET inArray == Last(p.states) IN
    CASE t = "," -> Expect(p, IF inArray THEN "value" ELSE "key")
      [] t = (IF inArray THEN "]" ELSE "}") ->
             AfterValue(OnEnd([p EXCEPT !.states = Front(@)]))
      [] OTHER -> Wrong(p)

Push(p, isArray) == [p EXCEPT !.states = Append(@, isArray)]

\* One token.
Token(p, t) ==
    CASE p.expect = "value" -> Value(p, t)
      [] p.expect = "first value" ->
             IF t = "]" THEN AfterValue(OnEnd(p)) ELSE Value(Push(p, TRUE), t)
      [] p.expect \in {"first key", "key"} ->
             IF t = "}" /\ p.expect = "first key" THEN AfterValue(OnEnd(p))
             ELSE IF t \in StringSymbol THEN Expect(OnKey(p, t), p.expect \o " colon")
             ELSE Wrong(p)
      [] p.expect \in {"first key colon", "key colon"} ->
             IF t # ":" THEN Wrong(p)
             ELSE Expect(IF p.expect = "key colon" THEN p ELSE Push(p, FALSE), "value")
      [] p.expect = "separator" -> Separator(p, t)
      [] p.expect = "end" -> IF t = End THEN Expect(p, "accepted") ELSE Wrong(p)
      [] OTHER -> p

\* A number is complete.  It cannot be the first key, nor any other.
NumberToken(p) ==
    LET n == [p EXCEPT !.mode = "start", !.buffer = <<>>]
        v == Number(p.buffer)
    IN CASE p.expect = "value" -> AfterValue(OnValue(n, v))
         [] p.expect = "first value" -> AfterValue(OnValue(Push(n, TRUE), v))
         [] OTHER -> Wrong(n)

-----------------------------------------------------------------------------
\* scan

\* The first character of a token; space is skipped.
Begin(p, c) ==
    CASE c = " " -> p
      [] c \in DOMAIN NumberStart -> [p EXCEPT !.mode = NumberStart[c], !.buffer = <<c>>]
      [] OTHER -> Token(p, c)

\* The next character.  The one behind a number is read again (unget).
Feed(p, c) ==
    IF p.expect \in {"accepted", "error"} THEN p
    ELSE IF p.mode = "start" THEN Begin(p, c)
    ELSE LET m == NumberNext(p.mode, c) IN
         CASE m = "bad" -> Wrong(p)
           [] m = "done" -> LET q == NumberToken(p) IN
                            IF q.expect = "error" THEN q ELSE Begin(q, c)
           [] OTHER -> [p EXCEPT !.mode = m, !.buffer = Append(@, c)]

\* parse: the value, or Errored for the exception.
Start == [mode |-> "start", buffer |-> <<>>, expect |-> "value",
          states |-> <<>>, refs |-> <<>>, root |-> Null, callback |-> NoCallback]

ParseWith(callback, symbols) ==
    LET after[i \in 0 .. Len(symbols)] ==
            IF i = 0 THEN [Start EXCEPT !.callback = callback] ELSE Feed(after[i - 1], symbols[i])
        root == Feed(after[Len(symbols)], End).root
    IN IF root = Discarded THEN Null ELSE root

Parse(symbols) == ParseWith(NoCallback, symbols)

-----------------------------------------------------------------------------
\* dump_integer

\* Mutation of CountDigits: one hundred has two digits.
CountDigits_OffByOne(n) ==
    LET c[y \in 0 .. n] ==
            CASE y < 10 -> 1 [] y \in 10 .. 100 -> 2 [] y \in 101 .. 999 -> 3
              [] y \in 1000 .. 9999 -> 4 [] OTHER -> 4 + c[y \div 10000]
    IN c[n]

CountDigits(n) ==
    LET c[y \in 0 .. n] ==
            CASE y < 10 -> 1 [] y \in 10 .. 99 -> 2 [] y \in 100 .. 999 -> 3
              [] y \in 1000 .. 9999 -> 4 [] OTHER -> 4 + c[y \div 10000]
    IN c[n]

\* The buffer is filled from its end, two digits at a time.
Digits(n) ==
    LET d[y \in 0 .. n] ==
            CASE y >= 100 -> Append(Append(d[y \div 100], (y \div 10) % 10), y % 10)
              [] y \in 10 .. 99 -> <<y \div 10, y % 10>>
              [] OTHER -> <<y>>
    IN d[n]

\* n_chars characters are written; what was not filled is left from the number before, and
\* what was filled in front of them is lost.
DumpInteger(n) ==
    LET digits == Digits(n)
        unfilled == CountDigits(n) - Len(digits)
    IN [i \in 1 .. CountDigits(n) |-> IF i <= unfilled THEN "stale" ELSE digits[i - unfilled]]

-----------------------------------------------------------------------------
\* dump

KeyOrder == <<"a", "b">>

\* The texts, with commas between.
Join(texts) ==
    LET joined[i \in 0 .. Len(texts)] ==
            CASE i = 0 -> <<>>
              [] i = 1 -> texts[1]
              [] OTHER -> joined[i - 1] \o <<",">> \o texts[i]
    IN joined[Len(texts)]

DumpNumber(n) ==
    LET digits == DumpInteger(IF n < 0 THEN -n ELSE n)
    IN (IF n < 0 THEN <<"-">> ELSE <<>>)
       \o [i \in DOMAIN digits |-> IF digits[i] = 0 THEN "0" ELSE "1"]

\* Members come in the order of their keys.  (to_chars, which writes floats, is left out.)
RECURSIVE Dump(_)
Dump(v) ==
    CASE v[1] = "array" ->
             <<"[">> \o Join([i \in DOMAIN v[2] |-> Dump(v[2][i])]) \o <<"]">>
      [] v[1] = "object" ->
             LET keys == SelectSeq(KeyOrder, LAMBDA k : k \in DOMAIN v[2])
             IN <<"{">> \o Join([i \in DOMAIN keys |-> <<keys[i], ":">> \o Dump(v[2][keys[i]])])
                        \o <<"}">>
      [] v[1] = "integer" -> DumpNumber(v[2][1])
      [] v[1] \in StringSymbol \cup {"true"} -> <<v[1]>>

-----------------------------------------------------------------------------
\* The grammar of JSON (RFC 7159)

IsDigits(s) == s # <<>> /\ ToSet(s) \subseteq DigitSymbol
IsInt(s) ==
    \/ s = <<"0">>
    \/ IsDigits(s) /\ s[1] # "0"
    \/ Len(s) > 1 /\ s[1] = "-" /\ (s[2] = "0" => Len(s) = 2) /\ IsDigits(Tail(s))
IsFrac(s) ==
    \/ s = <<>>
    \/ s[1] = "." /\ IsDigits(Tail(s))
IsExp(s) ==
    \/ s = <<>>
    \/ s[1] = "e" /\ IsDigits(Tail(s))
    \/ s[1] = "e" /\ Len(s) > 2 /\ s[2] = "-" /\ IsDigits(SubSeq(s, 3, Len(s)))
IsNumber(s) ==
    \E i \in 1 .. Len(s) : \E j \in i .. Len(s) :
        /\ IsInt(SubSeq(s, 1, i))
        /\ IsFrac(SubSeq(s, i + 1, j))
        /\ IsExp(SubSeq(s, j + 1, Len(s)))

\* Pairs of a text of n symbols, without space, and what it says: a value; the elements of
\* an array; the members of an object, where the last one of a key counts.  Numbers
\* have at most "longest" symbols.
Grammar(longest) ==
    LET Pair(P, Q, sep, Both(_, _)) == {<<p[1] \o sep \o q[1], Both(p[2], q[2])>> : p \in P, q \in Q}
        Wrap(open, P, close, Of(_)) == {<<open \o p[1] \o close, Of(p[2])>> : p \in P}
        One(v) == <<v>>
        Scalars(n) ==
            (IF n = 1 THEN {<< <<c>>, <<c, <<>>>> >> : c \in StringSymbol \cup {"true"}} ELSE {})
            \cup IF n > longest THEN {}
                 ELSE {<<s, Number(s)>> : s \in {t \in [1 .. n -> NumberSymbol] : IsNumber(t)}}
        Member(P) == UNION {Wrap(<<k, ":">>, P, <<>>, LAMBDA v : k :> v) : k \in StringSymbol}
        None == [values |-> {}, elements |-> {}, members |-> {}]
        G[n \in Int] ==
            IF n < 1 THEN None ELSE
            LET values ==
                    Scalars(n)
                    \cup (IF n = 2 THEN {<< <<"[", "]">>, Array(<<>>) >>, << <<"{", "}">>, Object(<<>>) >>} ELSE {})
                    \cup Wrap(<<"[">>, G[n - 2].elements, <<"]">>, Array)
                    \cup Wrap(<<"{">>, G[n - 2].members, <<"}">>, Object)
            IN [values |-> values,
                elements |->
                    Wrap(<<>>, values, <<>>, One)
                    \cup UNION {Pair(G[i].elements, G[n - 1 - i].values, <<",">>, Append) : i \in 1 .. n - 2},
                members |->
                    Member(G[n - 2].values)
                    \cup UNION {Pair(G[i].members, Member(G[n - 3 - i].values), <<",">>,
                                     LAMBDA f, g : g @@ f) : i \in 1 .. n - 4}]
    IN G

\* A text and the same without space: a space may stand anywhere but inside a number.
Squeeze(symbols) == SelectSeq(symbols, LAMBDA c : c # " ")
SpaceInNumber(symbols) ==
    \E i, j \in DOMAIN symbols :
        /\ i + 1 < j /\ {symbols[i], symbols[j]} \subseteq NumberSymbol
        /\ \A k \in i + 1 .. j - 1 : symbols[k] = " "

-----------------------------------------------------------------------------
\* What the documentation of parse says a callback does: what it rejects was never read.

RECURSIVE Filter(_, _)
Filter(callback, v) ==
    LET Rejects(event, w) == callback \in {<<event>>, <<event, w>>}
        Kept(w) == Filter(callback, w) # Discarded
        Judge(start, end, w) == IF Rejects(start, Discarded) \/ Rejects(end, w) THEN Discarded ELSE w
    IN CASE v[1] = "array" ->
                LET kept == SelectSeq(v[2], Kept)
                IN Judge("array_start", "array_end",
                         Array([i \in DOMAIN kept |-> Filter(callback, kept[i])]))
         [] v[1] = "object" ->
                LET kept == {k \in DOMAIN v[2] : ~Rejects("key", k) /\ Kept(v[2][k])}
                IN Judge("object_start", "object_end",
                         Object([k \in kept |-> Filter(callback, v[2][k])]))
         [] OTHER -> IF Rejects("value", v) THEN Discarded ELSE v

\* The containers of v with a member that the callback rejects.
RECURSIVE Hosts(_, _)
Hosts(callback, v) ==
    IF v[1] \notin {"array", "object"} THEN {}
    ELSE UNION {Hosts(callback, v[2][i]) : i \in DOMAIN v[2]}
         \cup {k \in {v[1]} : \E i \in DOMAIN v[2] : Filter(callback, v[2][i]) = Discarded}

\* One callback for each kind of event, some for a single value.
Callbacks ==
    {<<"key", "a">>, <<"value", <<"true", <<>>>>>>, <<"value">>,
     <<"array_start">>, <<"array_end">>, <<"array_end", Array(<<>>)>>,
     <<"object_start">>, <<"object_end">>, <<"object_end", Object(<<>>)>>}

-----------------------------------------------------------------------------
\* Predicates on inputs

\* parse understands a text of the grammar as the grammar does.
Understood(pair) == Parse(pair[1]) = pair[2]

\* The kinds of containers in which what the callback rejects stays, as a discarded value:
\* an object in an array, any other value and an array in an object.
KeepsDiscarded(callback) ==
    CASE callback[1] = "object_end" -> {"array"}
      [] callback[1] \in {"value", "array_start", "array_end"} -> {"object"}
      [] OTHER -> {}

\* With a callback, what is parsed is what the callback keeps of the value.  "Discarded values in
\* structured types are skipped. That is, the parser will behave as if the discarded value
\* was never read" (json.hpp:13996) is not true of the containers of KeepsDiscarded; a
\* value in which the callback rejects a member of one is left out.
Filtered(pair) ==
    ToSet(pair[1]) \cap NumberSymbol = {} =>
        \A callback \in Callbacks :
            LET kept == Filter(callback, pair[2])
            IN Hosts(callback, pair[2]) \cap KeepsDiscarded(callback) = {} =>
                   ParseWith(callback, pair[1]) = IF kept = Discarded THEN Null ELSE kept

\* parse takes exactly the texts of the grammar for JSON: those without space are "texts".
Judged(symbols, texts) ==
    (Parse(symbols) # Errored) = (Squeeze(symbols) \in texts /\ ~SpaceInNumber(symbols))

\* parse gets back the value that dump writes.
Comes(v) == Parse(Dump(v)) = v

\* dump_integer writes the digits of n, all of them and no others.
WellCounted(n) ==
    LET ds == DumpInteger(n)
        value[i \in 0 .. Len(ds)] == IF i = 0 THEN 0 ELSE value[i - 1] * 10 + ds[i]
    IN ToSet(ds) \subseteq 0 .. 9 /\ value[Len(ds)] = n /\ (ds[1] = 0 => n = 0)
=============================================================================
