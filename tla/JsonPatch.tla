----------------------------- MODULE JsonPatch ------------------------------
(***************************************************************************)
(* json_pointer of json.hpp and what basic_json does with it: flatten and  *)
(* unflatten, patch, diff and merge_patch.                                 *)
(*                                                                         *)
(* A pointer is its sequence of reference tokens; tokens, keys and paths   *)
(* are bytes.  Fail stands for an exception, and Aborted for the assertion *)
(* at the end of operation_add.                                            *)
(***************************************************************************)
EXTENDS JsonBytes, FiniteSets

Fail == <<"fail">>
Aborted == <<"aborted">>

Slash == 47
Tilde == 126
Dash == <<45>>
Digits == 48 .. 57

-----------------------------------------------------------------------------
\* Tokens and paths

\* replace_substring: every f from the left, and what has been put in is not looked at again.
RECURSIVE ReplaceSubstring(_, _, _)
ReplaceSubstring(s, f, t) ==
    CASE s = <<>> -> <<>>
      [] s # <<>> /\ IsPrefix(f, s) -> t \o ReplaceSubstring(SubSeq(s, Len(f) + 1, Len(s)), f, t)
      [] OTHER -> <<Head(s)>> \o ReplaceSubstring(Tail(s), f, t)

Escape(token) == ReplaceSubstring(ReplaceSubstring(token, <<Tilde>>, <<Tilde, 48>>), <<Slash>>, <<Tilde, 49>>)

\* Mutation of Unescape: the replacements in the order of Escape.
Unescape_Swapped(token) ==
    ReplaceSubstring(ReplaceSubstring(token, <<Tilde, 48>>, <<Tilde>>), <<Tilde, 49>>, <<Slash>>)

Unescape(token) ==
    ReplaceSubstring(ReplaceSubstring(token, <<Tilde, 49>>, <<Slash>>), <<Tilde, 48>>, <<Tilde>>)

\* to_string.
PointerString(tokens) == FlattenSeq([i \in DOMAIN tokens |-> <<Slash>> \o Escape(tokens[i])])

\* A ~ is followed by 0 or 1.
WellEscaped(token) ==
    \A i \in DOMAIN token : token[i] = Tilde => i < Len(token) /\ token[i + 1] \in {48, 49}

\* split: the tokens between the slashes, and the paths it throws at none of.
Parts(path) ==
    LET slashes == SelectSeq([i \in DOMAIN path |-> i], LAMBDA i : path[i] = Slash)
        end(i) == IF i = Len(slashes) THEN Len(path) ELSE slashes[i + 1] - 1
    IN [i \in DOMAIN slashes |-> SubSeq(path, slashes[i] + 1, end(i))]
IsPath(path) ==
    /\ path = <<>> \/ path[1] = Slash
    /\ \A token \in ToSet(Parts(path)) : WellEscaped(token)
Split(path) == [i \in DOMAIN Parts(path) |-> Unescape(Parts(path)[i])]

\* array_index: std::stoi of the whole token, which takes a sign (and space, left out here).
NoSign(token) == IF token # <<>> /\ token[1] \in {43, 45} THEN Tail(token) ELSE token
IsIndex(token) == NoSign(token) # <<>> /\ ToSet(NoSign(token)) \subseteq Digits
ArrayIndex(token) ==
    LET n == FoldLeft(LAMBDA sum, d : sum * 10 + d - 48, 0, NoSign(token))
    IN IF token[1] = 45 THEN -n ELSE n

LeadingZero(token) == Len(token) > 1 /\ token[1] = 48

IndexName(i) ==
    LET name[n \in 0 .. i] == IF n < 10 THEN <<48 + n>> ELSE name[n \div 10] \o <<48 + (n % 10)>>
    IN name[i]

-----------------------------------------------------------------------------
\* at and contains: the value a pointer refers to

\* A token is the place of an item of an array; a negative one is beyond every size.
IsPlace(token) == ~LeadingZero(token) /\ IsIndex(token) /\ ArrayIndex(token) >= 0
Place(token) == ArrayIndex(token) + 1

\* get_checked.
RECURSIVE At(_, _)
At(v, tokens) ==
    IF tokens = <<>> THEN v ELSE
    LET t == Head(tokens) IN
    CASE v[1] = "object" /\ t \in DOMAIN v[2] -> At(v[2][t], Tail(tokens))
      [] v[1] = "array" /\ IsPlace(t) ->
             IF Place(t) \in DOMAIN v[2] THEN At(v[2][Place(t)], Tail(tokens)) ELSE Fail
      [] OTHER -> Fail

\* contains.
RECURSIVE Includes(_, _)
Includes(v, tokens) ==
    IF tokens = <<>> THEN "yes" ELSE
    LET t == Head(tokens)
    IN CASE v[1] = "object" /\ t \in DOMAIN v[2] -> Includes(v[2][t], Tail(tokens))
         [] v[1] = "array" /\ t # Dash ->
                IF LeadingZero(t) \/ ~IsIndex(t) THEN "throws"
                ELSE IF Place(t) \notin DOMAIN v[2] THEN "no"
                ELSE Includes(v[2][Place(t)], Tail(tokens))
         [] OTHER -> "no"

-----------------------------------------------------------------------------
\* operator[] and get_and_create: what is missing comes into being

\* operator[](i): the items in between become null.
WithItem(items, i, v) ==
    [k \in 1 .. (IF i > Len(items) THEN i ELSE Len(items)) |->
        IF k = i THEN v ELSE IF k \in DOMAIN items THEN items[k] ELSE Null]
WithMember(members, k, v) == (k :> v) @@ members

\* get_unchecked makes an array or an object of null, by the token.
Grown(v, token) ==
    IF v # Null THEN v
    ELSE IF ToSet(token) \subseteq Digits \/ token = Dash THEN Array(<<>>) ELSE Object(<<>>)

\* Where it looks: a key, or a place, "-" for the one behind the last.
HasSpot(v, token) == v[1] = "object" \/ (v[1] = "array" /\ (token = Dash \/ IsPlace(token)))
Spot(v, token) ==
    CASE v[1] = "object" -> token
      [] v[1] = "array" /\ token = Dash -> Len(v[2]) + 1
      [] v[1] = "array" /\ token # Dash -> Place(token)
Inside(v, spot) == IF spot \in DOMAIN v[2] THEN v[2][spot] ELSE Null
With(v, spot, w) ==
    IF v[1] = "array" THEN Array(WithItem(v[2], spot, w)) ELSE Object(WithMember(v[2], spot, w))

\* The value that get_unchecked refers to, and v with w in its place.
RECURSIVE Unchecked(_, _), Put(_, _, _)
Unchecked(v, tokens) ==
    IF tokens = <<>> THEN v ELSE
    LET u == Grown(v, Head(tokens))
    IN IF HasSpot(u, Head(tokens)) THEN Unchecked(Inside(u, Spot(u, Head(tokens))), Tail(tokens))
       ELSE Fail
Put(v, tokens, w) ==
    IF tokens = <<>> THEN w ELSE
    LET u == Grown(v, Head(tokens))
        spot == Spot(u, Head(tokens))
    IN With(u, spot, Put(Inside(u, spot), Tail(tokens), w))

-----------------------------------------------------------------------------
\* flatten and unflatten

\* json_pointer::flatten: a function from paths to primitive values; what is empty is null.
RECURSIVE Flatten(_, _)
Flatten(path, v) ==
    CASE v[1] \in {"array", "object"} /\ v[2] = <<>> -> path :> Null
      [] v[1] = "array" /\ v[2] # <<>> ->
             FoldLeft(LAMBDA f, i : f @@ Flatten(path \o <<Slash>> \o IndexName(i - 1), v[2][i]),
                      <<>>, [i \in DOMAIN v[2] |-> i])
      [] v[1] = "object" /\ v[2] # <<>> ->
             FoldLeft(LAMBDA f, k : f @@ Flatten(path \o <<Slash>> \o Escape(k), v[2][k]),
                      <<>>, Sorted(DOMAIN v[2]))
      [] OTHER -> path :> v

\* get_and_create: null becomes an array only for the token 0.
RECURSIVE Create(_, _, _)
Create(v, tokens, w) ==
    IF tokens = <<>> THEN w ELSE
    LET t == Head(tokens)
        u == IF v # Null THEN v ELSE IF t = <<48>> THEN Array(<<>>) ELSE Object(<<>>)
        spot == IF u[1] = "object" THEN t ELSE Place(t)
        inner == Create(Inside(u, spot), Tail(tokens), w)
    IN IF u[1] = "object" \/ (u[1] = "array" /\ IsIndex(t) /\ ArrayIndex(t) >= 0)
       THEN IF inner = Fail THEN Fail ELSE With(u, spot, inner)
       ELSE Fail

\* unflatten: the paths in their order.
Unflatten(f) ==
    FoldLeft(LAMBDA v, path : IF v = Fail THEN Fail ELSE Create(v, Split(path), f[path]),
             Null, Sorted(DOMAIN f))

-----------------------------------------------------------------------------
\* patch

\* operation_add.  Below the first token what is missing is made.
OperationAdd(v, tokens, w) ==
    IF tokens = <<>> THEN w
    ELSE IF Len(tokens) > 1 /\ At(v, <<tokens[1]>>) = Fail THEN Fail
    ELSE LET path == Front(tokens)
             last == Last(tokens)
             parent == Unchecked(v, path)
         IN CASE parent = Fail -> Fail
              [] parent = Null -> Put(v, path, Object(last :> w))
              [] parent[1] = "object" -> Put(v, path, Object(WithMember(parent[2], last, w)))
              [] parent[1] = "array" ->
                     IF last = Dash THEN Put(v, path, Array(Append(parent[2], w)))
                     ELSE IF ~IsIndex(last) \/ ArrayIndex(last) \notin 0 .. Len(parent[2]) THEN Fail
                     ELSE Put(v, path, Array(InsertAt(parent[2], Place(last), w)))
              [] OTHER -> Aborted

\* operation_remove.  In a value that is neither array nor object nothing is removed.
OperationRemove(v, tokens) ==
    IF tokens = <<>> \/ At(v, Front(tokens)) = Fail THEN Fail
    ELSE LET path == Front(tokens)
             last == Last(tokens)
             parent == At(v, path)
         IN CASE parent[1] = "object" ->
                     IF last \notin DOMAIN parent[2] THEN Fail
                     ELSE Put(v, path, Object([k \in DOMAIN parent[2] \ {last} |-> parent[2][k]]))
              [] parent[1] = "array" ->
                     IF ~IsIndex(last) \/ ArrayIndex(last) \notin 0 .. Len(parent[2]) - 1 THEN Fail
                     ELSE Put(v, path, Array(RemoveAt(parent[2], Place(last))))
              [] OTHER -> v

\* One operation, whose paths are well formed.
Operation(v, o) ==
    LET ptr == Split(o.path) IN
    CASE o.op = "add" -> OperationAdd(v, ptr, o.value)
      [] o.op = "remove" -> OperationRemove(v, ptr)
      [] o.op = "replace" -> IF At(v, ptr) = Fail THEN Fail ELSE Put(v, ptr, o.value)
      [] o.op = "move" ->
             LET from == Split(o.from)
                 moved == At(v, from)
                 rest == OperationRemove(v, from)
             IN IF moved = Fail \/ rest = Fail THEN Fail ELSE OperationAdd(rest, ptr, moved)
      [] o.op = "copy" ->
             LET copied == At(v, Split(o.from))
             IN IF copied = Fail THEN Fail ELSE OperationAdd(v, ptr, copied)
      [] o.op = "test" -> IF At(v, ptr) # Fail /\ Equal(At(v, ptr), o.value) THEN v ELSE Fail

\* patch: one after the other, on a copy.
Patch(v, operations) ==
    FoldLeft(LAMBDA u, o : IF u \in {Fail, Aborted} THEN u ELSE Operation(u, o), v, operations)

-----------------------------------------------------------------------------
\* diff and merge_patch

Add(path, v) == [op |-> "add", path |-> path, value |-> v]
Erase(path) == [op |-> "remove", path |-> path]
Replace(path, v) == [op |-> "replace", path |-> path, value |-> v]

Below(path, token) == path \o <<Slash>> \o token

\* Mutation of Removals: what is too much in an array is removed from its front.
Removals_Forward(path, from, to) ==
    [i \in 1 .. to - from |-> Erase(Below(path, IndexName(from + i - 1)))]

\* The items of an array from one index up to another are removed, the last one first.
Removals(path, from, to) ==
    [i \in 1 .. to - from |-> Erase(Below(path, IndexName(to - i)))]

RECURSIVE Diff(_, _, _)
DiffArray(a, b, path) ==
    LET common == IF Len(a) < Len(b) THEN Len(a) ELSE Len(b)
    IN FlattenSeq([i \in 1 .. common |-> Diff(a[i], b[i], Below(path, IndexName(i - 1)))])
       \o Removals(path, common, Len(a))
       \o [i \in 1 .. Len(b) - common |-> Add(Below(path, IndexName(common + i - 1)), b[common + i])]
DiffObject(f, g, path) ==
    LET Each(S, Of(_)) == FlattenSeq([i \in 1 .. Cardinality(S) |-> Of(Sorted(S)[i])])
        Old(k) == IF k \in DOMAIN g THEN Diff(f[k], g[k], Below(path, Escape(k)))
                  ELSE <<Erase(Below(path, Escape(k)))>>
        New(k) == <<Add(Below(path, Escape(k)), g[k])>>
    IN Each(DOMAIN f, Old) \o Each(DOMAIN g \ DOMAIN f, New)
Diff(a, b, path) ==
    CASE Equal(a, b) -> <<>>
      [] ~Equal(a, b) /\ a[1] = "array" /\ b[1] = "array" -> DiffArray(a[2], b[2], path)
      [] ~Equal(a, b) /\ a[1] = "object" /\ b[1] = "object" -> DiffObject(a[2], b[2], path)
      [] OTHER -> <<Replace(path, b)>>

\* merge_patch.
RECURSIVE MergePatch(_, _)
MergePatch(v, p) ==
    IF p[1] # "object" THEN p ELSE
    LET old == IF v[1] = "object" THEN v[2] ELSE <<>>
        nulls == {k \in DOMAIN p[2] : p[2][k] = Null}
    IN Object([k \in (DOMAIN old \cup DOMAIN p[2]) \ nulls |->
                  IF k \notin DOMAIN p[2] THEN old[k]
                  ELSE MergePatch(IF k \in DOMAIN old THEN old[k] ELSE Null, p[2][k])])

-----------------------------------------------------------------------------
\* What is promised

\* A pointer comes back from its path.  contains and at, which look on their own, agree; an
\* add that succeeds leaves its value where at finds it, at the end for "-"; and a remove
\* behind an add that has replaced nothing undoes it.
Found(v, tokens) == At(v, tokens) # Fail
PointerAgrees(v, tokens) ==
    LET path == PointerString(tokens)
        w == String(<<120>>)
        added == OperationAdd(v, tokens, w)
        Plain(t) == t # Dash /\ ~LeadingZero(t)
        parent == At(v, Front(tokens))
    IN /\ IsPath(path) /\ Split(path) = tokens
       /\ (Includes(v, tokens) = "yes") = Found(v, tokens)
       /\ added \notin {Fail, Aborted} =>
              /\ (\A t \in ToSet(tokens) : Plain(t)) => At(added, tokens) = w
              /\ tokens # <<>> /\ Found(v, Front(tokens)) =>
                     \/ parent[1] = "array" /\ Last(tokens) = Dash
                        /\ Last(At(added, Front(tokens))[2]) = w
                     \/ parent[1] = "array" /\ Last(tokens) # Dash
                        /\ OperationRemove(added, tokens) = v
                     \/ parent[1] = "object" /\ OperationRemove(added, tokens) = v
                     \/ parent[1] = "object" /\ Last(tokens) \in DOMAIN parent[2]
                     \/ parent = Null

\* A document without empty containers, which flatten makes null, and without the key 0,
\* which unflatten takes for an index.
RECURSIVE Solid(_)
Solid(v) ==
    v[1] \in {"array", "object"} =>
        /\ v[2] # <<>> /\ (v[1] = "object" => <<48>> \notin DOMAIN v[2])
        /\ \A k \in DOMAIN v[2] : Solid(v[2][k])
=============================================================================
