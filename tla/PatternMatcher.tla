--------------------------- MODULE PatternMatcher ---------------------------
(***************************************************************************)
(* The matcher of a rule's pattern (app/internal/rule/pattern): how        *)
(* NewMatcher turns the decoded JSON of a pattern into tests of fields,    *)
(* and what the tests say of an event, whose fields GetFieldByPath finds.  *)
(*                                                                         *)
(* The tests keep their paths as slices: append writes the next key into   *)
(* the array of the parent's path while that has room, so the arrays, with *)
(* their capacities, are part of the model. Maps are iterated in any       *)
(* order, so a matcher is one of several and a loop over a map has several *)
(* outcomes.                                                               *)
(*                                                                         *)
(* Means is the reference: what a pattern says, read off its tree.         *)
(***************************************************************************)
EXTENDS Integers, SequencesExt

CONSTANTS
    Begins,      \* pairs <<s, p>>: the string s begins with p
    Ends,        \* pairs <<s, p>>: the string s ends with p
    Within,      \* pairs <<s, n>>: s is an address of the network n
    Networks,    \* the strings net.ParseCIDR takes for networks
    Index        \* the integers that some keys are read as in an array

-----------------------------------------------------------------------------
(* Decoded JSON: a Go type and its value.                                  *)

Str(s) == <<"string", s>>
Num(n) == <<"float64", n>>
Bool(b) == <<"bool", b>>
Nil == <<"nil", "nil">>
Slice(s) == <<"slice", s>>
Map(f) == <<"map", f>>

\* What GetFieldByPath returns besides: no such field, a nil *string, an
\* error of json.Unmarshal, and an index that is out of range.
NotExists == <<"notExists", "nil">>
NilString == <<"*string", "nil">>
BadData == <<"error", "nil">>
BadIndex == <<"panic", "nil">>

TypeOf(v) == v[1]
IsMap(v) == TypeOf(v) = "map"
IsSlice(v) == TypeOf(v) = "slice"
Hashable(v) == ~IsMap(v) /\ ~IsSlice(v)
Members(f) == DOMAIN f[2]
Items(v) == IF IsSlice(v) THEN v[2] ELSE <<v>>
ItemSet(v) == Range(Items(v))

-----------------------------------------------------------------------------
(* GetFieldByPath. An event is a record of its fields, of which data is    *)
(* decoded JSON or BadData.                                                *)

\* One key further: a member, an element, or nothing.
Below(v, key) ==
    CASE IsMap(v) /\ key \in Members(v) -> v[2][key]
      [] IsSlice(v) /\ key \in DOMAIN Index ->
           CASE Index[key] >= Len(v[2]) -> NotExists
             [] Index[key] < 0 -> BadIndex
             [] OTHER -> v[2][Index[key] + 1]
      [] v = BadIndex -> BadIndex
      [] OTHER -> NotExists

GetFieldByPath(event, path) ==
    CASE Head(path) \notin DOMAIN event -> NotExists
      [] Len(path) = 1 -> event[Head(path)]
      [] Head(path) # "data" -> NotExists
      [] event.data = BadData -> BadData
      [] OTHER -> FoldLeft(Below, event.data, Tail(path))

-----------------------------------------------------------------------------
(* Outcomes. A loop that stops at the first outcome other than "no" (any   *)
(* success) or other than "yes" (all success); each step, and so the loop, *)
(* has a set of outcomes it may have.                                      *)

StopsInOrder(go, outs) ==
    UNION {outs[i] \ {go} : i \in {k \in DOMAIN outs : \A j \in 1..(k - 1) : go \in outs[j]}}
      \cup {x \in {go} : \A i \in DOMAIN outs : go \in outs[i]}

StopsInAnyOrder(go, outs) ==
    (UNION outs \ {go}) \cup {x \in {go} : \A out \in outs : go \in out}

YesIf(b) == IF b THEN {"yes"} ELSE {"no"}
Not(out) == {IF o = "yes" THEN "no" ELSE IF o = "no" THEN "yes" ELSE o : o \in out}

\* vls[v] for each element of an array, or for the value: a key that cannot be
\* hashed panics.
Listed(vls, val) ==
    StopsInOrder("no", [i \in DOMAIN Items(val) |->
        LET v == Items(val)[i] IN
        IF Hashable(v) THEN YesIf(v \in vls) ELSE {"panic"}])

-----------------------------------------------------------------------------
(* The match functions.                                                    *)

Compares(op, a, b) ==
    CASE op = ">" -> a > b
      [] op = ">=" -> a >= b
      [] op = "=" -> a = b
      [] op = "<" -> a < b
      [] op = "<=" -> a <= b

Comparisons(spec) == 1..(Len(spec[2]) \div 2)

\* numeric: pairs of an operator and a number; fewer than two items match
\* nothing, an odd last one is ignored.
Numeric(spec, val) ==
    /\ Comparisons(spec) # {}
    /\ TypeOf(val) = "float64"
    /\ \A i \in Comparisons(spec) :
         Compares(spec[2][2 * i - 1][2], val[2], spec[2][2 * i][2])

NumericBuilds(spec) ==
    /\ IsSlice(spec)
    /\ \A i \in Comparisons(spec) :
         /\ TypeOf(spec[2][2 * i]) = "float64"
         /\ spec[2][2 * i - 1] \in {Str(op) : op \in {">", ">=", "=", "<", "<="}}

\* An absent field does not exist; an absent subject, a nil *string, does.
Exists(spec, val) == (val # NotExists) = spec[2]

Prefix(spec, val) == TypeOf(val) = "string" /\ <<val[2], spec[2]>> \in Begins

Suffix(spec, val) == TypeOf(val) = "string" /\ <<val[2], spec[2]>> \in Ends

Cidr(spec, val) == TypeOf(val) = "string" /\ <<val[2], spec[2]>> \in Within

\* The functions registered that look at the value only.
Holds(name, spec, val) ==
    CASE name = "exists" -> Exists(spec, val)
      [] name = "numeric" -> Numeric(spec, val)
      [] name = "prefix" -> Prefix(spec, val)
      [] name = "suffix" -> Suffix(spec, val)
      [] name = "cidr" -> Cidr(spec, val)

Values(spec) == {v \in ItemSet(spec) : ~IsMap(v)}
Alternatives(spec) == {v \in ItemSet(spec) : IsMap(v)}

\* The names anything-but calls, of one map or of all maps of an array, each
\* with the specs it is given.
Named(spec) == UNION {Members(m) : m \in Alternatives(spec)}
SpecsOf(spec, name) == {m[2][name] : m \in {x \in Alternatives(spec) : name \in Members(x)}}

\* newFunc of a name: known, and content with its spec. An array in an array
\* is a key of vls that cannot be hashed.
RECURSIVE FuncBuilds(_, _)
FuncBuilds(name, spec) ==
    CASE name = "exists" -> TypeOf(spec) = "bool"
      [] name = "numeric" -> NumericBuilds(spec)
      [] name \in {"prefix", "suffix"} -> TypeOf(spec) = "string"
      [] name = "cidr" -> TypeOf(spec) = "string" /\ spec[2] \in Networks
      [] name = "anything-but" ->
           /\ TypeOf(spec) \in {"string", "float64", "slice", "map"}
           /\ \A v \in Values(spec) : Hashable(v)
           /\ \A n \in Named(spec) : \A s \in SpecsOf(spec, n) : FuncBuilds(n, s)
      [] OTHER -> FALSE

\* What a match function says. anything-but fails when a listed value matches
\* or every name has a spec that matches; without names it is content with
\* any other value.
RECURSIVE Call(_, _, _)
Call(name, spec, val) ==
    IF name # "anything-but" THEN YesIf(Holds(name, spec, val))
    ELSE IF Hashable(spec) THEN YesIf(spec # val)
    ELSE LET listed == IF IsSlice(spec) THEN Listed(Values(spec), val) ELSE {"no"}
             all == StopsInAnyOrder("yes",
                      {StopsInAnyOrder("no", {Call(n, s, val) : s \in SpecsOf(spec, n)})
                         : n \in Named(spec)})
             funcs == IF Named(spec) = {} THEN {"no"} ELSE all
         IN Not(StopsInOrder("no", <<listed, funcs>>))

-----------------------------------------------------------------------------
(* parsePattern.                                                           *)

\* Whether it returns without an error: a string or a number, an array of
\* values and functions, or a map of patterns. What is not in an array cannot
\* be null or a truth value.
RECURSIVE ParseBuilds(_)
ParseBuilds(p) ==
    CASE TypeOf(p) \in {"string", "float64"} -> TRUE
      [] IsSlice(p) ->
           /\ \A v \in Values(p) : Hashable(v)
           /\ \A m \in Alternatives(p) : \A n \in Members(m) : FuncBuilds(n, m[2][n])
      [] IsMap(p) -> \A k \in Members(p) : ParseBuilds(p[2][k])
      [] OTHER -> FALSE

NewMatcherBuilds(p) == IsMap(p) /\ ParseBuilds(p)

\* A slice of keys: an array of the heap and a length. The arrays are as long
\* as their capacity.
Contents(heap, path) == SubSeq(heap[path.array], 1, path.len)

\* Mutation: the first array has room for four keys.
AppendKeyRoomy(heap, path, key) ==
    IF path.len < Len(heap[path.array])
    THEN [heap |-> [heap EXCEPT ![path.array][path.len + 1] = key],
          path |-> [path EXCEPT !.len = @ + 1]]
    ELSE LET room == IF path.len = 0 THEN 3 ELSE path.len - 1
         IN [heap |-> Append(heap, Contents(heap, path) \o <<key>> \o [i \in 1..room |-> ""]),
             path |-> [array |-> Len(heap) + 1, len |-> path.len + 1]]

\* append(rootPath, key): in place while there is room; otherwise into a new
\* array of twice the capacity.
AppendKey(heap, path, key) ==
    IF path.len < Len(heap[path.array])
    THEN [heap |-> [heap EXCEPT ![path.array][path.len + 1] = key],
          path |-> [path EXCEPT !.len = @ + 1]]
    ELSE LET room == IF path.len = 0 THEN 0 ELSE path.len - 1
         IN [heap |-> Append(heap, Contents(heap, path) \o <<key>> \o [i \in 1..room |-> ""]),
             path |-> [array |-> Len(heap) + 1, len |-> path.len + 1]]

\* The tests parsePattern makes of a pattern, in the order in which it makes
\* and later calls them, for every order in which its maps are iterated.
RECURSIVE Parse(_, _, _), ParseMap(_, _, _, _)
Parse(p, path, made) ==
    IF IsMap(p) THEN ParseMap(p, Members(p), path, made)
    ELSE {[made EXCEPT !.tests = Append(@, [path |-> path, pattern |-> p])]}

ParseMap(p, keys, path, made) ==
    IF keys = {} THEN {made}
    ELSE UNION {
        LET appended == AppendKey(made.heap, path, k)
        IN UNION {ParseMap(p, keys \ {k}, path, more) :
                    more \in Parse(p[2][k], appended.path, [made EXCEPT !.heap = appended.heap])}
        : k \in keys}

Matchers(p) == Parse(p, [array |-> 1, len |-> 0], [heap |-> << <<>> >>, tests |-> <<>>])

\* An array: a listed value, or the functions of one of its maps, which all
\* have to succeed; {} never does.
MatchItems(p, val) ==
    StopsInOrder("no", <<Listed(Values(p), val)>> \o
        [i \in DOMAIN SelectSeq(p[2], IsMap) |->
            LET m == SelectSeq(p[2], IsMap)[i]
            IN IF Members(m) = {} THEN {"no"}
               ELSE StopsInAnyOrder("yes", {Call(n, m[2][n], val) : n \in Members(m)})])

\* One test: data that is not JSON does not match.
Test(test, heap, event) ==
    LET val == GetFieldByPath(event, Contents(heap, test.path))
    IN CASE val = BadData -> {"no"}
         [] val = BadIndex -> {"panic"}
         [] IsSlice(test.pattern) -> MatchItems(test.pattern, val)
         [] OTHER -> YesIf(test.pattern = val)

\* Pattern: what any matcher of the pattern may say of an event. An empty
\* pattern matches nothing; an empty map within one matches everything.
Pattern(p, event) ==
    IF Members(p) = {} THEN {"no"}
    ELSE UNION {StopsInOrder("yes", [i \in DOMAIN m.tests |-> Test(m.tests[i], m.heap, event)])
                  : m \in Matchers(p)}

-----------------------------------------------------------------------------
(* The reference: docs/en/rule.md, of fields that hold no containers.      *)

\* The fields a pattern names, each with what it asks of the field.
RECURSIVE FieldsOf(_, _)
FieldsOf(p, path) ==
    IF IsMap(p) THEN UNION {FieldsOf(p[2][k], Append(path, k)) : k \in Members(p)}
    ELSE {[path |-> path, asks |-> p]}

\* An absent subject is empty: it is null, and it does not exist.
Empty(val) == val \in {NotExists, NilString}
ReadAs(val) == IF val = NilString THEN {Nil} ELSE ItemSet(val)

RECURSIVE Passes(_, _, _)
Passes(name, spec, val) ==
    CASE name = "exists" -> ~Empty(val) = spec[2]
      [] name # "anything-but" -> Holds(name, spec, val)
      [] Hashable(spec) -> val # spec
      [] OTHER ->
           /\ ReadAs(val) \cap Values(spec) = {}
           /\ Named(spec) # {} =>
                \E n \in Named(spec) : \A s \in SpecsOf(spec, n) : ~Passes(n, s, val)

Accepts(asks, val) ==
    IF IsSlice(asks)
    THEN \/ ReadAs(val) \cap Values(asks) # {}
         \/ \E m \in Alternatives(asks) :
              Members(m) # {} /\ \A n \in Members(m) : Passes(n, m[2][n], val)
    ELSE asks = val

\* All fields must match.
Means(p, event) ==
    /\ Members(p) # {}
    /\ \A f \in FieldsOf(p, <<>>) :
         LET val == GetFieldByPath(event, f.path) IN val # BadData /\ Accepts(f.asks, val)

-----------------------------------------------------------------------------
(* Where the matcher departs from it.                                      *)

\* A map at depth n with several keys, and a field below it whose path, of
\* length d, is still in the array made for length n: 2, 4, 8 keys.
Capacity(n) == CHOOSE c \in {0, 1, 2, 4, 8} : c >= n /\ (c = 0 \/ c < 2 * n)

SharesPath(p) ==
    \E f, g \in FieldsOf(p, <<>>) :
        \E n \in 0..8 :
            /\ n < Len(f.path) /\ Len(f.path) <= Capacity(n)
            /\ n < Len(g.path)
            /\ SubSeq(f.path, 1, n) = SubSeq(g.path, 1, n)
            /\ f.path[n + 1] # g.path[n + 1]

\* A field is asked whether it is null or exists, itself or in an anything-but.
RECURSIVE AsksWhetherEmpty(_)
AsksWhetherEmpty(asks) ==
    \/ Nil \in Values(asks)
    \/ "exists" \in Named(asks)
    \/ \E n \in Named(asks) : \E s \in SpecsOf(asks, n) : AsksWhetherEmpty(s)

\* The subject is, of an event without one: the nil *string GetFieldByPath
\* returns is not null, and exists (docs/en/rule.md:286, :523).
NilSubject(p, event) ==
    \E f \in FieldsOf(p, <<>>) :
        GetFieldByPath(event, f.path) = NilString /\ AsksWhetherEmpty(f.asks)

\* A field an array is looked up with holds a value that cannot be hashed, or
\* a key of its path is a negative index of an array.
Unhashable(p, event) ==
    \E f \in FieldsOf(p, <<>>) :
        LET val == GetFieldByPath(event, f.path)
        IN \/ val = BadIndex
           \/ IsSlice(f.asks) /\ \E v \in ItemSet(val) : ~Hashable(v)
=============================================================================
