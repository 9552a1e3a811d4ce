------------------------------- MODULE MCRules ------------------------------
(* Rules and their patterns for TLC: two rules of one bus; patterns of     *)
(* every kind, among them some that no matcher can be built from and one   *)
(* for each depth at which paths may share an array; events that have the  *)
(* fields, lack them, or hold containers in them.                          *)
EXTENDS RuleMatching, TLC

Sym == Permutations(Procs) \cup Permutations(Execs) \cup Permutations(RuleNames)

-----------------------------------------------------------------------------
S(str) == Slice(<<Str(str)>>)
Fn(name, s) == Slice(<<Map(name :> s)>>)
At(key, p) == Map(key :> p)
Both(p, q) == Map("x" :> p @@ "y" :> q)

MCBegins == {<<"ab", "a">>, <<"a", "a">>}
MCEnds == {<<"ab", "b">>, <<"b", "b">>}
MCWithin == {<<"10.0.0.1", "10.0.0.0/24">>}
MCNetworks == {"10.0.0.0/24"}
MCIndex == "0" :> 0 @@ "1" :> 1 @@ "-1" :> -1

Bound == Slice(<<Str(">"), Num(0), Str("<="), Num(1)>>)

\* Patterns no matcher is built from.
Bad == {
    At("source", Nil),
    At("source", Fn("regex", Str("a"))),
    At("data", At("x", Slice(<<Slice(<<>>)>>)))}

\* Patterns of one field.
Fields == {
    Map(<<>>),
    At("source", Str("a")),
    At("source", Slice(<<Str("b"), Map("prefix" :> Str("a") @@ "suffix" :> Str("b")), Map(<<>>)>>)),
    At("subject", Slice(<<Nil, Map("exists" :> Bool(FALSE))>>)),
    At("subject", Slice(<<Str("a"), Map("anything-but" :> Str("b"))>>)),
    At("data", At("x", Fn("anything-but", Slice(<<Str("b"), Map("prefix" :> Str("a"))>>)))),
    At("data", At("x", Fn("anything-but", Map("prefix" :> Str("a") @@ "suffix" :> Str("b"))))),
    At("data", At("x", Fn("cidr", Str("10.0.0.0/24"))))}

\* Patterns of two fields, side by side at the second to the fifth level, or
\* apart from each other.
Levels == {
    Map("source" :> S("a") @@ "data" :> At("x", Fn("numeric", Bound))),
    At("data", Both(S("a"), S("b"))),
    At("data", At("x", Both(Str("a"), Fn("exists", Bool(TRUE))))),
    At("data", At("x", Map("0" :> Str("a") @@ "-1" :> Str("b")))),
    At("data", At("x", At("y", Both(At("x", S("a")), At("y", S("b")))))),
    At("data", At("x", At("y", At("x", Both(S("a"), S("b"))))))}

\* Two fields at the fourth level below one key.
Siblings == At("data", At("x", At("y", Both(S("a"), Fn("exists", Bool(TRUE))))))

AllPatterns == Bad \cup Fields \cup Levels \cup {Siblings}
OnePattern == {At("source", Str("a"))}
FewPatterns == OnePattern \cup Bad
SiblingPatterns == OnePattern \cup {At("source", Nil), Siblings}

-----------------------------------------------------------------------------
Event(source, subject, data) == [source |-> source, subject |-> subject, data |-> data]

Leaves == {Str("a"), Str("b"), Str("ab"), Str("10.0.0.1"), Num(0), Num(1), Nil}
Arrays == {Slice(<<Str("a"), Str("b")>>), Slice(<<Str("a"), Map(<<>>)>>), Slice(<<Slice(<<>>), Str("b")>>)}
Deep == {Both(a, b) : a, b \in {Str("a"), Str("b")}}
Deeper == {At("x", At("y", d)) : d \in Deep} \cup
          {At("x", At("y", Both(At("x", Str(a)), At("y", Str(b))))) : a, b \in {"a", "b"}} \cup
          {At("x", At("y", At("x", d))) : d \in Deep}
Datas == {At("x", v) : v \in Leaves \cup Arrays \cup Deep} \cup Deep \cup Deeper

MCEvents ==
    {Event(Str(s), NilString, BadData) : s \in {"a", "b", "ab"}} \cup
    {Event(Str("a"), Str("b"), d) : d \in Datas} \cup
    {Event(Str("b"), NilString, At("x", Num(1)))}
=============================================================================
