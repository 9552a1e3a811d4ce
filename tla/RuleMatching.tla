---------------------------- MODULE RuleMatching ----------------------------
(***************************************************************************)
(* The rules of a bus and what their executors say of its events: Rules    *)
(* with contents that are patterns, of which those are broken NewMatcher   *)
(* rejects. An executor's matcher is one NewMatcher makes of the pattern   *)
(* the executor runs (app/internal/rule/rule.go with                       *)
(* app/internal/rule/pattern).                                             *)
(***************************************************************************)
EXTENDS Rules, PatternMatcher

CONSTANTS
    Patterns,    \* decoded patterns
    Common,      \* the patterns that are a content whatever the other is
    Events       \* the events of the bus

VARIABLE pattern \* the pattern of each content; never changes

matchingVars == <<rulesVars, pattern>>

\* Every content has a pattern, the broken ones one no matcher is built from.
Written ==
    {f \in [Specs -> Patterns] :
        /\ Broken = {s \in Specs : ~NewMatcherBuilds(f[s])}
        /\ \E s \in Specs \ Broken : f[s] \in Common}

MatchingInit == RulesInit /\ pattern \in Written

MatchingSpec == MatchingInit /\ [][RulesNext /\ UNCHANGED pattern]_matchingVars

\* What the matchers of a pattern may say of an event, and what it means.
Buildable == {p \in Patterns : NewMatcherBuilds(p)}
Says == [p \in Buildable |-> [e \in Events |-> Pattern(p, e)]]
Meant == [p \in Buildable |-> [e \in Events |-> YesIf(Means(p, e))]]

Settled == AllHandled /\ ~overlapped

-----------------------------------------------------------------------------
(* Properties.                                                             *)

\* Once the changes of the rules are handled, an event passes exactly the
\* executors of the rules whose pattern, as the reflector has it, means it, in
\* whatever order parsePattern and the tests iterate their maps - unless
\* sibling keys share the array of their path, the pattern asks whether the
\* subject is null or exists of an event that has none, or a test panics
\* because the field holds what a map of Go cannot look up (handler.Handle,
\* parsePattern, Pattern, GetFieldByPath).
MatchedAsWritten ==
    Settled =>
        \A n \in RuleNames \ given : wanted[n] # None =>
            /\ Running[n] \notin Broken \cup {None}
            /\ ~SharesPath(pattern[wanted[n]]) =>
                 \A e \in {f \in Events : ~NilSubject(pattern[wanted[n]], f)} :
                    LET says == Says[pattern[Running[n]]][e] IN
                    /\ says \subseteq Meant[pattern[wanted[n]]][e] \cup {"panic"}
                    /\ "panic" \in says => Unhashable(pattern[wanted[n]], e)

\* docs/en/rule.md:13-16, "the fields to be matched are combined with "AND"
\* logic, meaning all participating fields must match successfully": no event
\* passes an executor although a field of the rule's pattern does not match.
\* Two keys beside each other at the fourth level refute it (parsePattern).
AllFieldsMatch ==
    Settled =>
        \A n \in RuleNames \ given : wanted[n] # None =>
            \A e \in Events :
                "yes" \in Says[pattern[Running[n]]][e] => Means(pattern[wanted[n]], e)
=============================================================================
