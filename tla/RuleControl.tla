---------------------------- MODULE RuleControl -----------------------------
(***************************************************************************)
(* The job as far as the rules of a bus go: its rule reflector and the     *)
(* executors it keeps. Module Reflector has the table of all rules, its    *)
(* writers and Watch; module Rules has Handle, for which the reflector is  *)
(* an environment that says anything at any time. Here it says what Watch  *)
(* says: what Get returns is the reflector's map, and the Watch that       *)
(* changed a rule reports its key, together with those of other rules.     *)
(***************************************************************************)
EXTENDS Reflector, Rules

\* The keys of the bus are among those of the table, and the rows the query
\* selects hold rules.
RowsAreRules == RuleNames \subseteq Names /\ Enabled \subseteq Specs

Init == ReflectorInit /\ RulesInit

vars == <<reflectorVars, rulesVars>>

\* What Get finds: nil and false if there is no such rule.
GetRule(map, n) == IF map[n] = Absent THEN None ELSE map[n]

\* Watch stores or deletes a rule; Handle can see it from now on.
ApplyRule(n) ==
    /\ ApplyKey(n)
    /\ RulesReported({n})
    /\ wanted'[n] = GetRule(view', n)

\* The rules of the bus that this Watch changed.
Found == {n \in RuleNames : Index(fetched)[n] # inter[n]}

\* Watch returns, and the informer reports what it changed.
WatchReturnsRules ==
    /\ WatchReturns
    /\ IF Found = {} THEN UNCHANGED rulesVars
                     ELSE RulesReported(Found) /\ UNCHANGED wanted

\* Writers, and what else Watch does; rules of other buses.
ReflectorOnly ==
    /\ \/ Write
       \/ ReadVersion
       \/ FetchPage
       \/ FetchLastPage
       \/ FetchFails
       \/ \E n \in Names \ RuleNames : ApplyKey(n)
    /\ UNCHANGED rulesVars

\* The informer's goroutines do not touch the reflector.
RulesOnly ==
    /\ \E p \in Procs :
         \/ \E n \in RuleNames : Begin(p, n)
         \/ Handle(p)
    /\ UNCHANGED reflectorVars

Next ==
    \/ \E n \in RuleNames : ApplyRule(n)
    \/ WatchReturnsRules
    \/ ReflectorOnly
    \/ RulesOnly

Spec == Init /\ [][Next]_vars

-----------------------------------------------------------------------------
(* Properties.                                                             *)

\* From the rows of a bus' rules to what its events are matched against: once
\* a Watch has caught up with the writers and every key is handled, one at a
\* time, the bus runs exactly the rules of the table, with the contents of
\* their rows - but for a rule that was given up because its content cannot be
\* built - and no other executor is left open (Watch, Handle, updateRule and
\* deleteRule together).
RunsTable ==
    Quiet /\ ~missed /\ AllHandled /\ ~overlapped =>
        /\ \A n \in RuleNames \ given :
             Running[n] = IF Latest[n] = Absent THEN None ELSE Latest[n]
        /\ \A n \in given :
             Latest[n] \in Broken \/ Running[n] = GetRule(Latest, n)
        /\ \A e \in Execs : spec[e] # None =>
             \E n \in RuleNames : executors[n] = e
=============================================================================
