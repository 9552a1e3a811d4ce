-------------------------------- MODULE Rules -------------------------------
(***************************************************************************)
(* The job's table of rule executors (app/internal/rule/rule.go): for each *)
(* bus a map from rule name to executor, replaced as a whole by Store, and *)
(* the handler the informer runs for a changed rule - on its worker        *)
(* goroutines and on its retry goroutine, so several at a time.            *)
(*                                                                         *)
(* The entries of different buses never meet, so one bus is modelled. The  *)
(* informer is module KeyDispatch: a reported key is handled, twice if it  *)
(* waits in two places, again after a failure until the informer gives it  *)
(* up, and several keys at once. Update and Close of an executor are taken *)
(* as single steps; an Update that rejects the pattern, before anything    *)
(* else, leaves the executor as it was.                                    *)
(***************************************************************************)
EXTENDS Naturals, FiniteSets

CONSTANTS
    RuleNames,       \* rule names of the bus
    Specs,       \* the contents of a rule: pattern and targets
    Broken,      \* the contents whose pattern the matcher rejects
    Procs,       \* goroutines of the informer that run Handle
    Execs,       \* identities of executors
    None,        \* nothing: no rule, no executor, no map
    MaxChanges   \* bound: reports of the reflector

ASSUME RulesAssumption ==
    /\ Broken \subseteq Specs
    /\ None \notin Specs
    /\ None \notin Execs
    /\ None \notin [RuleNames -> Execs \cup {None}]
    /\ MaxChanges \in Nat

VARIABLES
    wanted,      \* the map of the rule reflector: name -> rule
    reported,    \* keys that wait for a Handle
    given,       \* keys the informer gave up since they were last reported
    executors,   \* the value stored for the bus: name -> executor, or None
    spec,        \* executor -> the content it runs; None: closed or not built
    proc,        \* what each goroutine of the informer is doing
    changes,     \* reports so far
    overlapped   \* history: two Handles have been running at one time

table == <<executors, spec>>
rulesVars == <<wanted, reported, given, table, proc, changes, overlapped>>

-----------------------------------------------------------------------------
EmptyMap == [n \in RuleNames |-> None]
Maps == [RuleNames -> Execs \cup {None}]

\* A goroutine between two Handles; otherwise the rule it handles, what Get
\* returned, the map it loaded and the executor it is about to store or close.
Idle == [at |-> "idle", name |-> None, rule |-> None, map |-> None, exec |-> None]

Steps == {"idle", "get", "load", "decide", "store", "close"}

\* The map a goroutine copies: a missing entry of the sync.Map is empty.
Loaded(p) == IF proc[p].map = None THEN EmptyMap ELSE proc[p].map

\* Executors no goroutine and no map refers to any more, and never opened.
Unborn == {e \in Execs : /\ spec[e] = None
                         /\ executors # None => \A n \in RuleNames : executors[n] # e
                         /\ \A p \in Procs : /\ proc[p].exec # e
                                             /\ \A n \in RuleNames : Loaded(p)[n] # e}

RulesTypeOK ==
    /\ wanted \in [RuleNames -> Specs \cup {None}]
    /\ reported \in SUBSET RuleNames
    /\ given \in SUBSET RuleNames
    /\ executors \in Maps \cup {None}
    /\ spec \in [Execs -> Specs \cup {None}]
    /\ proc \in [Procs -> [at : Steps, name : RuleNames \cup {None},
                           rule : Specs \cup {None}, map : Maps \cup {None},
                           exec : Execs \cup {None}]]
    /\ \A p \in Procs :
         /\ proc[p].at # "idle" => proc[p].name \in RuleNames
         /\ proc[p].at \in {"store", "close"} => proc[p].exec \in Execs
    /\ changes \in 0..MaxChanges
    /\ overlapped \in BOOLEAN

RulesInit ==
    /\ wanted = [n \in RuleNames |-> None]
    /\ reported = {}
    /\ given = {}
    /\ executors = None
    /\ spec = [e \in Execs |-> None]
    /\ proc = [p \in Procs |-> Idle]
    /\ changes = 0
    /\ overlapped = FALSE

-----------------------------------------------------------------------------
\* The reflector stores or deletes rules and reports their keys; a key may be
\* reported again with nothing changed.
RulesReported(ns) ==
    /\ changes < MaxChanges
    /\ \E new \in [ns -> Specs \cup {None}] :
         wanted' = [n \in RuleNames |-> IF n \in ns THEN new[n] ELSE wanted[n]]
    /\ reported' = reported \cup ns
    /\ given' = given \ ns
    /\ changes' = changes + 1
    /\ UNCHANGED <<table, proc, overlapped>>

\* The informer starts Handle(n) on a goroutine; n may wait elsewhere, too.
Begin(p, n) ==
    /\ proc[p].at = "idle"
    /\ n \in reported
    /\ reported' \in {reported, reported \ {n}}
    /\ proc' = [proc EXCEPT ![p] = [Idle EXCEPT !.at = "get", !.name = n]]
    /\ overlapped' = (overlapped \/ \E q \in Procs : proc[q].at # "idle")
    /\ UNCHANGED <<wanted, given, table, changes>>

\* reflector.Get(key): decides between updateRule and deleteRule.
Get(p) ==
    /\ proc[p].at = "get"
    /\ proc' = [proc EXCEPT ![p].at = "load", ![p].rule = wanted[proc[p].name]]
    /\ UNCHANGED <<wanted, reported, given, table, changes, overlapped>>

\* executors.Load(bus).
Load(p) ==
    /\ proc[p].at = "load"
    /\ proc' = [proc EXCEPT ![p].at = "decide", ![p].map = executors]
    /\ UNCHANGED <<wanted, reported, given, table, changes, overlapped>>

\* The executor the loaded map has for the rule.
Current(p) == Loaded(p)[proc[p].name]

\* The key failed: the informer keeps it for a retry or, after the last one,
\* gives it up.
Fail(p) ==
    /\ \/ reported' = reported \cup {proc[p].name} /\ UNCHANGED given
       \/ given' = given \cup {proc[p].name} /\ UNCHANGED reported
    /\ proc' = [proc EXCEPT ![p] = Idle]

\* updateRule, add: a new executor, to be stored.
Build(p) ==
    /\ proc[p].at = "decide"
    /\ proc[p].rule # None
    /\ Current(p) = None
    /\ proc[p].rule \notin Broken
    /\ \E e \in Unborn :
         /\ spec' = [spec EXCEPT ![e] = proc[p].rule]
         /\ proc' = [proc EXCEPT ![p].at = "store", ![p].exec = e]
    /\ UNCHANGED <<wanted, reported, given, executors, changes, overlapped>>

\* newExecutorFunc returns an error.
BuildFails(p) ==
    /\ proc[p].at = "decide"
    /\ proc[p].rule \in Broken
    /\ Current(p) = None
    /\ Fail(p)
    /\ UNCHANGED <<wanted, table, changes, overlapped>>

\* Mutation: the map stored has the new executor only.
StoreNewOnly(p) ==
    /\ proc[p].at = "store"
    /\ executors' = [EmptyMap EXCEPT ![proc[p].name] = proc[p].exec]
    /\ proc' = [proc EXCEPT ![p] = Idle]
    /\ UNCHANGED <<wanted, reported, given, spec, changes, overlapped>>

\* The copy of the loaded map with the new executor is stored.
StoreNew(p) ==
    /\ proc[p].at = "store"
    /\ executors' = [Loaded(p) EXCEPT ![proc[p].name] = proc[p].exec]
    /\ proc' = [proc EXCEPT ![p] = Idle]
    /\ UNCHANGED <<wanted, reported, given, spec, changes, overlapped>>

\* updateRule, update: Update of the executor in the loaded map.
Modify(p) ==
    /\ proc[p].at = "decide"
    /\ proc[p].rule # None
    /\ Current(p) # None
    /\ proc[p].rule \notin Broken
    /\ spec' = [spec EXCEPT ![Current(p)] = proc[p].rule]
    /\ proc' = [proc EXCEPT ![p] = Idle]
    /\ UNCHANGED <<wanted, reported, given, executors, changes, overlapped>>

\* Update returns an error; the executor goes on with what it had.
ModifyFails(p) ==
    /\ proc[p].at = "decide"
    /\ proc[p].rule \in Broken
    /\ Current(p) # None
    /\ Fail(p)
    /\ UNCHANGED <<wanted, table, changes, overlapped>>

\* Mutation: the copy without the rule is made but never stored.
StoreWithoutNothing(p) ==
    /\ proc[p].at = "decide"
    /\ proc[p].rule = None
    /\ Current(p) # None
    /\ proc' = [proc EXCEPT ![p].at = "close", ![p].exec = Current(p)]
    /\ UNCHANGED <<wanted, reported, given, table, changes, overlapped>>

\* deleteRule: store a copy of the loaded map without the rule ...
StoreWithout(p) ==
    /\ proc[p].at = "decide"
    /\ proc[p].rule = None
    /\ Current(p) # None
    /\ executors' = [Loaded(p) EXCEPT ![proc[p].name] = None]
    /\ proc' = [proc EXCEPT ![p].at = "close", ![p].exec = Current(p)]
    /\ UNCHANGED <<wanted, reported, given, spec, changes, overlapped>>

\* ... and close its executor.
CloseExecutor(p) ==
    /\ proc[p].at = "close"
    /\ spec' = [spec EXCEPT ![proc[p].exec] = None]
    /\ proc' = [proc EXCEPT ![p] = Idle]
    /\ UNCHANGED <<wanted, reported, given, executors, changes, overlapped>>

\* deleteRule of a rule the loaded map does not have.
NothingToDelete(p) ==
    /\ proc[p].at = "decide"
    /\ proc[p].rule = None
    /\ Current(p) = None
    /\ proc' = [proc EXCEPT ![p] = Idle]
    /\ UNCHANGED <<wanted, reported, given, table, changes, overlapped>>

-----------------------------------------------------------------------------
Handle(p) ==
    \/ Get(p)
    \/ Load(p)
    \/ Build(p)
    \/ BuildFails(p)
    \/ StoreNew(p)
    \/ Modify(p)
    \/ ModifyFails(p)
    \/ StoreWithout(p)
    \/ CloseExecutor(p)
    \/ NothingToDelete(p)

RulesNext ==
    \/ \E ns \in SUBSET RuleNames : ns # {} /\ RulesReported(ns)
    \/ \E p \in Procs :
         \/ \E n \in RuleNames : Begin(p, n)
         \/ Handle(p)

RulesSpec == RulesInit /\ [][RulesNext]_rulesVars

-----------------------------------------------------------------------------
(* Properties.                                                             *)

\* What events of the bus are matched against: the content each rule's
\* executor runs. GetExecutors of a missing entry is an empty map.
Running ==
    [n \in RuleNames |-> IF executors = None THEN None
                     ELSE IF executors[n] = None THEN None
                     ELSE spec[executors[n]]]

AllHandled == reported = {} /\ \A p \in Procs : proc[p].at = "idle"

\* What the handler promises when its calls do not overlap: when every
\* reported key has been handled, the bus runs exactly the reflector's rules,
\* but for those whose content failed until the informer gave up, and no built
\* executor is left open outside the map (updateRule and deleteRule, with
\* contents that fail to build in between).
SerialHandlesApply ==
    AllHandled /\ ~overlapped =>
        /\ \A n \in RuleNames \ given : Running[n] = wanted[n]
        /\ \A n \in given : wanted[n] \in Broken \cup {Running[n]}
        /\ \A e \in Execs : spec[e] # None =>
             \E n \in RuleNames : executors[n] = e

\* GetExecutors never hands an event an executor that has been closed: between
\* the Store and the Close of deleteRule, and across rules deleted and created
\* again, the stored map refers to open executors only.
NoClosedPublished ==
    ~overlapped /\ executors # None =>
        \A n \in RuleNames : executors[n] # None => spec[executors[n]] # None

\* handler.go:5-6, "Handle will handle the key. Need for thead-safe": the same
\* promise without the proviso. Two rules of one new bus handled together are
\* enough to refute it: the second Store forgets the first one's executor.
ConcurrentHandlesApply ==
    AllHandled => \A n \in RuleNames \ given : Running[n] = wanted[n]
=============================================================================
