------------------------------ MODULE Executor ------------------------------
(***************************************************************************)
(* The executor of one rule (app/internal/rule/rule.go): its pattern, its  *)
(* targets, and for each target the transformer and the dispatcher built   *)
(* from it. Goroutines of the informer handle the rule's key - a worker    *)
(* and the retrier may do so at one time - and create, Update or Close the *)
(* executor. What Update and Close change under the executor's lock is one *)
(* step; the dispatchers that are no longer used are closed after it, one  *)
(* by one.                                                                 *)
(*                                                                         *)
(* Events see the executor under its read lock: between the steps here.    *)
(* The rule lives once; a rule created anew gets another executor.         *)
(***************************************************************************)
EXTENDS Naturals, FiniteSets, Functions

CONSTANTS
    Targets,        \* ids of targets
    Contents,       \* what a target may be: type, params, retry strategy
    NoTransformer,  \* the contents no transformer can be built from
    NoDispatcher,   \* the contents no dispatcher can be built from
    Patterns,       \* filter patterns
    NoMatcher,      \* the patterns the matcher rejects
    RuleSet,        \* the rules the reflector may show
    Dispatchers,    \* identities of dispatchers
    Procs,          \* goroutines of the informer that run Handle
    None,           \* nothing
    MaxChanges      \* bound: changes of the rule

Rules == [pattern : Patterns, targets : [Targets -> Contents \cup {None}]]

Buildable == Contents \ (NoTransformer \cup NoDispatcher)

ASSUME ExecutorAssumption ==
    /\ RuleSet \subseteq Rules
    /\ None \notin Contents
    /\ None \notin Patterns
    /\ None \notin Dispatchers
    /\ None \notin RuleSet
    /\ MaxChanges \in Nat

VARIABLES
    wanted,        \* the rule in the reflector's map; None: deleted
    reported,      \* the key is reported, or failed, and not yet handled
    life,          \* the executor: not created, in the map of Rules, removed
    pattern,       \* executor.pattern and its matcher
    targets,       \* executor.targets
    transformers,  \* target -> the content its transformer was built from
    dispatchers,   \* executor.dispatchers
    content,       \* dispatcher -> what it was built from; None: not open
    proc,          \* the goroutines of the informer
    crashed,       \* Close was called on a nil dispatcher
    changes,       \* changes of the rule so far
    overlapped,    \* history: two Handles have been running at one time
    unbuilt,       \* history: targets whose build failed in an Update
    abandoned      \* history: the last Handle failed and will not be retried

execVars == <<pattern, targets, transformers, dispatchers>>
history == <<overlapped, unbuilt, abandoned>>
vars == <<wanted, reported, life, execVars, content, proc, crashed, changes, history>>

-----------------------------------------------------------------------------
Nothing == [i \in Targets |-> None]

Idle == [at |-> "idle", rule |-> None, gone |-> {}, closing |-> {}, err |-> "none"]

\* err: no error; one of the pattern or of a target; one of a target that the
\* deferred function has overwritten with nil; one of a Close.
Errors == {"none", "build", "lost", "close"}

TypeOK ==
    /\ wanted \in RuleSet \cup {None}
    /\ reported \in BOOLEAN
    /\ life \in {"none", "open", "closed"}
    /\ pattern \in Patterns \cup {None}
    /\ targets \in [Targets -> Contents \cup {None}]
    /\ transformers \in [Targets -> Contents \cup {None}]
    /\ dispatchers \in [Targets -> Dispatchers \cup {None}]
    /\ content \in [Dispatchers -> Contents \cup {None}]
    /\ proc \in [Procs -> [at : {"idle", "update", "apply", "close", "closing"},
                           rule : RuleSet \cup {None},
                           gone : SUBSET Targets,
                           closing : SUBSET (Dispatchers \cup {None}),
                           err : Errors]]
    /\ \A p \in Procs : /\ proc[p].at \in {"update", "apply"} => proc[p].rule # None
                        /\ proc[p].at # "closing" => proc[p].closing = {}
    /\ crashed \in BOOLEAN
    /\ changes \in 0..MaxChanges
    /\ overlapped \in BOOLEAN
    /\ unbuilt \in SUBSET Targets
    /\ abandoned \in BOOLEAN

Init ==
    /\ wanted \in RuleSet
    /\ reported = TRUE
    /\ life = "none"
    /\ pattern = None
    /\ targets = Nothing
    /\ transformers = Nothing
    /\ dispatchers = Nothing
    /\ content = [d \in Dispatchers |-> None]
    /\ proc = [p \in Procs |-> Idle]
    /\ crashed = FALSE
    /\ changes = 0
    /\ overlapped = FALSE
    /\ unbuilt = {}
    /\ abandoned = FALSE

-----------------------------------------------------------------------------
\* The reflector finds another rule, or none any more, and reports the key.
RuleChanges(r) ==
    /\ changes < MaxChanges
    /\ wanted \notin {None, r}
    /\ wanted' = r
    /\ reported' = TRUE
    /\ changes' = changes + 1
    /\ UNCHANGED <<life, execVars, content, proc, crashed, history>>

\* The contents of the dispatchers once those of fresh are built from rule r.
Opened(r, fresh) ==
    [d \in Dispatchers |-> IF \E i \in DOMAIN fresh : fresh[i] = d
                           THEN r.targets[CHOOSE i \in DOMAIN fresh : fresh[i] = d]
                           ELSE content[d]]

\* Dispatchers that are not open and that nobody is about to close.
Unborn == {d \in Dispatchers : content[d] = None}

\* The function of the new dispatchers of S.
Fresh(S) == {f \in [S -> Unborn] : \A i, j \in S : f[i] = f[j] => i = j}

Complete(r) ==
    /\ r.pattern \notin NoMatcher
    /\ \A i \in Targets : r.targets[i] \in Buildable \cup {None}

\* NewExecutor of a rule whose parts can all be built. One that fails returns
\* no executor and the key is retried: nothing changes, until the informer
\* gives the key up (CreateFails). What it built up to then is dropped without
\* Close, before any event has used it.
Create(p) ==
    /\ proc[p].at = "idle"
    /\ reported
    /\ wanted # None
    /\ life = "none"
    /\ Complete(wanted)
    /\ \E fresh \in Fresh({i \in Targets : wanted.targets[i] # None}) :
         /\ dispatchers' = [i \in Targets |-> IF i \in DOMAIN fresh THEN fresh[i] ELSE None]
         /\ content' = Opened(wanted, fresh)
    /\ targets' = wanted.targets
    /\ transformers' = wanted.targets
    /\ pattern' = wanted.pattern
    /\ life' = "open"
    /\ reported' = FALSE
    /\ abandoned' = FALSE
    /\ UNCHANGED <<wanted, proc, crashed, changes, overlapped, unbuilt>>

CreateFails(p) ==
    /\ proc[p].at = "idle"
    /\ reported
    /\ wanted # None
    /\ life = "none"
    /\ ~Complete(wanted)
    /\ reported' = FALSE
    /\ abandoned' = TRUE
    /\ UNCHANGED <<wanted, life, execVars, content, proc, crashed, changes, overlapped, unbuilt>>

\* Handle: reflector.Get and the executor the bus' map has for the rule.
Begin(p) ==
    /\ proc[p].at = "idle"
    /\ reported
    /\ life = "open" \/ wanted = None
    /\ reported' = FALSE
    /\ proc' = [proc EXCEPT ![p] =
         [Idle EXCEPT !.rule = wanted,
                      !.at = IF wanted # None THEN "update"
                             ELSE IF life = "open" THEN "close" ELSE "idle"]]
    /\ overlapped' = (overlapped \/ \E q \in Procs : proc[q].at # "idle")
    /\ abandoned' = FALSE
    /\ UNCHANGED <<wanted, life, execVars, content, crashed, changes, unbuilt>>

\* Update, under the read lock: the targets its rule does not have any more.
Compare(p) ==
    /\ proc[p].at = "update"
    /\ proc' = [proc EXCEPT
         ![p].at = "apply",
         ![p].gone = {i \in Targets : targets[i] # None /\ proc[p].rule.targets[i] = None}]
    /\ UNCHANGED <<wanted, reported, life, execVars, content, crashed, changes, history>>

\* Mutation: the targets found gone under the read lock are taken to be there.
GoneBefore(p) == proc[p].gone

\* The targets of Compare that are still there under the lock.
Gone(p) == {i \in proc[p].gone : targets[i] # None}

\* Mutation: a target that is already known is not compared.
ChangedIfNew(p) ==
    {i \in Targets : proc[p].rule.targets[i] # None /\ targets[i] = None}

\* The targets of the rule that differ from the recorded ones.
Changed(p) ==
    {i \in Targets : proc[p].rule.targets[i] \notin {None, targets[i]}}

Failing(p) == {i \in Changed(p) : proc[p].rule.targets[i] \notin Buildable}

\* A pattern that cannot be used: nothing else is changed.
Reject(p) ==
    /\ proc[p].at = "apply"
    /\ pattern # proc[p].rule.pattern
    /\ proc[p].rule.pattern \in NoMatcher
    /\ proc' = [proc EXCEPT ![p].at = "closing", ![p].err = "build"]
    /\ UNCHANGED <<wanted, reported, life, execVars, content, crashed, changes, history>>

\* Mutation: the dispatchers of removed targets only.
ReplacedNone(p, built) == {dispatchers[i] : i \in Gone(p)}

\* What the deferred function has to close: the dispatchers of the removed
\* targets - also of those that never got one - and of the replaced ones.
Replaced(p, built) ==
    {dispatchers[i] : i \in Gone(p)} \cup ({dispatchers[i] : i \in built} \ {None})

\* Mutation: the transformer is built only if there is none.
TransformersKept(p, built, stopped) ==
    [i \in Targets |-> IF i \in Gone(p) THEN None
                       ELSE IF i \in built /\ transformers[i] = None
                       THEN proc[p].rule.targets[i] ELSE transformers[i]]

\* A target that has no dispatcher may have got its transformer.
Transformers(p, built, stopped) ==
    [i \in Targets |->
        IF i \in Gone(p) THEN None
        ELSE IF i \in built \/ (i \in stopped /\ proc[p].rule.targets[i] \notin NoTransformer)
        THEN proc[p].rule.targets[i] ELSE transformers[i]]

\* Update, under the lock, with a pattern that is the same or can be used. The
\* targets are taken in any order; each is recorded before it is built, and
\* the first that cannot be built ends the loop.
Apply(p) ==
    /\ proc[p].at = "apply"
    /\ pattern = proc[p].rule.pattern \/ proc[p].rule.pattern \notin NoMatcher
    /\ pattern' = proc[p].rule.pattern
    /\ \E built \in SUBSET (Changed(p) \ Failing(p)), stopped \in SUBSET Failing(p) :
         /\ IF Failing(p) = {} THEN built = Changed(p) ELSE Cardinality(stopped) = 1
         /\ targets' = [i \in Targets |-> IF i \in Gone(p) THEN None
                                          ELSE IF i \in built \cup stopped
                                          THEN proc[p].rule.targets[i] ELSE targets[i]]
         /\ transformers' = Transformers(p, built, stopped)
         /\ \E fresh \in Fresh(built) :
              /\ dispatchers' = [i \in Targets |-> IF i \in Gone(p) THEN None
                                                   ELSE IF i \in built THEN fresh[i]
                                                   ELSE dispatchers[i]]
              /\ content' = Opened(proc[p].rule, fresh)
         /\ proc' = [proc EXCEPT ![p].at = "closing",
                                 ![p].closing = Replaced(p, built),
                                 ![p].err = IF stopped = {} THEN "none" ELSE "build"]
         /\ unbuilt' = unbuilt \cup stopped
    /\ UNCHANGED <<wanted, reported, life, crashed, changes, overlapped, abandoned>>

\* deleteRule takes the executor out of the bus' map; Close empties it under
\* the lock.
Empty(p) ==
    /\ proc[p].at = "close"
    /\ life' = "closed"
    /\ pattern' = None
    /\ targets' = Nothing
    /\ transformers' = Nothing
    /\ dispatchers' = Nothing
    /\ proc' = [proc EXCEPT ![p].at = "closing",
                            ![p].closing = {dispatchers[i] : i \in Targets} \ {None}]
    /\ UNCHANGED <<wanted, reported, content, crashed, changes, history>>

\* The error of the Close replaces the one Update was about to return; a
\* Close without an error replaces it with nil.
CloseDispatcher(p, d) ==
    /\ proc[p].at = "closing"
    /\ d \in proc[p].closing \ {None}
    /\ content' = [content EXCEPT ![d] = None]
    /\ \E ok \in BOOLEAN :
         proc' = [proc EXCEPT ![p].closing = @ \ {d},
                              ![p].err = IF ~ok THEN "close"
                                         ELSE IF @ = "build" THEN "lost" ELSE @]
    /\ UNCHANGED <<wanted, reported, life, execVars, crashed, changes, history>>

\* A removed target that never got a dispatcher: the call panics.
CloseNil(p) ==
    /\ proc[p].at = "closing"
    /\ None \in proc[p].closing
    /\ crashed' = TRUE
    /\ UNCHANGED <<wanted, reported, life, execVars, content, proc, changes, history>>

\* What the informer makes of the error: it reports the key again, or gives it
\* up, and of one that was lost it does not know. deleteRule only logs the
\* error of Close.
Answer(p) ==
    LET failed == proc[p].rule # None /\ proc[p].err \in {"build", "close"} IN
    \/ /\ reported' = (reported \/ failed)
       /\ abandoned' = (abandoned \/ proc[p].err = "lost")
    \/ failed /\ abandoned' = TRUE /\ UNCHANGED reported

\* Mutation: the goroutine returns before it has closed the dispatchers.
ReturnEarly(p) ==
    /\ proc[p].at = "closing"
    /\ proc' = [proc EXCEPT ![p].at = "idle"]
    /\ Answer(p)
    /\ UNCHANGED <<wanted, life, execVars, content, crashed, changes, overlapped, unbuilt>>

\* Handle returns.
Return(p) ==
    /\ proc[p].at = "closing"
    /\ proc[p].closing = {}
    /\ proc' = [proc EXCEPT ![p] = Idle]
    /\ Answer(p)
    /\ UNCHANGED <<wanted, life, execVars, content, crashed, changes, overlapped, unbuilt>>

-----------------------------------------------------------------------------
Handle(p) ==
    \/ Create(p)
    \/ CreateFails(p)
    \/ Begin(p)
    \/ Compare(p)
    \/ Reject(p)
    \/ Apply(p)
    \/ Empty(p)
    \/ \E d \in Dispatchers : CloseDispatcher(p, d)
    \/ CloseNil(p)
    \/ Return(p)

Next ==
    /\ ~crashed
    /\ \/ \E r \in RuleSet \cup {None} : RuleChanges(r)
       \/ \E p \in Procs : Handle(p)

Spec == Init /\ [][Next]_vars

-----------------------------------------------------------------------------
(* Properties.                                                             *)

\* A recorded target that can be built is transformed and dispatched by what
\* was built from that very record, and an id without a record by nothing:
\* through failed Updates, their retries, which skip what is recorded, and
\* Updates that overlap (Update records a target before it builds it).
ServedAsRecorded ==
    \A i \in Targets :
      /\ targets[i] = None => transformers[i] = None /\ dispatchers[i] = None
      /\ targets[i] \in Buildable =>
           /\ transformers[i] = targets[i]
           /\ dispatchers[i] # None
           /\ content[dispatchers[i]] = targets[i]

\* What Dispatch may hand an event to.
Served(d) == \E i \in Targets : dispatchers[i] = d

\* Every open dispatcher is in exactly one place, the executor's map or the
\* list of one goroutine that will close it: none is forgotten, none is closed
\* twice, and an event is never given one that is closed or about to be.
DispatchersOwned ==
    /\ \A d \in Dispatchers :
         content[d] # None <=> Served(d) \/ \E p \in Procs : d \in proc[p].closing
    /\ \A i, j \in Targets : i # j /\ dispatchers[i] # None => dispatchers[i] # dispatchers[j]
    /\ \A p \in Procs, d \in Dispatchers : d \in proc[p].closing => ~Served(d)
    /\ \A p, q \in Procs : p # q => proc[p].closing \cap proc[q].closing \subseteq {None}

\* The deferred function meets a nil dispatcher only if the build of a target
\* has failed: removals computed from the targets of another moment, by Updates
\* that overlap each other and Close, never produce one.
CrashNeedsFailedBuild == crashed => unbuilt # {}

\* What a sequence of Handles promises once the key is settled, whatever
\* failed, was lost or was given up before: the executor has the pattern and
\* exactly the targets of the rule - unless the last Handle failed and was
\* given up, or its error was overwritten by the Close of a replaced
\* dispatcher - and of a deleted rule nothing is left open.
SettledServes ==
    ~overlapped /\ ~abandoned /\ ~crashed /\ ~reported
    /\ (\A p \in Procs : proc[p].at = "idle") =>
        IF wanted = None
        THEN \A d \in Dispatchers : content[d] = None
        ELSE pattern = wanted.pattern /\ targets = wanted.targets
=============================================================================
