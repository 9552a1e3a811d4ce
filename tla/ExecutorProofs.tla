---------------------------- MODULE ExecutorProofs --------------------------
(***************************************************************************)
(* What the executor promises for any number of targets, goroutines,       *)
(* contents and rules, whichever of them fail to build: recorded targets   *)
(* are served by what was built from the record, every open dispatcher has *)
(* one owner, and a nil dispatcher is closed only after a failed build.    *)
(* And of Handles that do not overlap: a settled key is served as wanted.  *)
(*                                                                         *)
(* The three hold each other up. A dispatcher that Apply takes out of the  *)
(* map is nobody else's because of DispatchersOwned; that it is one at all *)
(* follows from ServedAsRecorded unless the record cannot be built, and    *)
(* then FailedBuilds knows of the failure. NotYet says that NewExecutor    *)
(* begins with nothing.                                                    *)
(***************************************************************************)
EXTENDS Executor, FiniteSetTheorems, TLAPS

NotYet ==
    life = "none" => /\ targets = Nothing
                     /\ transformers = Nothing
                     /\ dispatchers = Nothing
                     /\ \A p \in Procs : proc[p].at = "idle"

FailedBuilds ==
    /\ \A i \in Targets : targets[i] \notin Buildable \cup {None} => i \in unbuilt
    /\ \A p \in Procs : None \in proc[p].closing => unbuilt # {}
    /\ CrashNeedsFailedBuild

\* What Compare found gone is not in the rule: nothing is removed and built.
GoneFromRule ==
    \A p \in Procs : proc[p].at = "apply" =>
        \A i \in proc[p].gone : proc[p].rule.targets[i] = None

IInv ==
    /\ TypeOK
    /\ ServedAsRecorded
    /\ DispatchersOwned
    /\ NotYet
    /\ FailedBuilds
    /\ GoneFromRule

\* The goroutines' part of TypeOK.
ProcType == [at : {"idle", "update", "apply", "close", "closing"},
             rule : RuleSet \cup {None},
             gone : SUBSET Targets,
             closing : SUBSET (Dispatchers \cup {None}),
             err : Errors]

USE ExecutorAssumption DEF ExecutorAssumption

-----------------------------------------------------------------------------
\* What building new dispatchers does to the contents of all of them.
LEMMA OpenedFacts ==
    ASSUME NEW r \in Rules, NEW S \in SUBSET Targets, NEW fresh \in Fresh(S),
           content \in [Dispatchers -> Contents \cup {None}],
           \A i \in S : r.targets[i] \in Contents
    PROVE  /\ Opened(r, fresh) \in [Dispatchers -> Contents \cup {None}]
           /\ \A i \in S : /\ fresh[i] \in Dispatchers
                           /\ content[fresh[i]] = None
                           /\ Opened(r, fresh)[fresh[i]] = r.targets[i]
           /\ \A i, j \in S : fresh[i] = fresh[j] => i = j
           /\ \A d \in Dispatchers :
                (\A i \in S : fresh[i] # d) => Opened(r, fresh)[d] = content[d]
<1>1. /\ DOMAIN fresh = S
      /\ \A i \in S : fresh[i] \in Dispatchers /\ content[fresh[i]] = None
      /\ \A i, j \in S : fresh[i] = fresh[j] => i = j
  BY DEF Fresh, Unborn
<1>2. ASSUME NEW d \in Dispatchers, NEW i \in S, fresh[i] = d
      PROVE  Opened(r, fresh)[d] = r.targets[i]
  <2>1. PICK j \in S : /\ j = (CHOOSE k \in DOMAIN fresh : fresh[k] = d)
                       /\ fresh[j] = d
    BY <1>1, <1>2
  <2>2. j = i
    BY <1>1, <1>2, <2>1
  <2>3. QED
    BY <1>1, <1>2, <2>1, <2>2 DEF Opened
<1>3. ASSUME NEW d \in Dispatchers, \A i \in S : fresh[i] # d
      PROVE  Opened(r, fresh)[d] = content[d]
  BY <1>1, <1>3 DEF Opened
<1>4. \A d \in Dispatchers : Opened(r, fresh)[d] \in Contents \cup {None}
  BY <1>1, <1>2, <1>3
<1>5. Opened(r, fresh) \in [Dispatchers -> Contents \cup {None}]
  BY <1>4 DEF Opened
<1>6. QED
  BY <1>1, <1>2, <1>3, <1>5

LEMMA IInvInit == Init => IInv
<1> SUFFICES ASSUME Init PROVE IInv
  OBVIOUS
<1>1. TypeOK
  <2>1. Idle \in ProcType
    BY DEF Idle, ProcType, Errors
  <2>2. proc \in [Procs -> ProcType] /\ \A p \in Procs : proc[p] = Idle
    BY <2>1 DEF Init
  <2>3. /\ \A p \in Procs : /\ proc[p].at \in {"update", "apply"} => proc[p].rule # None
                            /\ proc[p].at # "closing" => proc[p].closing = {}
        /\ reported \in BOOLEAN /\ crashed \in BOOLEAN
        /\ overlapped \in BOOLEAN /\ abandoned \in BOOLEAN
    BY <2>2 DEF Init, Idle
  <2>4. QED
    BY <2>2, <2>3 DEF Init, TypeOK, Nothing, ProcType
<1>2. ServedAsRecorded /\ DispatchersOwned
  BY DEF Init, ServedAsRecorded, DispatchersOwned, Served, Nothing, Idle, Buildable
<1>3. NotYet /\ FailedBuilds /\ GoneFromRule
  BY DEF Init, NotYet, FailedBuilds, GoneFromRule, CrashNeedsFailedBuild, Nothing, Idle,
         Buildable
<1>4. QED
  BY <1>1, <1>2, <1>3 DEF IInv

\* Steps that leave the executor, the dispatchers and what is to be closed.
LEMMA QuietStep ==
    ASSUME IInv, UNCHANGED <<execVars, content, crashed, unbuilt>>, TypeOK',
           \A p \in Procs : proc'[p].closing = proc[p].closing,
           life' = life, GoneFromRule',
           life = "none" => \A p \in Procs : proc'[p].at = "idle"
    PROVE  IInv'
<1>1. ServedAsRecorded'
  BY DEF IInv, ServedAsRecorded, execVars
<1>2. DispatchersOwned'
  BY DEF IInv, DispatchersOwned, Served, execVars
<1>3. NotYet' /\ FailedBuilds'
  BY DEF IInv, NotYet, FailedBuilds, CrashNeedsFailedBuild, execVars, Nothing
<1>4. QED
  BY <1>1, <1>2, <1>3 DEF IInv

LEMMA CreateStep ==
    ASSUME IInv, NEW p \in Procs, Create(p)
    PROVE  IInv'
<1> DEFINE S == {i \in Targets : wanted.targets[i] # None}
<1>1. PICK fresh \in Fresh(S) :
        /\ dispatchers' = [i \in Targets |-> IF i \in DOMAIN fresh THEN fresh[i] ELSE None]
        /\ content' = Opened(wanted, fresh)
  BY DEF Create
<1>2. /\ wanted \in Rules
      /\ \A i \in S : wanted.targets[i] \in Buildable
      /\ \A i \in Targets : wanted.targets[i] \in Contents \cup {None}
      /\ DOMAIN fresh = S
  BY DEF Create, Complete, IInv, TypeOK, Rules, Buildable, Fresh
<1>3. /\ content' \in [Dispatchers -> Contents \cup {None}]
      /\ \A i \in S : fresh[i] \in Dispatchers /\ content'[fresh[i]] = wanted.targets[i]
      /\ \A i, j \in S : fresh[i] = fresh[j] => i = j
      /\ \A d \in Dispatchers : (\A i \in S : fresh[i] # d) => content'[d] = content[d]
  BY <1>1, <1>2, OpenedFacts DEF IInv, TypeOK, Buildable
<1>4. \A i \in Targets : dispatchers'[i] = IF i \in S THEN fresh[i] ELSE None
  BY <1>1, <1>2
<1>5. TypeOK'
  <2>1. dispatchers' \in [Targets -> Dispatchers \cup {None}]
    BY <1>1, <1>2, <1>3
  <2>2. /\ targets' \in [Targets -> Contents \cup {None}]
        /\ pattern' \in Patterns
    BY <1>2 DEF Create, Rules
  <2>3. transformers' \in [Targets -> Contents \cup {None}] /\ life' \in {"none", "open", "closed"}
    BY <2>2 DEF Create
  <2>4. /\ UNCHANGED <<wanted, proc, crashed, changes, overlapped, unbuilt>>
        /\ reported' \in BOOLEAN /\ abandoned' \in BOOLEAN
    BY DEF Create
  <2>5. QED
    BY <1>3, <2>1, <2>2, <2>3, <2>4 DEF IInv, TypeOK
<1>6. ServedAsRecorded'
  BY <1>2, <1>3, <1>4 DEF Create, ServedAsRecorded, Buildable
<1>7. /\ \A q \in Procs : proc'[q].closing = {}
      /\ \A d \in Dispatchers : content[d] = None
  <2>1. \A q \in Procs : proc[q].closing = {}
    BY DEF Create, IInv, NotYet, TypeOK
  <2>2. \A d \in Dispatchers : ~Served(d)
    BY DEF Create, IInv, NotYet, Nothing, Served
  <2>3. QED
    BY <2>1, <2>2 DEF Create, IInv, DispatchersOwned
<1>8. DispatchersOwned'
  <2>1. ASSUME NEW d \in Dispatchers PROVE content'[d] # None <=> Served(d)'
    BY <1>2, <1>3, <1>4, <1>7 DEF Served, Buildable
  <2>2. QED
    BY <1>3, <1>4, <1>7, <2>1 DEF DispatchersOwned
<1>9. NotYet'
  BY DEF Create, NotYet
<1>10. FailedBuilds'
  BY <1>2, <1>7 DEF Create, IInv, FailedBuilds, CrashNeedsFailedBuild, history
<1>11. GoneFromRule'
  BY DEF Create, IInv, GoneFromRule
<1>12. QED
  BY <1>5, <1>6, <1>8, <1>9, <1>10, <1>11 DEF IInv

LEMMA ApplyStep ==
    ASSUME IInv, NEW p \in Procs, Apply(p)
    PROVE  IInv'
<1> DEFINE r == proc[p].rule
<1>1. PICK built \in SUBSET (Changed(p) \ Failing(p)), stopped \in SUBSET Failing(p) :
        /\ targets' = [i \in Targets |-> IF i \in Gone(p) THEN None
                                         ELSE IF i \in built \cup stopped
                                         THEN proc[p].rule.targets[i] ELSE targets[i]]
        /\ transformers' = Transformers(p, built, stopped)
        /\ \E fresh \in Fresh(built) :
             /\ dispatchers' = [i \in Targets |-> IF i \in Gone(p) THEN None
                                                  ELSE IF i \in built THEN fresh[i]
                                                  ELSE dispatchers[i]]
             /\ content' = Opened(proc[p].rule, fresh)
        /\ proc' = [proc EXCEPT ![p].at = "closing",
                                ![p].closing = Replaced(p, built),
                                ![p].err = IF stopped = {} THEN "none" ELSE "build"]
        /\ unbuilt' = unbuilt \cup stopped
  BY DEF Apply
<1>2. PICK fresh \in Fresh(built) :
        /\ dispatchers' = [i \in Targets |-> IF i \in Gone(p) THEN None
                                             ELSE IF i \in built THEN fresh[i]
                                             ELSE dispatchers[i]]
        /\ content' = Opened(proc[p].rule, fresh)
  BY <1>1
<1>3. /\ r \in RuleSet /\ r \in Rules
      /\ \A i \in Targets : r.targets[i] \in Contents \cup {None}
      /\ built \in SUBSET Targets /\ stopped \in SUBSET Targets
      /\ \A i \in built : r.targets[i] \in Buildable
      /\ \A i \in stopped : r.targets[i] \in Contents \ Buildable
      /\ Gone(p) \in SUBSET Targets
      /\ \A i \in Gone(p) : targets[i] # None
      /\ built \cap stopped = {}
  BY DEF Apply, IInv, TypeOK, Rules, Changed, Failing, Gone, Buildable
<1>4. /\ content' \in [Dispatchers -> Contents \cup {None}]
      /\ \A i \in built : /\ fresh[i] \in Dispatchers
                          /\ content[fresh[i]] = None
                          /\ content'[fresh[i]] = r.targets[i]
      /\ \A i, j \in built : fresh[i] = fresh[j] => i = j
      /\ \A d \in Dispatchers : (\A i \in built : fresh[i] # d) => content'[d] = content[d]
  BY <1>2, <1>3, OpenedFacts DEF IInv, TypeOK, Buildable
<1>5. /\ proc[p].closing = {}
      /\ proc'[p].closing = Replaced(p, built)
      /\ \A q \in Procs : q # p => proc'[q] = proc[q]
  BY <1>1 DEF Apply, IInv, TypeOK
<1>6. \A i \in Targets :
        /\ targets'[i] = IF i \in Gone(p) THEN None
                         ELSE IF i \in built \cup stopped THEN r.targets[i] ELSE targets[i]
        /\ dispatchers'[i] = IF i \in Gone(p) THEN None
                             ELSE IF i \in built THEN fresh[i] ELSE dispatchers[i]
        /\ transformers'[i] = Transformers(p, built, stopped)[i]
  BY <1>1, <1>2
<1>7. TypeOK'
  <2>1. /\ targets' \in [Targets -> Contents \cup {None}]
        /\ transformers' \in [Targets -> Contents \cup {None}]
    BY <1>1, <1>3 DEF IInv, TypeOK, Transformers
  <2>2. dispatchers' \in [Targets -> Dispatchers \cup {None}]
    BY <1>2, <1>4 DEF IInv, TypeOK
  <2>3. Replaced(p, built) \in SUBSET (Dispatchers \cup {None})
    BY <1>3 DEF IInv, TypeOK, Replaced
  <2>4. /\ pattern' \in Patterns
        /\ unbuilt' \in SUBSET Targets
    BY <1>1, <1>3 DEF Apply, IInv, TypeOK, Rules
  <2>5. /\ proc' \in [Procs -> ProcType]
        /\ \A q \in Procs : /\ proc'[q].at \in {"update", "apply"} => proc'[q].rule # None
                            /\ proc'[q].at # "closing" => proc'[q].closing = {}
    <3>1. proc \in [Procs -> ProcType]
      BY DEF IInv, TypeOK, ProcType
    <3>2. \A q \in Procs : proc'[q] \in ProcType
      <4>1. proc'[p] = [proc[p] EXCEPT !.at = "closing", !.closing = Replaced(p, built),
                                       !.err = IF stopped = {} THEN "none" ELSE "build"]
        BY <1>1, <3>1
      <4>2. proc'[p] \in ProcType
        BY <2>3, <3>1, <4>1 DEF ProcType, Errors
      <4>3. QED
        BY <1>5, <3>1, <4>2
    <3>3. proc'[p].at = "closing"
      BY <1>1, <3>1
    <3>4. QED
      BY <1>1, <1>5, <3>1, <3>2, <3>3 DEF IInv, TypeOK
  <2>6. QED
    BY <1>4, <2>1, <2>2, <2>4, <2>5 DEF Apply, IInv, TypeOK, ProcType
<1>8. ServedAsRecorded'
  <2> SUFFICES ASSUME NEW i \in Targets
               PROVE  /\ targets'[i] = None => transformers'[i] = None /\ dispatchers'[i] = None
                      /\ targets'[i] \in Buildable =>
                           /\ transformers'[i] = targets'[i]
                           /\ dispatchers'[i] # None
                           /\ content'[dispatchers'[i]] = targets'[i]
    BY DEF ServedAsRecorded
  <2>1. CASE i \in Gone(p)
    BY <1>6, <2>1 DEF Transformers, Buildable
  <2>2. CASE i \notin Gone(p) /\ i \in built
    BY <1>3, <1>4, <1>6, <2>2 DEF Transformers, Buildable
  <2>3. CASE i \notin Gone(p) /\ i \in stopped
    BY <1>3, <1>6, <2>3
  <2>4. CASE i \notin Gone(p) /\ i \notin built /\ i \notin stopped
    <3>1. /\ targets'[i] = targets[i]
          /\ dispatchers'[i] = dispatchers[i]
          /\ transformers'[i] = transformers[i]
      BY <1>6, <2>4 DEF Transformers
    <3>2. targets[i] \in Buildable => \A j \in built : fresh[j] # dispatchers[i]
      BY <1>4 DEF IInv, ServedAsRecorded, Buildable
    <3>3. QED
      BY <1>4, <3>1, <3>2 DEF IInv, TypeOK, ServedAsRecorded
  <2>5. QED
    BY <2>1, <2>2, <2>3, <2>4
<1>9. DispatchersOwned'
  <2>1. \A j \in built : /\ ~Served(fresh[j])
                         /\ \A q \in Procs : fresh[j] \notin proc[q].closing
    BY <1>4 DEF IInv, DispatchersOwned
  <2>2. \A d \in Dispatchers :
          d \in Replaced(p, built) <=> \E i \in Gone(p) \cup built : dispatchers[i] = d
    BY DEF Replaced
  <2>3. ASSUME NEW d \in Dispatchers
        PROVE  Served(d)' <=> \/ \E j \in built \ Gone(p) : fresh[j] = d
                              \/ \E i \in Targets \ (Gone(p) \cup built) : dispatchers[i] = d
    BY <1>3, <1>6 DEF Served
  <2>4. built \cap Gone(p) = {}
    BY DEF Changed, Gone, Apply, IInv, GoneFromRule
  <2>5. ASSUME NEW d \in Dispatchers
        PROVE  content'[d] # None <=>
                 \/ Served(d)'
                 \/ \E q \in Procs : d \in proc'[q].closing
    <3>1. CASE \E j \in built : fresh[j] = d
      BY <1>3, <1>4, <2>3, <2>4, <3>1 DEF Buildable
    <3>2. CASE \A j \in built : fresh[j] # d
      <4>1. content'[d] = content[d]
        BY <1>4, <3>2
      <4>2. Served(d) <=> Served(d)' \/ d \in Replaced(p, built)
        BY <1>3, <2>2, <2>3, <3>2 DEF Served
      <4>3. (\E q \in Procs : d \in proc'[q].closing) <=>
              \/ \E q \in Procs : d \in proc[q].closing
              \/ d \in Replaced(p, built)
        BY <1>5
      <4>4. QED
        BY <4>1, <4>2, <4>3 DEF IInv, DispatchersOwned
    <3>3. QED
      BY <3>1, <3>2
  <2>6. ASSUME NEW i \in Targets, NEW j \in Targets, i # j, dispatchers'[i] # None
        PROVE  dispatchers'[i] # dispatchers'[j]
    BY <1>4, <1>6, <2>1, <2>6 DEF Served, IInv, DispatchersOwned
  <2>7. ASSUME NEW q \in Procs, NEW d \in Dispatchers, d \in proc'[q].closing
        PROVE  ~Served(d)'
    <3>1. CASE q # p
      BY <1>5, <2>1, <2>3, <2>7, <3>1 DEF Served, IInv, DispatchersOwned
    <3>2. CASE q = p
      <4>1. PICK i \in Gone(p) \cup built : dispatchers[i] = d
        BY <1>5, <2>2, <2>7, <3>2
      <4>2. \A j \in Targets \ (Gone(p) \cup built) : dispatchers[j] # d
        BY <1>3, <4>1 DEF IInv, DispatchersOwned
      <4>3. \A j \in built : fresh[j] # d
        BY <1>3, <2>1, <4>1 DEF Served
      <4>4. QED
        BY <2>3, <4>2, <4>3
    <3>3. QED
      BY <3>1, <3>2
  <2>8. ASSUME NEW q1 \in Procs, NEW q2 \in Procs, q1 # q2
        PROVE  proc'[q1].closing \cap proc'[q2].closing \subseteq {None}
    <3>1. \A q \in Procs \ {p} : proc[q].closing \cap Replaced(p, built) \subseteq {None}
      BY <1>3, <2>2 DEF Served, IInv, DispatchersOwned, TypeOK
    <3>2. QED
      BY <1>5, <2>8, <3>1 DEF IInv, DispatchersOwned
  <2>9. QED
    BY <2>5, <2>6, <2>7, <2>8 DEF DispatchersOwned
<1>10. NotYet'
  BY DEF Apply, IInv, NotYet
<1>11. FailedBuilds'
  <2>1. \A i \in Targets : targets'[i] \notin Buildable \cup {None} => i \in unbuilt'
    BY <1>1, <1>3, <1>6 DEF IInv, FailedBuilds
  <2>2. None \in Replaced(p, built) => unbuilt # {}
    BY <1>3 DEF Replaced, IInv, ServedAsRecorded, FailedBuilds
  <2>3. QED
    BY <1>1, <1>5, <2>1, <2>2, ZenonT(40) DEF Apply, IInv, FailedBuilds, CrashNeedsFailedBuild
<1>12. GoneFromRule'
  BY <1>1 DEF IInv, TypeOK, GoneFromRule
<1>13. QED
  BY <1>7, <1>8, <1>9, <1>10, <1>11, <1>12 DEF IInv

LEMMA EmptyStep ==
    ASSUME IInv, NEW p \in Procs, Empty(p)
    PROVE  IInv'
<1> DEFINE C == {dispatchers[i] : i \in Targets} \ {None}
<1>0. proc \in [Procs -> ProcType] /\ C \in SUBSET (Dispatchers \cup {None})
  BY DEF IInv, TypeOK, ProcType
<1>a. /\ proc'[p] = [proc[p] EXCEPT !.at = "closing", !.closing = C]
      /\ proc' = [proc EXCEPT ![p] = proc'[p]]
  BY <1>0 DEF Empty
<1>b. /\ proc'[p] \in ProcType /\ proc'[p].at = "closing" /\ proc'[p].closing = C
      /\ proc'[p].gone = proc[p].gone /\ proc'[p].rule = proc[p].rule
  <2>1. proc[p] \in ProcType
    BY <1>0
  <2> HIDE DEF C
  <2>2. QED
    BY <1>0, <1>a, <2>1 DEF ProcType
<1>1. /\ proc[p].closing = {}
      /\ \A q \in Procs : q # p => proc'[q] = proc[q]
  BY <1>0, <1>a DEF Empty, IInv, TypeOK
<1>2. proc'[p].at = "closing" /\ proc'[p].closing = {dispatchers[i] : i \in Targets} \ {None}
  BY <1>b
<1>3. TypeOK'
  <2> HIDE DEF C
  <2>3. proc' \in [Procs -> ProcType]
    BY <1>0, <1>a, <1>b
  <2>4. \A q \in Procs : /\ proc'[q].at \in {"update", "apply"} => proc'[q].rule # None
                         /\ proc'[q].at # "closing" => proc'[q].closing = {}
    BY <1>1, <1>b DEF IInv, TypeOK
  <2>5. QED
    BY <2>3, <2>4 DEF Empty, IInv, TypeOK, ProcType, Nothing, history
<1>4. \A i \in Targets : targets'[i] = None /\ transformers'[i] = None /\ dispatchers'[i] = None
  BY DEF Empty, Nothing
<1>5. ServedAsRecorded'
  BY <1>4 DEF ServedAsRecorded, Buildable
<1>6. \A d \in Dispatchers : ~Served(d)' /\ (Served(d) <=> d \in proc'[p].closing)
  BY <1>2, <1>4 DEF Served
<1>7. DispatchersOwned'
  <2>1. \A d \in Dispatchers :
          content'[d] # None <=> Served(d)' \/ \E q \in Procs : d \in proc'[q].closing
    <3>1. content' = content
      BY DEF Empty
    <3>2. ASSUME NEW d \in Dispatchers
          PROVE  (\E q \in Procs : d \in proc'[q].closing) <=>
                   d \in proc'[p].closing \/ \E q \in Procs : d \in proc[q].closing
      BY <1>1
    <3>3. QED
      BY <1>6, <3>1, <3>2 DEF IInv, DispatchersOwned
  <2>2. ASSUME NEW q1 \in Procs, NEW q2 \in Procs, q1 # q2
        PROVE  proc'[q1].closing \cap proc'[q2].closing \subseteq {None}
    <3>1. \A q \in Procs \ {p} : proc[q].closing \cap proc'[p].closing \subseteq {None}
      BY <1>2, <1>6 DEF IInv, TypeOK, DispatchersOwned
    <3>2. QED
      BY <1>1, <2>2, <3>1 DEF IInv, DispatchersOwned
  <2>3. QED
    BY <1>4, <1>6, <2>1, <2>2 DEF DispatchersOwned
<1>8. NotYet' /\ GoneFromRule'
  BY <1>1, <1>2 DEF Empty, IInv, NotYet, GoneFromRule
<1>9. FailedBuilds'
  BY <1>1, <1>2, <1>4 DEF Empty, IInv, FailedBuilds, CrashNeedsFailedBuild, history
<1>10. QED
  BY <1>3, <1>5, <1>7, <1>8, <1>9 DEF IInv

LEMMA CloseDispatcherStep ==
    ASSUME IInv, NEW p \in Procs, NEW d \in Dispatchers, CloseDispatcher(p, d)
    PROVE  IInv'
<1>1. PICK e \in Errors :
        proc' = [proc EXCEPT ![p].closing = @ \ {d}, ![p].err = e]
  <2>1. PICK ok \in BOOLEAN :
          proc' = [proc EXCEPT ![p].closing = @ \ {d},
                               ![p].err = IF ~ok THEN "close"
                                          ELSE IF @ = "build" THEN "lost" ELSE @]
    BY DEF CloseDispatcher
  <2>2. proc[p].err \in Errors /\ proc \in [Procs -> ProcType]
    BY DEF IInv, TypeOK, ProcType
  <2> DEFINE e == IF ~ok THEN "close" ELSE IF proc[p].err = "build" THEN "lost" ELSE proc[p].err
  <2>3. e \in Errors
    BY <2>2 DEF Errors
  <2>4. proc' = [proc EXCEPT ![p].closing = @ \ {d}, ![p].err = e]
    BY <2>1, <2>2
  <2>5. QED
    BY <2>3, <2>4
<1>2. /\ proc \in [Procs -> ProcType]
      /\ proc[p].at = "closing"
      /\ d \in proc[p].closing
      /\ d # None
  BY DEF CloseDispatcher, IInv, TypeOK, ProcType
<1>a. proc'[p] = [proc[p] EXCEPT !.closing = proc[p].closing \ {d}, !.err = e]
  BY <1>1, <1>2
<1>b. proc[p].closing \ {d} \in SUBSET (Dispatchers \cup {None}) /\ proc[p] \in ProcType
  BY <1>2 DEF IInv, TypeOK
<1>3. \A q \in Procs : q # p => proc'[q] = proc[q]
  BY <1>1, <1>2
<1>4. /\ proc'[p] \in ProcType
      /\ proc'[p].closing = proc[p].closing \ {d}
      /\ proc'[p].at = proc[p].at /\ proc'[p].gone = proc[p].gone /\ proc'[p].rule = proc[p].rule
  BY <1>a, <1>b DEF ProcType
<1>5. content' = [content EXCEPT ![d] = None]
  BY DEF CloseDispatcher
<1>6. TypeOK'
  <2>2. proc' \in [Procs -> ProcType]
    BY <1>1, <1>2, <1>3, <1>4
  <2>3. \A q \in Procs : /\ proc'[q].at \in {"update", "apply"} => proc'[q].rule # None
                         /\ proc'[q].at # "closing" => proc'[q].closing = {}
    BY <1>2, <1>3, <1>4 DEF IInv, TypeOK
  <2>4. content' \in [Dispatchers -> Contents \cup {None}]
    BY <1>5 DEF IInv, TypeOK
  <2>5. QED
    BY <2>2, <2>3, <2>4 DEF CloseDispatcher, IInv, TypeOK, ProcType, execVars, history
<1>7. UNCHANGED <<targets, transformers, dispatchers, pattern, life, unbuilt, crashed>>
  BY DEF CloseDispatcher, execVars, history
<1>8. ~Served(d) /\ \A x \in Dispatchers : Served(x)' <=> Served(x)
  BY <1>2, <1>7 DEF IInv, DispatchersOwned, Served
<1>9. ServedAsRecorded'
  BY <1>5, <1>7, <1>8 DEF IInv, TypeOK, ServedAsRecorded, Served
<1>10. DispatchersOwned'
  <2>1. \A x \in Dispatchers :
          content'[x] # None <=> Served(x)' \/ \E q \in Procs : x \in proc'[q].closing
    <3>1. \A q \in Procs : d \notin proc'[q].closing
      BY <1>2, <1>3, <1>4 DEF IInv, DispatchersOwned
    <3>2. QED
      BY <1>3, <1>4, <1>5, <1>8, <3>1 DEF IInv, TypeOK, DispatchersOwned
  <2>2. QED
    BY <1>3, <1>4, <1>7, <1>8, <2>1 DEF IInv, DispatchersOwned
<1>11. NotYet' /\ GoneFromRule'
  BY <1>2, <1>3, <1>4, <1>7 DEF IInv, NotYet, GoneFromRule
<1>12. FailedBuilds'
  BY <1>3, <1>4, <1>7 DEF IInv, FailedBuilds, CrashNeedsFailedBuild
<1>13. QED
  BY <1>6, <1>9, <1>10, <1>11, <1>12 DEF IInv

\* Begin, Compare, Reject and Return move one goroutine.
LEMMA MoveStep ==
    ASSUME IInv, NEW p \in Procs, Begin(p) \/ Compare(p) \/ Reject(p) \/ Return(p)
    PROVE  IInv'
<1>0. proc \in [Procs -> ProcType]
  BY DEF IInv, TypeOK, ProcType
<1>1. UNCHANGED <<wanted, life, execVars, content, crashed, changes, unbuilt>>
  BY DEF Begin, Compare, Reject, Return, Answer, history
<1>2. /\ proc' \in [Procs -> ProcType]
      /\ \A q \in Procs : q # p => proc'[q] = proc[q]
      /\ proc'[p].closing = {} /\ proc[p].closing = {}
      /\ proc'[p].at \in {"update", "apply"} => proc'[p].rule # None
      /\ life = "none" => proc'[p].at = "idle"
      /\ proc'[p].at = "apply" => \A i \in proc'[p].gone : proc'[p].rule.targets[i] = None
  <2>1. CASE Begin(p)
    <3> DEFINE at == IF wanted # None THEN "update" ELSE IF life = "open" THEN "close" ELSE "idle"
    <3>1. proc' = [proc EXCEPT ![p] = [Idle EXCEPT !.rule = wanted, !.at = at]]
      BY <2>1 DEF Begin
    <3>2. /\ proc'[p] = [at |-> at, rule |-> wanted, gone |-> {}, closing |-> {}, err |-> "none"]
          /\ \A q \in Procs : q # p => proc'[q] = proc[q]
      BY <1>0, <3>1 DEF Idle
    <3>3. proc'[p] \in ProcType
      BY <3>2 DEF ProcType, Errors, IInv, TypeOK
    <3>4. proc' \in [Procs -> ProcType]
      BY <1>0, <3>1, <3>2, <3>3
    <3>5. proc[p].closing = {}
      BY <2>1 DEF Begin, IInv, TypeOK
    <3>6. proc'[p].closing = {} /\ proc'[p].at = at /\ proc'[p].rule = wanted
      BY <3>2
    <3>7. /\ at \in {"update", "apply"} => wanted # None
          /\ at # "apply"
          /\ life = "none" => at = "idle"
      BY <2>1 DEF Begin
    <3>8. QED
      BY <3>2, <3>4, <3>5, <3>6, <3>7
  <2>2. CASE Compare(p)
    <3> DEFINE g == {i \in Targets : targets[i] # None /\ proc[p].rule.targets[i] = None}
    <3>1. proc' = [proc EXCEPT ![p].at = "apply", ![p].gone = g]
      BY <2>2 DEF Compare
    <3>2. /\ proc'[p] = [proc[p] EXCEPT !.at = "apply", !.gone = g]
          /\ \A q \in Procs : q # p => proc'[q] = proc[q]
      BY <1>0, <3>1
    <3>3. /\ proc'[p] \in ProcType /\ proc'[p].gone = g /\ proc'[p].rule = proc[p].rule
          /\ proc'[p].closing = proc[p].closing /\ proc'[p].at = "apply"
      <4>1. g \in SUBSET Targets /\ proc[p] \in ProcType
        BY <1>0
      <4> HIDE DEF g
      <4>2. QED
        BY <3>2, <4>1 DEF ProcType
    <3>4. proc' \in [Procs -> ProcType]
      BY <1>0, <3>1, <3>2, <3>3
    <3>5. proc[p].closing = {} /\ proc[p].rule # None /\ life # "none"
      BY <2>2 DEF Compare, IInv, TypeOK, NotYet
    <3>6. QED
      BY <3>2, <3>3, <3>4, <3>5
  <2>3. CASE Reject(p)
    <3>1. proc' = [proc EXCEPT ![p].at = "closing", ![p].err = "build"]
      BY <2>3 DEF Reject
    <3>2. /\ proc'[p] = [proc[p] EXCEPT !.at = "closing", !.err = "build"]
          /\ \A q \in Procs : q # p => proc'[q] = proc[q]
      BY <1>0, <3>1
    <3>3. /\ proc'[p] \in ProcType
          /\ proc'[p].closing = proc[p].closing /\ proc'[p].at = "closing"
      <4>1. "build" \in Errors /\ proc[p] \in ProcType
        BY <1>0 DEF Errors
      <4>2. QED
        BY <3>2, <4>1 DEF ProcType
    <3>4. proc' \in [Procs -> ProcType]
      BY <1>0, <3>1, <3>2, <3>3
    <3>5. proc[p].closing = {} /\ life # "none"
      BY <2>3 DEF Reject, IInv, TypeOK, NotYet
    <3>6. QED
      BY <3>2, <3>3, <3>4, <3>5
  <2>4. CASE Return(p)
    <3>1. /\ proc'[p] = Idle
          /\ \A q \in Procs : q # p => proc'[q] = proc[q]
          /\ proc[p].closing = {}
          /\ proc' = [proc EXCEPT ![p] = Idle]
      BY <1>0, <2>4 DEF Return
    <3>2. Idle \in ProcType /\ Idle.at = "idle" /\ Idle.closing = {}
      BY DEF Idle, ProcType, Errors
    <3>3. QED
      BY <1>0, <3>1, <3>2
  <2>5. QED
    BY <2>1, <2>2, <2>3, <2>4
<1>3. /\ reported' \in BOOLEAN
      /\ overlapped' \in BOOLEAN
      /\ abandoned' \in BOOLEAN
  BY DEF Begin, Compare, Reject, Return, Answer, IInv, TypeOK, history
<1>4. \A q \in Procs : proc'[q].closing = proc[q].closing
  BY <1>2
<1>5. TypeOK'
  <2>1. \A q \in Procs : /\ proc'[q].at \in {"update", "apply"} => proc'[q].rule # None
                         /\ proc'[q].at # "closing" => proc'[q].closing = {}
    BY <1>2 DEF IInv, TypeOK
  <2>2. QED
    BY <1>1, <1>2, <1>3, <2>1 DEF IInv, TypeOK, ProcType, execVars
<1>6. GoneFromRule'
  BY <1>2 DEF IInv, GoneFromRule
<1>7. life = "none" => \A q \in Procs : proc'[q].at = "idle"
  BY <1>2 DEF IInv, NotYet
<1>8. QED
  BY <1>1, <1>4, <1>5, <1>6, <1>7, QuietStep

LEMMA IInvStep == IInv /\ [Next]_vars => IInv'
<1> SUFFICES ASSUME IInv, [Next]_vars PROVE IInv'
  OBVIOUS
<1>1. ASSUME NEW r \in RuleSet \cup {None}, RuleChanges(r) PROVE IInv'
  <2>1. TypeOK'
    BY <1>1 DEF RuleChanges, IInv, TypeOK, execVars, history
  <2>2. GoneFromRule' /\ UNCHANGED <<life, execVars, content, proc, crashed, unbuilt>>
    BY <1>1 DEF RuleChanges, IInv, GoneFromRule, history
  <2>3. life = "none" => \A p \in Procs : proc'[p].at = "idle"
    BY <2>2 DEF IInv, NotYet
  <2>4. QED
    BY <2>1, <2>2, <2>3, QuietStep
<1>2. ASSUME NEW p \in Procs, Handle(p) PROVE IInv'
  <2>1. CASE Create(p)
    BY <2>1, CreateStep
  <2>2. CASE Begin(p) \/ Compare(p) \/ Reject(p) \/ Return(p)
    BY <2>2, MoveStep
  <2>3. CASE Apply(p)
    BY <2>3, ApplyStep
  <2>4. CASE Empty(p)
    BY <2>4, EmptyStep
  <2>5. CASE \E d \in Dispatchers : CloseDispatcher(p, d)
    BY <2>5, CloseDispatcherStep
  <2>6. CASE CloseNil(p)
    <3>1. unbuilt # {} /\ UNCHANGED unbuilt
      BY <2>6 DEF CloseNil, IInv, FailedBuilds, history
    <3>2. UNCHANGED <<life, targets, transformers, dispatchers, content, proc>> /\ crashed' = TRUE
      BY <2>6 DEF CloseNil, execVars
    <3>3. TypeOK'
      BY <2>6 DEF CloseNil, IInv, TypeOK, execVars, history
    <3>4. ServedAsRecorded' /\ DispatchersOwned' /\ NotYet' /\ GoneFromRule'
      BY <3>2 DEF IInv, ServedAsRecorded, DispatchersOwned, Served, NotYet, GoneFromRule, Nothing
    <3>5. FailedBuilds'
      BY <3>1, <3>2 DEF IInv, FailedBuilds, CrashNeedsFailedBuild
    <3>6. QED
      BY <3>3, <3>4, <3>5 DEF IInv
  <2>7. CASE CreateFails(p)
    <3>1. TypeOK'
      BY <2>7 DEF CreateFails, IInv, TypeOK, execVars
    <3>2. GoneFromRule' /\ UNCHANGED <<life, execVars, content, proc, crashed, unbuilt>>
      BY <2>7 DEF CreateFails, IInv, GoneFromRule
    <3>3. life = "none" => \A q \in Procs : proc'[q].at = "idle"
      BY <3>2 DEF IInv, NotYet
    <3>4. QED
      BY <3>1, <3>2, <3>3, QuietStep
  <2>8. QED
    BY <1>2, <2>1, <2>2, <2>3, <2>4, <2>5, <2>6, <2>7 DEF Handle
<1>3. ASSUME UNCHANGED vars PROVE IInv'
  <2>1. TypeOK'
    BY <1>3 DEF vars, IInv, TypeOK, execVars, history
  <2>2. GoneFromRule' /\ UNCHANGED <<life, execVars, content, proc, crashed, unbuilt>>
    BY <1>3 DEF vars, IInv, GoneFromRule, history
  <2>3. life = "none" => \A p \in Procs : proc'[p].at = "idle"
    BY <2>2 DEF IInv, NotYet
  <2>4. QED
    BY <2>1, <2>2, <2>3, QuietStep
<1>4. QED
  BY <1>1, <1>2, <1>3 DEF Next

THEOREM Inductive == Spec => []IInv
BY IInvInit, IInvStep, PTL DEF Spec

\* Whatever Updates fail, are retried or overlap, what the executor has
\* recorded and can build is what transforms and dispatches events.
THEOREM RecordedIsServed == Spec => []ServedAsRecorded
BY Inductive, PTL DEF IInv

\* Update and Close never forget a dispatcher, close one twice or leave a
\* closed one in the map.
THEOREM OneOwner == Spec => []DispatchersOwned
BY Inductive, PTL DEF IInv

\* The call of Close on nil in Update's deferred function is reachable only
\* through a target that could not be built.
THEOREM NoCrashUnlessBuildFailed == Spec => []CrashNeedsFailedBuild
BY Inductive, PTL DEF IInv, FailedBuilds

\* Every reachable state is well typed, and only a goroutine that has left the
\* lock has dispatchers to close (Update and Close of executor).
THEOREM TypeCorrect == Spec => []TypeOK
BY Inductive, PTL DEF IInv

-----------------------------------------------------------------------------
(* Settled keys. As long as Handles do not overlap, the goroutine in       *)
(* Handle works for the rule that is wanted, or the key is reported again; *)
(* and what it compared is still so when it applies it. What was lost or   *)
(* given up before is made good by the next Handle.                        *)

Undisturbed == ~overlapped /\ ~crashed

AllIdle == \A p \in Procs : proc[p].at = "idle"

NothingOpen == \A d \in Dispatchers : content[d] = None

AsRule(r) == pattern = r.pattern /\ targets = r.targets

Alone == \A p, q \in Procs : proc[p].at # "idle" /\ proc[q].at # "idle" => p = q

AtWork(p) ==
    /\ proc[p].at # "idle" /\ ~reported => proc[p].rule = wanted
    /\ proc[p].at = "close" => wanted = None /\ proc[p].rule = None
    /\ proc[p].at \in {"update", "apply"} => life = "open"
    /\ proc[p].at = "apply" =>
         \A i \in Targets : i \in proc[p].gone
                            <=> targets[i] # None /\ proc[p].rule.targets[i] = None
    /\ proc[p].at = "closing" /\ proc[p].rule = None => life = "closed"
    /\ proc[p].at = "closing" /\ proc[p].rule # None /\ proc[p].err = "none" =>
         AsRule(proc[p].rule)

Settling ==
    Undisturbed =>
        /\ Alone
        /\ \A p \in Procs : AtWork(p)
        /\ life = "closed" => wanted = None /\ dispatchers = Nothing
        /\ ~reported /\ ~abandoned /\ AllIdle =>
             IF wanted = None THEN NothingOpen ELSE AsRule(wanted)

\* With nobody closing and nothing in the map no dispatcher is open.
LEMMA AllClosed ==
    ASSUME IInv, \A p \in Procs : proc[p].closing = {}, dispatchers = Nothing
    PROVE  NothingOpen
BY DEF IInv, TypeOK, DispatchersOwned, Served, Nothing, NothingOpen

LEMMA SettlingInit == Init => Settling
BY DEF Init, Settling, Alone, AtWork, Idle

\* A step of one goroutine that stays in Handle and leaves the rule alone.
LEMMA StillAtWork ==
    ASSUME IInv, Settling, NEW p \in Procs, proc[p].at # "idle", proc'[p].at # "idle",
           \A q \in Procs \ {p} : proc'[q] = proc[q],
           Undisturbed' => Undisturbed,
           UNCHANGED <<wanted, reported>>,
           Undisturbed => AtWork(p)' /\ (life' = "closed" => wanted = None /\ dispatchers' = Nothing)
    PROVE  Settling'
<1>1. CASE ~Undisturbed'
  BY <1>1 DEF Settling
<1>2. CASE Undisturbed'
  <2>1. \A q \in Procs \ {p} : proc[q].at = "idle" /\ proc'[q].at = "idle"
    BY <1>2 DEF Settling, Alone
  <2>2. Alone' /\ ~AllIdle'
    BY <2>1 DEF Alone, AllIdle
  <2>3. \A q \in Procs \ {p} : AtWork(q)'
    BY <2>1 DEF AtWork
  <2>4. QED
    BY <1>2, <2>2, <2>3 DEF Settling
<1>3. QED
  BY <1>1, <1>2

LEMMA SettlingApply ==
    ASSUME IInv, Settling, NEW p \in Procs, Apply(p)
    PROVE  Settling'
<1>0. /\ proc \in [Procs -> ProcType] /\ proc[p].rule \in RuleSet
      /\ targets \in [Targets -> Contents \cup {None}]
  BY DEF IInv, TypeOK, ProcType, Apply
<1>1. PICK built \in SUBSET (Changed(p) \ Failing(p)), stopped \in SUBSET Failing(p) :
        /\ IF Failing(p) = {} THEN built = Changed(p) ELSE Cardinality(stopped) = 1
        /\ targets' = [i \in Targets |-> IF i \in Gone(p) THEN None
                                         ELSE IF i \in built \cup stopped
                                         THEN proc[p].rule.targets[i] ELSE targets[i]]
        /\ proc' = [proc EXCEPT ![p].at = "closing",
                                ![p].closing = Replaced(p, built),
                                ![p].err = IF stopped = {} THEN "none" ELSE "build"]
  BY DEF Apply
<1>2. /\ proc[p].at = "apply"
      /\ pattern' = proc[p].rule.pattern
      /\ UNCHANGED <<wanted, reported, life, crashed, overlapped, abandoned>>
  BY DEF Apply
<1>3. /\ proc'[p].at = "closing" /\ proc'[p].rule = proc[p].rule
      /\ proc'[p].err = "none" => stopped = {}
      /\ \A q \in Procs \ {p} : proc'[q] = proc[q]
  BY <1>0, <1>1 DEF ProcType
<1>4. ASSUME Undisturbed, stopped = {}
      PROVE  targets' = proc[p].rule.targets
  <2>1. Failing(p) = {} /\ built = Changed(p)
    BY <1>1, <1>4, FS_EmptySet
  <2>2. proc[p].rule.targets \in [Targets -> Contents \cup {None}]
    BY <1>0 DEF Rules
  <2>3. \A i \in Targets : i \in Gone(p) <=> targets[i] # None /\ proc[p].rule.targets[i] = None
    BY <1>2, <1>4 DEF Settling, AtWork, Gone
  <2>4. \A i \in Targets : targets'[i] = proc[p].rule.targets[i]
    BY <1>1, <1>4, <2>1, <2>2, <2>3 DEF Changed
  <2>5. QED
    BY <1>1, <2>2, <2>4
<1>5. Undisturbed => AtWork(p)'
  <2>1. SUFFICES ASSUME Undisturbed PROVE AtWork(p)'
    OBVIOUS
  <2>2. AtWork(p) /\ proc[p].rule # None
    BY <1>0, <2>1 DEF Settling
  <2>3. proc'[p].err = "none" => AsRule(proc[p].rule)'
    BY <1>2, <1>3, <1>4, <2>1 DEF AsRule
  <2>4. QED
    BY <1>2, <1>3, <2>2, <2>3 DEF AtWork, AsRule
<1>6. Undisturbed => life # "closed"
  BY <1>2 DEF Settling, AtWork
<1>7. QED
  BY <1>2, <1>3, <1>5, <1>6, StillAtWork DEF Undisturbed

LEMMA SettlingMove ==
    ASSUME IInv, Settling, NEW p \in Procs, Compare(p) \/ Reject(p) \/ Empty(p)
    PROVE  Settling'
<1>0. /\ proc \in [Procs -> ProcType]
      /\ proc[p].at \in {"update", "apply"} => proc[p].rule # None
  BY DEF IInv, TypeOK, ProcType
<1>1. /\ proc[p].at # "idle" /\ proc'[p].at # "idle"
      /\ \A q \in Procs \ {p} : proc'[q] = proc[q]
      /\ UNCHANGED <<wanted, reported, crashed, overlapped, abandoned>>
  BY <1>0 DEF Compare, Reject, Empty, history, ProcType
<1>2. ASSUME Undisturbed
      PROVE  AtWork(p)' /\ (life' = "closed" => wanted = None /\ dispatchers' = Nothing)
  <2>0. AtWork(p)
    BY <1>2 DEF Settling
  <2>1. CASE Compare(p)
    <3>1. /\ proc[p].at = "update" /\ proc'[p].at = "apply" /\ proc'[p].rule = proc[p].rule
          /\ proc'[p].gone =
               {i \in Targets : targets[i] # None /\ proc[p].rule.targets[i] = None}
          /\ UNCHANGED <<wanted, reported, life, execVars>>
      BY <1>0, <2>1 DEF Compare, ProcType
    <3>2. QED
      BY <2>0, <3>1 DEF AtWork, execVars
  <2>2. CASE Reject(p)
    <3>1. /\ proc[p].at = "apply" /\ proc'[p].at = "closing" /\ proc'[p].rule = proc[p].rule
          /\ proc'[p].err = "build"
          /\ UNCHANGED <<wanted, reported, life, execVars>>
      BY <1>0, <2>2 DEF Reject, ProcType
    <3>2. QED
      BY <1>0, <2>0, <3>1 DEF AtWork, execVars
  <2>3. CASE Empty(p)
    <3>1. /\ proc[p].at = "close" /\ proc'[p].at = "closing" /\ proc'[p].rule = proc[p].rule
          /\ proc'[p].err = proc[p].err
          /\ life' = "closed" /\ dispatchers' = Nothing
          /\ UNCHANGED <<wanted, reported>>
      BY <1>0, <2>3 DEF Empty, ProcType
    <3>2. proc[p].rule = None /\ wanted = None
      BY <2>0, <3>1 DEF AtWork
    <3>3. QED
      BY <3>1, <3>2 DEF AtWork
  <2>4. QED
    BY <2>1, <2>2, <2>3
<1>3. QED
  BY <1>1, <1>2, StillAtWork DEF Undisturbed

LEMMA SettlingClose ==
    ASSUME IInv, Settling, NEW p \in Procs, NEW d \in Dispatchers, CloseDispatcher(p, d)
    PROVE  Settling'
<1>0. proc \in [Procs -> ProcType]
  BY DEF IInv, TypeOK, ProcType
<1>1. PICK ok \in BOOLEAN :
        proc' = [proc EXCEPT ![p].closing = @ \ {d},
                             ![p].err = IF ~ok THEN "close"
                                        ELSE IF @ = "build" THEN "lost" ELSE @]
  BY DEF CloseDispatcher
<1>2. /\ proc[p].at = "closing" /\ proc'[p].at = "closing"
      /\ proc'[p].rule = proc[p].rule
      /\ proc'[p].err = "none" => proc[p].err = "none"
      /\ \A q \in Procs \ {p} : proc'[q] = proc[q]
      /\ UNCHANGED <<wanted, reported, life, execVars, crashed, overlapped, abandoned>>
  BY <1>0, <1>1 DEF CloseDispatcher, ProcType, history
<1>3. Undisturbed => AtWork(p)'
  BY <1>2 DEF Settling, AtWork, AsRule, execVars
<1>4. Undisturbed => (life' = "closed" => wanted = None /\ dispatchers' = Nothing)
  BY <1>2 DEF Settling, execVars
<1>5. QED
  BY <1>2, <1>3, <1>4, StillAtWork DEF Undisturbed

\* A Handle that begins works for the rule that is wanted, or finds nothing to
\* delete.
LEMMA SettlingBegin ==
    ASSUME IInv, Settling, NEW p \in Procs, Begin(p)
    PROVE  Settling'
<1>0. /\ proc \in [Procs -> ProcType]
      /\ \A q \in Procs : proc[q].at # "closing" => proc[q].closing = {}
  BY DEF IInv, TypeOK, ProcType
<1>1. /\ proc[p].at = "idle" /\ ~reported'
      /\ life = "open" \/ wanted = None
      /\ proc'[p].rule = wanted
      /\ proc'[p].at = IF wanted # None THEN "update"
                       ELSE IF life = "open" THEN "close" ELSE "idle"
      /\ \A q \in Procs \ {p} : proc'[q] = proc[q]
      /\ overlapped' = (overlapped \/ \E q \in Procs : proc[q].at # "idle")
      /\ UNCHANGED <<wanted, life, execVars, content, crashed>>
  BY <1>0 DEF Begin, Idle, ProcType
<1>2. SUFFICES ASSUME Undisturbed'
               PROVE  /\ Alone' /\ \A q \in Procs : AtWork(q)'
                      /\ life' = "closed" => wanted' = None /\ dispatchers' = Nothing
                      /\ AllIdle' => IF wanted' = None THEN NothingOpen' ELSE AsRule(wanted)'
  BY DEF Settling
<1>3. Undisturbed /\ \A q \in Procs : proc[q].at = "idle"
  BY <1>1, <1>2 DEF Undisturbed
<1>4. \A q \in Procs \ {p} : proc'[q].at = "idle"
  BY <1>1, <1>3
<1>5. Alone' /\ \A q \in Procs : AtWork(q)'
  BY <1>1, <1>4 DEF Alone, AtWork
<1>6. life' = "closed" => wanted' = None /\ dispatchers' = Nothing
  BY <1>1, <1>3 DEF Settling, execVars
<1>7. ASSUME AllIdle' PROVE wanted' = None /\ NothingOpen'
  <2>1. wanted = None /\ life # "open"
    BY <1>1, <1>7 DEF AllIdle
  <2>2. dispatchers = Nothing
    BY <1>3, <2>1 DEF Settling, IInv, TypeOK, NotYet
  <2>3. NothingOpen
    BY <1>0, <1>3, <2>2, AllClosed
  <2>4. QED
    BY <1>1, <2>1, <2>3 DEF NothingOpen
<1>8. QED
  BY <1>5, <1>6, <1>7

\* A Handle that returns leaves the key settled, reported or abandoned.
LEMMA SettlingReturn ==
    ASSUME IInv, Settling, NEW p \in Procs, Return(p)
    PROVE  Settling'
<1>0. /\ proc \in [Procs -> ProcType]
      /\ \A q \in Procs : proc[q].at # "closing" => proc[q].closing = {}
  BY DEF IInv, TypeOK, ProcType
<1>1. /\ proc[p].at = "closing" /\ proc[p].closing = {} /\ proc'[p] = Idle
      /\ ~reported' => ~reported
      /\ ~reported' /\ ~abandoned' => proc[p].rule = None \/ proc[p].err = "none"
      /\ \A q \in Procs \ {p} : proc'[q] = proc[q]
      /\ UNCHANGED <<wanted, life, execVars, content, crashed, overlapped>>
  <2>1. Answer(p) /\ proc[p].err \in {"none", "build", "lost", "close"}
    BY <1>0 DEF Return, ProcType, Errors
  <2>2. /\ reported \in BOOLEAN /\ abandoned \in BOOLEAN
        /\ reported' \in BOOLEAN /\ abandoned' \in BOOLEAN
    BY <2>1 DEF Answer, IInv, TypeOK
  <2>3. /\ ~reported' => ~reported
        /\ ~reported' /\ ~abandoned' => proc[p].rule = None \/ proc[p].err = "none"
    BY <2>1, <2>2 DEF Answer
  <2>4. QED
    BY <1>0, <2>3 DEF Return
<1>2. SUFFICES ASSUME Undisturbed'
               PROVE  /\ Alone' /\ \A q \in Procs : AtWork(q)'
                      /\ life' = "closed" => wanted' = None /\ dispatchers' = Nothing
                      /\ ~reported' /\ ~abandoned' =>
                           IF wanted' = None THEN NothingOpen' ELSE AsRule(wanted)'
  BY DEF Settling
<1>3. Undisturbed
  BY <1>1, <1>2 DEF Undisturbed
<1>4. /\ \A q \in Procs \ {p} : proc[q].at = "idle" /\ proc'[q].at = "idle"
      /\ proc'[p].at = "idle"
  BY <1>1, <1>3 DEF Settling, Alone, Idle
<1>5. Alone' /\ \A q \in Procs : AtWork(q)'
  BY <1>4 DEF Alone, AtWork
<1>6. /\ AtWork(p)
      /\ life = "closed" => wanted = None /\ dispatchers = Nothing
  BY <1>3 DEF Settling
<1>7. ASSUME ~reported', ~abandoned'
      PROVE  IF wanted' = None THEN NothingOpen' ELSE AsRule(wanted)'
  <2>1. proc[p].rule = wanted
    BY <1>1, <1>6, <1>7 DEF AtWork
  <2>2. CASE wanted = None
    <3>1. dispatchers = Nothing
      BY <1>1, <1>6, <2>1, <2>2 DEF AtWork
    <3>2. \A q \in Procs : proc[q].closing = {}
      BY <1>0, <1>1, <1>4
    <3>3. NothingOpen
      BY <3>1, <3>2, AllClosed
    <3>4. QED
      BY <1>1, <2>2, <3>3 DEF NothingOpen
  <2>3. CASE wanted # None
    <3>1. proc[p].err = "none"
      BY <1>1, <1>7, <2>1, <2>3
    <3>2. AsRule(wanted)
      BY <1>1, <1>6, <2>1, <2>3, <3>1 DEF AtWork
    <3>3. QED
      BY <1>1, <2>3, <3>2 DEF AsRule, execVars
  <2>4. QED
    BY <2>2, <2>3
<1>8. QED
  BY <1>1, <1>5, <1>6, <1>7 DEF execVars

LEMMA SettlingStep == IInv /\ Settling /\ [Next]_vars => Settling'
<1> SUFFICES ASSUME IInv, Settling, [Next]_vars PROVE Settling'
  OBVIOUS
<1>1. ASSUME NEW r \in RuleSet \cup {None}, RuleChanges(r) PROVE Settling'
  <2>1. /\ reported' /\ wanted # None
        /\ UNCHANGED <<life, execVars, proc, crashed, overlapped, abandoned>>
    BY <1>1 DEF RuleChanges, history
  <2>2. Undisturbed' => Undisturbed /\ Alone' /\ life # "closed"
    BY <2>1 DEF Undisturbed, Settling, Alone
  <2>3. Undisturbed' => \A p \in Procs : AtWork(p)'
    BY <2>1, <2>2 DEF Settling, AtWork, AsRule, execVars
  <2>4. QED
    BY <2>1, <2>2, <2>3 DEF Settling
<1>2. ASSUME NEW p \in Procs, Create(p) PROVE Settling'
  <2>1. /\ wanted # None /\ life = "none" /\ life' = "open"
        /\ pattern' = wanted.pattern /\ targets' = wanted.targets
        /\ UNCHANGED <<wanted, proc>>
    BY <1>2 DEF Create
  <2>2. \A q \in Procs : proc'[q].at = "idle"
    BY <2>1 DEF IInv, NotYet
  <2>3. QED
    BY <2>1, <2>2 DEF Settling, Alone, AtWork, AsRule
<1>3. ASSUME NEW p \in Procs, CloseNil(p) PROVE Settling'
  BY <1>3 DEF CloseNil, Settling, Undisturbed
<1>4. ASSUME NEW p \in Procs, CreateFails(p) PROVE Settling'
  <2>1. /\ abandoned'
        /\ UNCHANGED <<wanted, life, execVars, proc, crashed, overlapped>>
    BY <1>4 DEF CreateFails
  <2>2. life = "none" /\ \A q \in Procs : proc'[q].at = "idle"
    BY <1>4, <2>1 DEF CreateFails, IInv, NotYet
  <2>3. QED
    BY <2>1, <2>2 DEF Settling, Alone, AtWork
<1>5. CASE UNCHANGED vars
  BY <1>5 DEF vars, execVars, history, Settling, Undisturbed, Alone, AtWork, AllIdle,
     NothingOpen, AsRule
<1>6. QED
  BY <1>1, <1>2, <1>3, <1>4, <1>5, SettlingBegin, SettlingMove, SettlingApply, SettlingClose,
     SettlingReturn
  DEF Next, Handle

\* What a sequence of Handles that do not overlap promises, whatever failed,
\* was lost or was given up before: once the key is settled, the executor is
\* what the rule says, and of a deleted rule nothing is open (Handle, Update,
\* Close, deleteRule).
THEOREM SettledAsWanted == Spec => []SettledServes
<1>1. Settling => SettledServes
  BY DEF Settling, SettledServes, Undisturbed, AllIdle, NothingOpen, AsRule
<1>2. QED
  BY <1>1, IInvInit, IInvStep, SettlingInit, SettlingStep, PTL DEF Spec
=============================================================================
