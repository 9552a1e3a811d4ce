------------------------- MODULE RuleControlProofs --------------------------
(***************************************************************************)
(* From the rows of a bus' rules to what its events are matched against:   *)
(* the executors, and with them the reflector.                             *)
(*                                                                         *)
(* Rules. The properties hold together in one inductive invariant,         *)
(* RulesIInv. As long as no two Handles have overlapped, the one that runs *)
(* is alone (Alone), so the map it copied is the map that is stored        *)
(* (Steady); every open executor is in the map or in its hands (Owned),    *)
(* under one name (Distinct); and a rule that neither waits nor is handled *)
(* is served as the reflector has it, or was given up with a content that  *)
(* cannot be built (Served).                                               *)
(*                                                                         *)
(* Together. Every step is one of Reflector and one of Rules, or leaves    *)
(* one of them alone, and the rules Handle gets are those in the map       *)
(* (Linked).                                                               *)
(***************************************************************************)
EXTENDS RuleControl, ReflectorProofs, TLAPS

(* The executors of a bus.                                                 *)

Busy(p) == proc[p].at # "idle"

Alone == \A p, q \in Procs : Busy(p) /\ Busy(q) => p = q

Stored(n) == IF executors = None THEN None ELSE executors[n]

Distinct == \A m, n \in RuleNames : Stored(m) # None /\ Stored(m) = Stored(n) => m = n

AllOpen == \A n \in RuleNames : Stored(n) # None => spec[Stored(n)] # None

Holds(p) == proc[p].at \in {"store", "close"}

Owned ==
    \A e \in Execs : spec[e] # None =>
        \/ \E n \in RuleNames : Stored(n) = e
        \/ \E p \in Procs : Holds(p) /\ proc[p].exec = e

\* What the Handle of p has read and is about to store or close.
Steady(p) ==
    LET n == proc[p].name IN
    /\ proc[p].at \in {"load", "decide", "store", "close"} =>
         proc[p].rule = wanted[n] \/ n \in reported
    /\ proc[p].at \in {"decide", "store"} => proc[p].map = executors
    /\ proc[p].at = "store" =>
         /\ proc[p].rule # None
         /\ spec[proc[p].exec] = proc[p].rule
    /\ proc[p].at = "close" =>
         /\ executors # None
         /\ proc[p].rule = None
    /\ Holds(p) => /\ Stored(n) = None
                   /\ \A m \in RuleNames : Stored(m) # proc[p].exec

Runs(n) == IF Stored(n) = None THEN None ELSE spec[Stored(n)]

Served ==
    \A n \in RuleNames :
        \/ n \in reported
        \/ \E p \in Procs : Busy(p) /\ proc[p].name = n
        \/ Runs(n) = wanted[n]
        \/ n \in given /\ wanted[n] \in Broken

Serial ==
    /\ Alone
    /\ Distinct
    /\ AllOpen
    /\ Owned
    /\ \A p \in Procs : Steady(p)
    /\ Served

RulesIInv == RulesTypeOK /\ (~overlapped => Serial)

-----------------------------------------------------------------------------
USE RulesAssumption DEF RulesAssumption

\* What a goroutine holds, and what a goroutine's slot becomes.
Slots == [at : Steps, name : RuleNames \cup {None}, rule : Specs \cup {None},
          map : Maps \cup {None}, exec : Execs \cup {None}]

SlotOK(g) ==
    /\ g \in Slots
    /\ g.at # "idle" => g.name \in RuleNames
    /\ g.at \in {"store", "close"} => g.exec \in Execs

LEMMA ProcTypes == RulesTypeOK => \A p \in Procs : SlotOK(proc[p])
  BY DEF RulesTypeOK, SlotOK, Slots

LEMMA ProcSets ==
    ASSUME RulesTypeOK, NEW p \in Procs, NEW g, SlotOK(g), proc' = [proc EXCEPT ![p] = g]
    PROVE  /\ proc' \in [Procs -> Slots]
           /\ \A q \in Procs : SlotOK(proc'[q])
           /\ proc'[p] = g
           /\ \A q \in Procs \ {p} : proc'[q] = proc[q]
<1>1. proc \in [Procs -> Slots]
  BY DEF RulesTypeOK, Slots
<1>2. g \in Slots
  BY DEF SlotOK
<1>3. proc'[p] = g /\ \A q \in Procs \ {p} : proc'[q] = proc[q]
  BY <1>1
<1>4. QED
  BY <1>1, <1>2, <1>3, ProcTypes

LEMMA IdleOK == SlotOK(Idle) /\ Idle.at = "idle"
  BY DEF SlotOK, Slots, Idle, Steps

LEMMA LoadedType == ASSUME RulesTypeOK, NEW p \in Procs PROVE Loaded(p) \in Maps
<1>1. proc[p].map \in Maps \cup {None}
  BY ProcTypes DEF SlotOK, Slots
<1>2. EmptyMap \in Maps
  BY DEF EmptyMap, Maps
<1>3. QED
  BY <1>1, <1>2 DEF Loaded

\* The slot a step of Handle leaves.
Becomes(p, g) == SlotOK(g) /\ proc' = [proc EXCEPT ![p] = g]

In(at, n, r, m, e) == [at |-> at, name |-> n, rule |-> r, map |-> m, exec |-> e]

\* A slot of which the step and one more field change.
LEMMA TwoFields ==
    ASSUME NEW f \in Slots, NEW x \in Steps, NEW y
    PROVE  /\ [f EXCEPT !.at = x, !.name = y] = In(x, y, f.rule, f.map, f.exec)
           /\ [f EXCEPT !.at = x, !.rule = y] = In(x, f.name, y, f.map, f.exec)
           /\ [f EXCEPT !.at = x, !.map = y] = In(x, f.name, f.rule, y, f.exec)
<1>1. [f EXCEPT !.at = x] = In(x, f.name, f.rule, f.map, f.exec)
  BY DEF In, Slots
<1>2. [f EXCEPT !.at = x, !.name = y] = In(x, y, f.rule, f.map, f.exec)
  <2>1. [f EXCEPT !.at = x, !.name = y] = [[f EXCEPT !.at = x] EXCEPT !.name = y]
    OBVIOUS
  <2>2. [[f EXCEPT !.at = x] EXCEPT !.name = y] = [In(x, f.name, f.rule, f.map, f.exec) EXCEPT !.name = y]
    BY <1>1, Zenon
  <2>3. [In(x, f.name, f.rule, f.map, f.exec) EXCEPT !.name = y] = In(x, y, f.rule, f.map, f.exec)
    BY DEF In
  <2>4. QED
    BY <2>1, <2>2, <2>3, Zenon
<1>3. [f EXCEPT !.at = x, !.rule = y] = In(x, f.name, y, f.map, f.exec)
  <2>1. [f EXCEPT !.at = x, !.rule = y] = [[f EXCEPT !.at = x] EXCEPT !.rule = y]
    OBVIOUS
  <2>2. [[f EXCEPT !.at = x] EXCEPT !.rule = y] = [In(x, f.name, f.rule, f.map, f.exec) EXCEPT !.rule = y]
    BY <1>1, Zenon
  <2>3. [In(x, f.name, f.rule, f.map, f.exec) EXCEPT !.rule = y] = In(x, f.name, y, f.map, f.exec)
    BY DEF In
  <2>4. QED
    BY <2>1, <2>2, <2>3, Zenon
<1>4. [f EXCEPT !.at = x, !.map = y] = In(x, f.name, f.rule, y, f.exec)
  <2>1. [f EXCEPT !.at = x, !.map = y] = [[f EXCEPT !.at = x] EXCEPT !.map = y]
    OBVIOUS
  <2>2. [[f EXCEPT !.at = x] EXCEPT !.map = y] = [In(x, f.name, f.rule, f.map, f.exec) EXCEPT !.map = y]
    BY <1>1, Zenon
  <2>3. [In(x, f.name, f.rule, f.map, f.exec) EXCEPT !.map = y] = In(x, f.name, f.rule, y, f.exec)
    BY DEF In
  <2>4. QED
    BY <2>1, <2>2, <2>3, Zenon
<1>5. QED
  BY <1>2, <1>3, <1>4

\* An executor taken in hand.
LEMMA ExecField ==
    ASSUME NEW f \in Slots, NEW y \in Execs
    PROVE  /\ [f EXCEPT !.at = "store", !.exec = y] = In("store", f.name, f.rule, f.map, y)
           /\ [f EXCEPT !.at = "close", !.exec = y] = In("close", f.name, f.rule, f.map, y)
<1>1. [f EXCEPT !.at = "store", !.exec = y] = In("store", f.name, f.rule, f.map, y)
  <2>1. [f EXCEPT !.at = "store", !.exec = y] = [[f EXCEPT !.at = "store"] EXCEPT !.exec = y]
    OBVIOUS
  <2>2. [f EXCEPT !.at = "store"] = In("store", f.name, f.rule, f.map, f.exec)
    BY DEF In, Slots
  <2>3. [[f EXCEPT !.at = "store"] EXCEPT !.exec = y] = [In("store", f.name, f.rule, f.map, f.exec) EXCEPT !.exec = y]
    BY <2>2, Zenon
  <2>4. [In("store", f.name, f.rule, f.map, f.exec) EXCEPT !.exec = y] = In("store", f.name, f.rule, f.map, y)
    BY DEF In
  <2>5. QED
    BY <2>1, <2>3, <2>4, Zenon
<1>2. [f EXCEPT !.at = "close", !.exec = y] = In("close", f.name, f.rule, f.map, y)
  <2>1. [f EXCEPT !.at = "close", !.exec = y] = [[f EXCEPT !.at = "close"] EXCEPT !.exec = y]
    OBVIOUS
  <2>2. [f EXCEPT !.at = "close"] = In("close", f.name, f.rule, f.map, f.exec)
    BY DEF In, Slots
  <2>3. [[f EXCEPT !.at = "close"] EXCEPT !.exec = y] = [In("close", f.name, f.rule, f.map, f.exec) EXCEPT !.exec = y]
    BY <2>2, Zenon
  <2>4. [In("close", f.name, f.rule, f.map, f.exec) EXCEPT !.exec = y] = In("close", f.name, f.rule, f.map, y)
    BY DEF In
  <2>5. QED
    BY <2>1, <2>3, <2>4, Zenon
<1>3. QED
  BY <1>1, <1>2

LEMMA InOK ==
    ASSUME NEW at \in Steps \ {"idle"}, NEW n \in RuleNames, NEW r \in Specs \cup {None},
           NEW m \in Maps \cup {None}, NEW e \in Execs \cup {None},
           at \in {"store", "close"} => e \in Execs
    PROVE  SlotOK(In(at, n, r, m, e))
  BY DEF SlotOK, Slots, In

LEMMA Parts ==
    ASSUME RulesTypeOK, NEW p \in Procs
    PROVE  /\ proc[p] = In(proc[p].at, proc[p].name, proc[p].rule, proc[p].map, proc[p].exec)
           /\ proc[p].at \in Steps
           /\ proc[p].name \in RuleNames \cup {None}
           /\ Busy(p) => proc[p].name \in RuleNames
           /\ proc[p].rule \in Specs \cup {None}
           /\ proc[p].map \in Maps \cup {None}
           /\ proc[p].exec \in Execs \cup {None}
           /\ Holds(p) => proc[p].exec \in Execs
  BY ProcTypes DEF SlotOK, Slots, In, Busy, Holds

LEMMA CurrentType ==
    ASSUME RulesTypeOK, NEW p \in Procs, Busy(p)
    PROVE  Current(p) \in Execs \cup {None}
<1>1. proc[p].name \in RuleNames
  BY Parts
<1>2. Loaded(p) \in [RuleNames -> Execs \cup {None}]
  BY LoadedType DEF Maps
<1>3. QED
  BY <1>1, <1>2 DEF Current

LEMMA SlotBegin ==
    ASSUME RulesTypeOK, NEW p \in Procs, NEW n \in RuleNames, Begin(p, n)
    PROVE  Becomes(p, In("get", n, None, None, None))
<1>1. [Idle EXCEPT !.at = "get", !.name = n] = In("get", n, None, None, None)
  <2>1. Idle \in Slots
    BY IdleOK DEF SlotOK
  <2>2. [Idle EXCEPT !.at = "get", !.name = n] = In("get", n, Idle.rule, Idle.map, Idle.exec)
    BY <2>1, TwoFields DEF Steps
  <2>3. QED
    BY <2>2 DEF Idle
<1>2. SlotOK(In("get", n, None, None, None))
  BY InOK DEF Steps
<1>3. QED
  BY <1>1, <1>2 DEF Begin, Becomes

LEMMA SlotGet ==
    ASSUME RulesTypeOK, NEW p \in Procs, Get(p)
    PROVE  LET n == proc[p].name IN Becomes(p, In("load", n, wanted[n], proc[p].map, proc[p].exec))
<1> DEFINE n == proc[p].name
           g == In("load", n, wanted[n], proc[p].map, proc[p].exec)
<1>1. n \in RuleNames /\ wanted[n] \in Specs \cup {None}
  BY Parts DEF Get, Busy, RulesTypeOK
<1>2. SlotOK(g)
  BY <1>1, Parts, InOK DEF Steps
<1>3. [proc[p] EXCEPT !.at = "load", !.rule = wanted[n]] = g
  <2>1. proc[p] \in Slots
    BY ProcTypes DEF SlotOK
  <2>2. QED
    BY <2>1, TwoFields DEF Steps
<1>4. QED
  BY <1>2, <1>3 DEF Get, Becomes

LEMMA SlotLoad ==
    ASSUME RulesTypeOK, NEW p \in Procs, Load(p)
    PROVE  Becomes(p, In("decide", proc[p].name, proc[p].rule, executors, proc[p].exec))
<1> DEFINE g == In("decide", proc[p].name, proc[p].rule, executors, proc[p].exec)
<1>1. proc[p].name \in RuleNames /\ executors \in Maps \cup {None}
  BY Parts DEF Load, Busy, RulesTypeOK
<1>2. SlotOK(g)
  BY <1>1, Parts, InOK, SMTT(30) DEF Steps
<1>3. [proc[p] EXCEPT !.at = "decide", !.map = executors] = g
  <2>1. proc[p] \in Slots
    BY ProcTypes DEF SlotOK
  <2>2. QED
    BY <2>1, TwoFields DEF Steps
<1>4. QED
  BY <1>2, <1>3 DEF Load, Becomes

LEMMA SlotBuild ==
    ASSUME RulesTypeOK, NEW p \in Procs, NEW e \in Execs, proc[p].at = "decide",
           proc' = [proc EXCEPT ![p].at = "store", ![p].exec = e]
    PROVE  Becomes(p, In("store", proc[p].name, proc[p].rule, proc[p].map, e))
<1>1. proc[p].name \in RuleNames /\ proc[p] \in Slots
  BY Parts, ProcTypes DEF Busy, SlotOK
<1>2. SlotOK(In("store", proc[p].name, proc[p].rule, proc[p].map, e))
  BY <1>1, Parts, InOK DEF Steps
<1>3. [proc[p] EXCEPT !.at = "store", !.exec = e]
        = In("store", proc[p].name, proc[p].rule, proc[p].map, e)
  BY <1>1, ExecField
<1>4. QED
  BY <1>2, <1>3 DEF Becomes

LEMMA SlotWithout ==
    ASSUME RulesTypeOK, NEW p \in Procs, StoreWithout(p)
    PROVE  /\ Current(p) \in Execs
           /\ Becomes(p, In("close", proc[p].name, proc[p].rule, proc[p].map, Current(p)))
<1>1. proc[p].name \in RuleNames /\ proc[p] \in Slots
  BY Parts, ProcTypes DEF Busy, SlotOK, StoreWithout
<1>2. Current(p) \in Execs
  BY CurrentType DEF StoreWithout, Busy
<1>3. SlotOK(In("close", proc[p].name, proc[p].rule, proc[p].map, Current(p)))
  BY <1>1, <1>2, Parts, InOK DEF Steps
<1>4. [proc[p] EXCEPT !.at = "close", !.exec = Current(p)]
        = In("close", proc[p].name, proc[p].rule, proc[p].map, Current(p))
  BY <1>1, <1>2, ExecField
<1>5. QED
  BY <1>2, <1>3, <1>4 DEF StoreWithout, Becomes

LEMMA SlotIdle ==
    ASSUME NEW p \in Procs,
           \/ BuildFails(p) \/ StoreNew(p) \/ Modify(p) \/ ModifyFails(p)
           \/ CloseExecutor(p) \/ NothingToDelete(p)
    PROVE  Becomes(p, Idle)
  BY IdleOK
  DEF BuildFails, StoreNew, Modify, ModifyFails, CloseExecutor, NothingToDelete, Fail, Becomes

-----------------------------------------------------------------------------
\* The types of everything but the goroutines.
TableTypes ==
    /\ wanted \in [RuleNames -> Specs \cup {None}]
    /\ reported \in SUBSET RuleNames
    /\ given \in SUBSET RuleNames
    /\ executors \in Maps \cup {None}
    /\ spec \in [Execs -> Specs \cup {None}]
    /\ changes \in 0..MaxChanges
    /\ overlapped \in BOOLEAN

LEMMA Types ==
    RulesTypeOK <=> TableTypes /\ proc \in [Procs -> Slots] /\ \A p \in Procs : SlotOK(proc[p])
  BY DEF RulesTypeOK, TableTypes, SlotOK, Slots

LEMMA ProcStep ==
    ASSUME RulesTypeOK, NEW p \in Procs, NEW g, Becomes(p, g), TableTypes'
    PROVE  RulesTypeOK'
<1>1. proc' \in [Procs -> Slots] /\ \A q \in Procs : SlotOK(proc'[q])
  BY ProcSets DEF Becomes
<1>2. QED
  BY <1>1 DEF RulesTypeOK, TableTypes, SlotOK, Slots

\* The types hold initially ...
LEMMA RulesTypeInit == RulesInit => RulesTypeOK
<1> SUFFICES ASSUME RulesInit PROVE RulesTypeOK
  OBVIOUS
<1>1. TableTypes
  <2>1. wanted \in [RuleNames -> Specs \cup {None}] /\ spec \in [Execs -> Specs \cup {None}]
    BY DEF RulesInit
  <2>2. reported \in SUBSET RuleNames /\ given \in SUBSET RuleNames /\ executors \in Maps \cup {None}
    BY DEF RulesInit
  <2>3. changes \in 0..MaxChanges
    BY DEF RulesInit
  <2>4. overlapped \in BOOLEAN
    BY DEF RulesInit
  <2>5. QED
    BY <2>1, <2>2, <2>3, <2>4 DEF TableTypes
<1>2. proc \in [Procs -> Slots] /\ \A p \in Procs : SlotOK(proc[p])
  BY IdleOK DEF RulesInit, SlotOK
<1>3. QED
  BY <1>1, <1>2, Types

\* ... and every action preserves them.
LEMMA RulesTypeStep == RulesTypeOK /\ [RulesNext]_rulesVars => RulesTypeOK'
<1> SUFFICES ASSUME RulesTypeOK, [RulesNext]_rulesVars PROVE RulesTypeOK'
  OBVIOUS
<1>0. TableTypes
  BY Types
<1>1. ASSUME NEW ns \in SUBSET RuleNames, RulesReported(ns) PROVE RulesTypeOK'
  <2>1. wanted' \in [RuleNames -> Specs \cup {None}]
    BY <1>0, <1>1 DEF RulesReported, TableTypes
  <2>2. TableTypes'
    BY <1>0, <1>1, <2>1 DEF RulesReported, TableTypes, table
  <2>3. UNCHANGED proc
    BY <1>1 DEF RulesReported
  <2>4. QED
    BY <2>2, <2>3 DEF RulesTypeOK, TableTypes
<1>2. ASSUME NEW p \in Procs, NEW n \in RuleNames, Begin(p, n) PROVE RulesTypeOK'
  <2>1. TableTypes'
    BY <1>0, <1>2 DEF Begin, TableTypes, table
  <2>2. QED
    BY <1>2, <2>1, SlotBegin, ProcStep
<1>3. ASSUME NEW p \in Procs, Handle(p) PROVE RulesTypeOK'
  <2>0. Busy(p) => proc[p].name \in RuleNames
    BY Parts
  <2>1. CASE Get(p) \/ Load(p)
    <3>1. TableTypes'
      BY <1>0, <2>1 DEF Get, Load, TableTypes, table
    <3>2. QED
      BY <2>1, <3>1, SlotGet, SlotLoad, ProcStep
  <2>2. CASE Build(p)
    <3>1. PICK e \in Execs : /\ spec' = [spec EXCEPT ![e] = proc[p].rule]
                             /\ proc' = [proc EXCEPT ![p].at = "store", ![p].exec = e]
      BY <2>2 DEF Build, Unborn
    <3>2. proc[p].at = "decide" /\ proc[p].rule \in Specs \cup {None}
      BY <2>2, Parts DEF Build
    <3>3. TableTypes'
      BY <1>0, <2>2, <3>1, <3>2 DEF Build, TableTypes
    <3>4. QED
      BY <3>1, <3>2, <3>3, SlotBuild, ProcStep
  <2>3. CASE BuildFails(p) \/ ModifyFails(p)
    <3>1. proc[p].name \in RuleNames
      BY <2>0, <2>3 DEF BuildFails, ModifyFails, Busy
    <3>2. TableTypes'
      BY <1>0, <2>3, <3>1 DEF BuildFails, ModifyFails, Fail, TableTypes, table
    <3>3. QED
      BY <2>3, <3>2, SlotIdle, ProcStep
  <2>4. CASE StoreNew(p)
    <3>1. proc[p].name \in RuleNames /\ proc[p].exec \in Execs
      BY <2>0, <2>4, Parts DEF StoreNew, Busy, Holds
    <3>2. executors' \in Maps
      BY <2>4, <3>1, LoadedType DEF StoreNew, Maps
    <3>3. TableTypes'
      BY <1>0, <2>4, <3>2 DEF StoreNew, TableTypes
    <3>4. QED
      BY <2>4, <3>3, SlotIdle, ProcStep
  <2>5. CASE Modify(p)
    <3>1. proc[p].rule \in Specs \cup {None}
      BY Parts
    <3>2. TableTypes'
      BY <1>0, <2>5, <3>1 DEF Modify, TableTypes
    <3>3. QED
      BY <2>5, <3>2, SlotIdle, ProcStep
  <2>6. CASE StoreWithout(p)
    <3>1. proc[p].name \in RuleNames
      BY <2>0, <2>6 DEF StoreWithout, Busy
    <3>2. executors' \in Maps
      BY <2>6, <3>1, LoadedType DEF StoreWithout, Maps
    <3>3. TableTypes'
      BY <1>0, <2>6, <3>2 DEF StoreWithout, TableTypes
    <3>4. QED
      BY <2>6, <3>3, SlotWithout, ProcStep
  <2>7. CASE CloseExecutor(p) \/ NothingToDelete(p)
    <3>1. TableTypes'
      BY <1>0, <2>7 DEF CloseExecutor, NothingToDelete, TableTypes, table
    <3>2. QED
      BY <2>7, <3>1, SlotIdle, ProcStep
  <2>8. QED
    BY <1>3, <2>1, <2>2, <2>3, <2>4, <2>5, <2>6, <2>7 DEF Handle
<1>4. CASE UNCHANGED rulesVars
  BY <1>4 DEF rulesVars, table, RulesTypeOK
<1>5. QED
  BY <1>1, <1>2, <1>3, <1>4 DEF RulesNext

\* For every instance: the map, the executors and what each goroutine of the
\* informer holds are what Handle takes them for.
THEOREM RulesTypeCorrect == RulesSpec => []RulesTypeOK
  BY RulesTypeInit, RulesTypeStep, PTL DEF RulesSpec

-----------------------------------------------------------------------------
\* The goroutine that handles is alone.
LEMMA Sole ==
    ASSUME RulesTypeOK, Alone, NEW p \in Procs, Busy(p), NEW g, Becomes(p, g)
    PROVE  /\ proc'[p] = g
           /\ \A q \in Procs \ {p} : proc[q].at = "idle" /\ proc'[q].at = "idle"
           /\ Alone'
<1>1. proc'[p] = g /\ \A q \in Procs \ {p} : proc'[q] = proc[q]
  BY ProcSets DEF Becomes
<1>2. \A q \in Procs \ {p} : proc[q].at = "idle"
  BY DEF Alone, Busy
<1>3. QED
  BY <1>1, <1>2 DEF Alone, Busy

\* Executors are what their types say.
LEMMA StoredType ==
    ASSUME RulesTypeOK, NEW n \in RuleNames
    PROVE  Stored(n) \in Execs \cup {None}
  BY DEF RulesTypeOK, Maps, Stored

\* The loaded map is the stored one.
LEMMA LoadedIsStored ==
    ASSUME NEW p \in Procs, proc[p].map = executors, NEW n \in RuleNames
    PROVE  Loaded(p)[n] = Stored(n)
  BY DEF Loaded, Stored, EmptyMap

\* A step of the Handle that changes nothing but what it has read.
LEMMA Reads ==
    ASSUME RulesTypeOK, Serial, NEW p \in Procs, Get(p) \/ Load(p)
    PROVE  Serial'
<1>1. PICK g : /\ Becomes(p, g)
               /\ g.at \in {"load", "decide"}
               /\ g.name = proc[p].name
               /\ g.rule = wanted[g.name] \/ (g.rule = proc[p].rule /\ proc[p].at = "load")
               /\ g.at = "decide" => g.map = executors
  <2>1. CASE Get(p)
    <3> DEFINE n == proc[p].name
               g == In("load", n, wanted[n], proc[p].map, proc[p].exec)
    <3>1. Becomes(p, g)
      BY <2>1, SlotGet
    <3>2. g.at = "load" /\ g.name = n /\ g.rule = wanted[n]
      BY DEF In
    <3> HIDE DEF g
    <3>3. QED
      BY <3>1, <3>2
  <2>2. CASE Load(p)
    <3> DEFINE g == In("decide", proc[p].name, proc[p].rule, executors, proc[p].exec)
    <3>1. Becomes(p, g)
      BY <2>2, SlotLoad
    <3>2. g.at = "decide" /\ g.name = proc[p].name /\ g.rule = proc[p].rule /\ g.map = executors
      BY DEF In
    <3>3. proc[p].at = "load"
      BY <2>2 DEF Load
    <3> HIDE DEF g
    <3>4. QED
      BY <3>1, <3>2, <3>3
  <2>3. QED
    BY <2>1, <2>2
<1>2. Busy(p) /\ ~Holds(p) /\ UNCHANGED <<wanted, reported, given, executors, spec>>
  BY DEF Get, Load, Busy, Holds, table
<1>3. /\ proc'[p] = g
      /\ \A q \in Procs \ {p} : proc[q].at = "idle" /\ proc'[q].at = "idle"
      /\ Alone'
  BY <1>1, <1>2, Sole DEF Serial
<1>4. Distinct' /\ AllOpen'
  BY <1>2 DEF Serial, Distinct, AllOpen, Stored
<1>5. Owned'
  BY <1>1, <1>2, <1>3 DEF Serial, Owned, Holds, Stored
<1>6. \A q \in Procs : Steady(q)'
  BY <1>1, <1>2, <1>3 DEF Serial, Steady, Holds, Stored
<1>7. Served'
  BY <1>1, <1>2, <1>3 DEF Serial, Served, Busy, Runs, Stored
<1>8. QED
  BY <1>3, <1>4, <1>5, <1>6, <1>7 DEF Serial

\* What is left to show of a step that ends a Handle.
LEMMA Ends ==
    ASSUME RulesTypeOK, Serial, NEW p \in Procs, Busy(p), Becomes(p, Idle),
           Distinct', AllOpen', UNCHANGED wanted,
           \A e \in Execs : spec'[e] # None => \E n \in RuleNames : Stored(n)' = e,
           \A n \in RuleNames \ {proc[p].name} :
              /\ n \in reported => n \in reported'
              /\ n \in given => n \in given'
              /\ Runs(n)' = Runs(n),
           \A n \in RuleNames : n = proc[p].name =>
              n \in reported' \/ Runs(n)' = wanted[n] \/ (n \in given' /\ wanted[n] \in Broken)
    PROVE  Serial'
<1>1. /\ proc'[p] = Idle
      /\ \A q \in Procs \ {p} : proc[q].at = "idle" /\ proc'[q].at = "idle"
      /\ Alone'
  BY Sole DEF Serial
<1>2. \A q \in Procs : proc'[q].at = "idle"
  BY <1>1, IdleOK
<1>3. Owned'
  BY DEF Owned
<1>4. \A q \in Procs : Steady(q)'
  BY <1>2 DEF Steady, Holds
<1>5. ASSUME NEW n \in RuleNames
      PROVE  n \in reported' \/ Runs(n)' = wanted'[n] \/ (n \in given' /\ wanted'[n] \in Broken)
  <2>1. CASE n = proc[p].name
    BY <2>1 DEF Runs, Stored
  <2>2. CASE n # proc[p].name
    <3>1. n \in reported \/ Runs(n) = wanted[n] \/ (n \in given /\ wanted[n] \in Broken)
      BY <1>1, <2>2 DEF Serial, Served, Busy
    <3>2. /\ n \in reported => n \in reported'
          /\ n \in given => n \in given'
          /\ Runs(n)' = Runs(n)
      BY <2>2
    <3>3. QED
      BY <3>1, <3>2
  <2>3. QED
    BY <2>1, <2>2
<1>6. Served'
  BY <1>5 DEF Served
<1>7. QED
  BY <1>1, <1>3, <1>4, <1>6 DEF Serial

\* Nobody but the Handle holds an executor.
LEMMA OthersOwn ==
    ASSUME RulesTypeOK, Serial, NEW p \in Procs, Busy(p), NEW e \in Execs, spec[e] # None,
           Holds(p) => proc[p].exec # e
    PROVE  \E n \in RuleNames : Stored(n) = e
<1>1. \A q \in Procs \ {p} : proc[q].at = "idle"
  BY DEF Serial, Alone, Busy
<1>2. QED
  BY <1>1 DEF Serial, Owned, Holds

LEMMA FailStep ==
    ASSUME RulesTypeOK, Serial, NEW p \in Procs, BuildFails(p) \/ ModifyFails(p)
    PROVE  Serial'
<1>1. Busy(p) /\ Becomes(p, Idle) /\ UNCHANGED <<wanted, executors, spec>> /\ ~Holds(p)
  BY SlotIdle DEF BuildFails, ModifyFails, Busy, table, Holds
<1>2. PICK n \in RuleNames : n = proc[p].name
  BY <1>1, Parts
<1>3. Distinct' /\ AllOpen'
  BY <1>1 DEF Serial, Distinct, AllOpen, Stored
<1>4. \A e \in Execs : spec'[e] # None => \E m \in RuleNames : Stored(m)' = e
  BY <1>1, OthersOwn DEF Stored
<1>5. \A m \in RuleNames \ {n} :
        /\ m \in reported => m \in reported'
        /\ m \in given => m \in given'
        /\ Runs(m)' = Runs(m)
  BY <1>1, <1>2 DEF BuildFails, ModifyFails, Fail, Runs, Stored
<1>6. (proc[p].rule = wanted[n] \/ n \in reported) /\ proc[p].rule \in Broken
  BY <1>2 DEF Serial, Steady, BuildFails, ModifyFails
<1>7. n \in reported' \/ (n \in given' /\ wanted[n] \in Broken)
  BY <1>2, <1>6 DEF BuildFails, ModifyFails, Fail
<1>8. QED
  BY <1>1, <1>2, <1>3, <1>4, <1>5, <1>7, Ends

LEMMA ModifyStep ==
    ASSUME RulesTypeOK, Serial, NEW p \in Procs, Modify(p)
    PROVE  Serial'
<1>1. /\ Busy(p) /\ Becomes(p, Idle) /\ ~Holds(p)
      /\ UNCHANGED <<wanted, reported, given, executors>>
  BY SlotIdle DEF Modify, Busy, Holds
<1>2. PICK n \in RuleNames : n = proc[p].name
  BY <1>1, Parts
<1>3. (proc[p].rule = wanted[n] \/ n \in reported) /\ proc[p].rule \in Specs
  BY <1>2, Parts DEF Serial, Steady, Modify
<1>4. Current(p) = Stored(n) /\ Current(p) # None
  BY <1>2, LoadedIsStored DEF Current, Serial, Steady, Modify
<1>5. PICK e \in Execs : e = Stored(n)
  BY <1>4, StoredType
<1>6. spec' = [spec EXCEPT ![e] = proc[p].rule] /\ spec \in [Execs -> Specs \cup {None}]
  BY <1>4, <1>5 DEF Modify, RulesTypeOK
<1>7. PICK r \in Specs : r = proc[p].rule
  BY <1>3
<1>8. spec'[e] = r /\ \A f \in Execs \ {e} : spec'[f] = spec[f]
  BY <1>6, <1>7
<1>9. \A m \in RuleNames : Stored(m)' = Stored(m)
  BY <1>1 DEF Stored
<1>10. Distinct'
  BY <1>1 DEF Serial, Distinct, Stored
<1>11. AllOpen'
  BY <1>1, <1>3, <1>7, <1>8, StoredType DEF Serial, AllOpen, Stored
<1>12. ASSUME NEW f \in Execs, spec'[f] # None PROVE \E m \in RuleNames : Stored(m)' = f
  <2>1. CASE f = e
    BY <1>5, <1>9, <2>1
  <2>2. CASE f # e
    BY <1>1, <1>8, <1>9, <1>12, <2>2, OthersOwn
  <2>3. QED
    BY <2>1, <2>2
<1>13. ASSUME NEW m \in RuleNames \ {n} PROVE Runs(m)' = Runs(m)
  <2>1. Stored(m) # e
    BY <1>5 DEF Serial, Distinct
  <2>2. QED
    BY <1>1, <1>8, <2>1, StoredType DEF Runs, Stored
<1>14. Runs(n)' = r
  BY <1>1, <1>5, <1>8 DEF Runs, Stored
<1>15. QED
  BY <1>1, <1>2, <1>3, <1>7, <1>10, <1>11, <1>12, <1>13, <1>14, Ends

\* What Stored becomes when a copy of the loaded map is stored.
LEMMA CopyStored ==
    ASSUME RulesTypeOK, NEW p \in Procs, proc[p].map = executors,
           NEW n \in RuleNames, NEW x \in Execs \cup {None},
           executors' = [Loaded(p) EXCEPT ![n] = x]
    PROVE  /\ executors' # None
           /\ Stored(n)' = x
           /\ \A m \in RuleNames \ {n} : Stored(m)' = Stored(m)
<1>1. Loaded(p) \in [RuleNames -> Execs \cup {None}]
  BY LoadedType DEF Maps
<1>2. executors' \in [RuleNames -> Execs \cup {None}]
  BY <1>1
<1>3. executors' # None
  BY <1>2
<1>4. executors'[n] = x /\ \A m \in RuleNames \ {n} : executors'[m] = Loaded(p)[m]
  BY <1>1
<1>5. QED
  BY <1>3, <1>4, LoadedIsStored DEF Stored

LEMMA NothingStep ==
    ASSUME RulesTypeOK, Serial, NEW p \in Procs, NothingToDelete(p)
    PROVE  Serial'
<1>1. Busy(p) /\ Becomes(p, Idle) /\ ~Holds(p)
      /\ UNCHANGED <<wanted, reported, given, executors, spec>>
  BY SlotIdle DEF NothingToDelete, Busy, Holds, table
<1>2. PICK n \in RuleNames : n = proc[p].name
  BY <1>1, Parts
<1>3. (wanted[n] = None \/ n \in reported) /\ Stored(n) = None
  BY <1>2, LoadedIsStored DEF Serial, Steady, NothingToDelete, Current
<1>4. Distinct' /\ AllOpen'
  BY <1>1 DEF Serial, Distinct, AllOpen, Stored
<1>5. \A e \in Execs : spec'[e] # None => \E m \in RuleNames : Stored(m)' = e
  BY <1>1, OthersOwn DEF Stored
<1>6. \A m \in RuleNames : Runs(m)' = Runs(m)
  BY <1>1 DEF Runs, Stored
<1>7. Runs(n) = None
  BY <1>3 DEF Runs
<1>8. QED
  BY <1>1, <1>2, <1>3, <1>4, <1>5, <1>6, <1>7, Ends

LEMMA CloseStep ==
    ASSUME RulesTypeOK, Serial, NEW p \in Procs, CloseExecutor(p)
    PROVE  Serial'
<1>1. Busy(p) /\ Holds(p) /\ Becomes(p, Idle)
      /\ UNCHANGED <<wanted, reported, given, executors>>
  BY SlotIdle DEF CloseExecutor, Busy, Holds
<1>2. PICK n \in RuleNames, e \in Execs : n = proc[p].name /\ e = proc[p].exec
  BY <1>1, Parts
<1>3. /\ wanted[n] = None \/ n \in reported
      /\ Stored(n) = None
      /\ \A m \in RuleNames : Stored(m) # e
  BY <1>1, <1>2 DEF Serial, Steady, CloseExecutor
<1>4. spec' = [spec EXCEPT ![e] = None] /\ spec \in [Execs -> Specs \cup {None}]
  BY <1>2 DEF CloseExecutor, RulesTypeOK
<1>5. spec'[e] = None /\ \A f \in Execs \ {e} : spec'[f] = spec[f]
  BY <1>4
<1>6. \A m \in RuleNames : Stored(m)' = Stored(m)
  BY <1>1 DEF Stored
<1>7. Distinct'
  BY <1>1 DEF Serial, Distinct, Stored
<1>8. AllOpen'
  BY <1>1, <1>3, <1>5, StoredType DEF Serial, AllOpen, Stored
<1>9. ASSUME NEW f \in Execs, spec'[f] # None PROVE \E m \in RuleNames : Stored(m)' = f
  <2>1. f # e /\ spec[f] # None
    BY <1>5, <1>9
  <2>2. QED
    BY <1>1, <1>2, <1>6, <2>1, OthersOwn
<1>10. \A m \in RuleNames : Runs(m)' = Runs(m)
  BY <1>1, <1>3, <1>5, StoredType DEF Runs, Stored
<1>11. Runs(n) = None
  BY <1>3 DEF Runs
<1>12. QED
  BY <1>1, <1>2, <1>3, <1>7, <1>8, <1>9, <1>10, <1>11, Ends

LEMMA StoreNewStep ==
    ASSUME RulesTypeOK, Serial, NEW p \in Procs, StoreNew(p)
    PROVE  Serial'
<1>1. Busy(p) /\ Holds(p) /\ Becomes(p, Idle)
      /\ UNCHANGED <<wanted, reported, given, spec>>
  BY SlotIdle DEF StoreNew, Busy, Holds
<1>2. PICK n \in RuleNames, e \in Execs : n = proc[p].name /\ e = proc[p].exec
  BY <1>1, Parts
<1>3. /\ spec[e] = wanted[n] \/ n \in reported
      /\ spec[e] # None
      /\ Stored(n) = None
      /\ \A m \in RuleNames : Stored(m) # e
      /\ proc[p].map = executors
  BY <1>1, <1>2 DEF Serial, Steady, StoreNew
<1>4. executors' = [Loaded(p) EXCEPT ![n] = e]
  BY <1>2 DEF StoreNew
<1>5. Stored(n)' = e /\ \A m \in RuleNames \ {n} : Stored(m)' = Stored(m)
  BY <1>3, <1>4, CopyStored
<1>6. Distinct'
  <2>1. SUFFICES ASSUME NEW m \in RuleNames, NEW k \in RuleNames,
                        Stored(m)' # None, Stored(m)' = Stored(k)'
                 PROVE  m = k
    BY DEF Distinct
  <2>2. QED
    BY <1>3, <1>5, <2>1 DEF Serial, Distinct
<1>7. AllOpen'
  <2>1. SUFFICES ASSUME NEW m \in RuleNames, Stored(m)' # None PROVE spec'[Stored(m)'] # None
    BY DEF AllOpen
  <2>2. QED
    BY <1>1, <1>3, <1>5, <2>1 DEF Serial, AllOpen
<1>8. ASSUME NEW f \in Execs, spec'[f] # None PROVE \E m \in RuleNames : Stored(m)' = f
  <2>1. CASE f = e
    BY <1>5, <2>1
  <2>2. CASE f # e
    <3>1. PICK m \in RuleNames : Stored(m) = f
      BY <1>1, <1>2, <1>8, <2>2, OthersOwn
    <3>2. m # n
      BY <1>3, <3>1
    <3>3. QED
      BY <1>5, <3>1, <3>2
  <2>3. QED
    BY <2>1, <2>2
<1>9. ASSUME NEW m \in RuleNames \ {n} PROVE Runs(m)' = Runs(m)
  BY <1>1, <1>5 DEF Runs, Stored
<1>10. Runs(n)' = spec[e]
  BY <1>1, <1>5 DEF Runs, Stored
<1>11. QED
  BY <1>1, <1>2, <1>3, <1>6, <1>7, <1>8, <1>9, <1>10, Ends

\* What is left to show of a step after which the Handle goes on with an
\* executor in hand.
LEMMA GoesOn ==
    ASSUME RulesTypeOK, Serial, NEW p \in Procs, Busy(p), NEW g, Becomes(p, g),
           g.at \in {"store", "close"}, g.name = proc[p].name,
           Distinct', AllOpen', UNCHANGED <<wanted, reported, given>>,
           \A e \in Execs : spec'[e] # None =>
              e = g.exec \/ \E n \in RuleNames : Stored(n)' = e,
           Steady(p)',
           \A n \in RuleNames \ {proc[p].name} : Runs(n)' = Runs(n)
    PROVE  Serial'
<1>1. /\ proc'[p] = g
      /\ \A q \in Procs \ {p} : proc[q].at = "idle" /\ proc'[q].at = "idle"
      /\ Alone'
  BY Sole DEF Serial
<1>2. Owned'
  BY <1>1 DEF Owned, Holds
<1>3. \A q \in Procs : Steady(q)'
  BY <1>1 DEF Steady, Holds
<1>4. ASSUME NEW n \in RuleNames
      PROVE  \/ n \in reported'
             \/ \E q \in Procs : Busy(q)' /\ proc'[q].name = n
             \/ Runs(n)' = wanted'[n]
             \/ n \in given' /\ wanted'[n] \in Broken
  <2>1. CASE n = proc[p].name
    BY <1>1, <2>1 DEF Busy
  <2>2. CASE n # proc[p].name
    <3>1. n \in reported \/ Runs(n) = wanted[n] \/ (n \in given /\ wanted[n] \in Broken)
      BY <1>1, <2>2 DEF Serial, Served, Busy
    <3>2. Runs(n)' = Runs(n)
      BY <2>2
    <3>3. QED
      BY <3>1, <3>2
  <2>3. QED
    BY <2>1, <2>2
<1>5. Served'
  BY <1>4 DEF Served
<1>6. QED
  BY <1>1, <1>2, <1>3, <1>5 DEF Serial

LEMMA BuildStep ==
    ASSUME RulesTypeOK, Serial, NEW p \in Procs, Build(p)
    PROVE  Serial'
<1>1. PICK e \in Unborn : /\ spec' = [spec EXCEPT ![e] = proc[p].rule]
                          /\ proc' = [proc EXCEPT ![p].at = "store", ![p].exec = e]
  BY DEF Build
<1>2. /\ e \in Execs /\ \A m \in RuleNames : Stored(m) # e
      /\ spec \in [Execs -> Specs \cup {None}]
  BY DEF Unborn, Stored, RulesTypeOK
<1>3. PICK n, r, x : n = proc[p].name /\ r = proc[p].rule /\ x = proc[p].map
  OBVIOUS
<1>4. /\ Busy(p) /\ ~Holds(p) /\ n \in RuleNames
      /\ UNCHANGED <<wanted, reported, given, executors>>
  BY <1>3, Parts DEF Build, Busy, Holds
<1>5. Becomes(p, In("store", n, r, x, e))
  BY <1>1, <1>2, <1>3, SlotBuild DEF Build
<1>6. PICK g : g = In("store", n, r, x, e)
  OBVIOUS
<1>7. Becomes(p, g) /\ g.at = "store" /\ g.name = n /\ g.rule = r /\ g.map = x /\ g.exec = e
  BY <1>5, <1>6 DEF In
<1>8. r # None /\ (r = wanted[n] \/ n \in reported) /\ x = executors /\ Stored(n) = None
  BY <1>3, <1>4, LoadedIsStored DEF Serial, Steady, Build, Current
<1>9. spec'[e] = r /\ \A f \in Execs \ {e} : spec'[f] = spec[f]
  BY <1>1, <1>2, <1>3
<1>10. \A m \in RuleNames : Stored(m)' = Stored(m)
  BY <1>4 DEF Stored
<1>11. Distinct'
  BY <1>4 DEF Serial, Distinct, Stored
<1>12. AllOpen'
  BY <1>2, <1>4, <1>9, StoredType DEF Serial, AllOpen, Stored
<1>13. \A f \in Execs : spec'[f] # None => f = e \/ \E m \in RuleNames : Stored(m)' = f
  BY <1>4, <1>9, <1>10, OthersOwn
<1>14. proc'[p] = g
  BY <1>4, <1>7, Sole DEF Serial
<1>15. Steady(p)'
  BY <1>2, <1>4, <1>7, <1>8, <1>9, <1>14 DEF Steady, Holds, Stored
<1>16. \A m \in RuleNames : Runs(m)' = Runs(m)
  BY <1>2, <1>4, <1>9, StoredType DEF Runs, Stored
<1>17. QED
  BY <1>3, <1>4, <1>7, <1>11, <1>12, <1>13, <1>15, <1>16, GoesOn

LEMMA WithoutStep ==
    ASSUME RulesTypeOK, Serial, NEW p \in Procs, StoreWithout(p)
    PROVE  Serial'
<1>1. PICK n, r, x : n = proc[p].name /\ r = proc[p].rule /\ x = proc[p].map
  OBVIOUS
<1>2. PICK e \in Execs : e = Current(p)
  BY SlotWithout
<1>3. Busy(p) /\ ~Holds(p) /\ n \in RuleNames
      /\ UNCHANGED <<wanted, reported, given, spec>>
  BY <1>1, Parts DEF StoreWithout, Busy, Holds
<1>4. r = None /\ (r = wanted[n] \/ n \in reported) /\ x = executors
  BY <1>1, <1>3 DEF Serial, Steady, StoreWithout
<1>5. e = Stored(n)
  BY <1>1, <1>2, <1>3, <1>4, LoadedIsStored DEF Current
<1>6. executors' = [Loaded(p) EXCEPT ![n] = None]
  BY <1>1 DEF StoreWithout
<1>7. /\ executors' # None
      /\ Stored(n)' = None
      /\ \A m \in RuleNames \ {n} : Stored(m)' = Stored(m)
  BY <1>1, <1>3, <1>4, <1>6, CopyStored
<1>8. PICK g : g = In("close", n, r, x, e)
  OBVIOUS
<1>9. Becomes(p, g) /\ g.at = "close" /\ g.name = n /\ g.rule = r /\ g.exec = e
  BY <1>1, <1>2, <1>8, SlotWithout DEF In
<1>10. proc'[p] = g
  BY <1>3, <1>9, Sole DEF Serial
<1>11. \A m \in RuleNames : Stored(m)' # e
  BY <1>3, <1>5, <1>7 DEF Serial, Distinct
<1>12. Distinct'
  <2>1. SUFFICES ASSUME NEW m \in RuleNames, NEW k \in RuleNames,
                        Stored(m)' # None, Stored(m)' = Stored(k)'
                 PROVE  m = k
    BY DEF Distinct
  <2>2. QED
    BY <1>7, <2>1 DEF Serial, Distinct
<1>13. AllOpen'
  <2>1. SUFFICES ASSUME NEW m \in RuleNames, Stored(m)' # None PROVE spec'[Stored(m)'] # None
    BY DEF AllOpen
  <2>2. QED
    BY <1>3, <1>7, <2>1 DEF Serial, AllOpen
<1>14. ASSUME NEW f \in Execs, spec'[f] # None PROVE f = e \/ \E m \in RuleNames : Stored(m)' = f
  <2>1. PICK m \in RuleNames : Stored(m) = f
    BY <1>3, <1>14, OthersOwn
  <2>2. QED
    BY <1>5, <1>7, <2>1
<1>15. Steady(p)'
  BY <1>3, <1>4, <1>7, <1>9, <1>10, <1>11 DEF Steady, Holds
<1>16. ASSUME NEW m \in RuleNames \ {n} PROVE Runs(m)' = Runs(m)
  BY <1>3, <1>7 DEF Runs, Stored
<1>17. QED
  BY <1>1, <1>3, <1>9, <1>12, <1>13, <1>14, <1>15, <1>16, GoesOn

\* A Handle starts when no other runs.
LEMMA BeginStep ==
    ASSUME RulesTypeOK, Serial, NEW p \in Procs, NEW n \in RuleNames, Begin(p, n), ~overlapped'
    PROVE  Serial'
<1>1. \A q \in Procs : proc[q].at = "idle"
  BY DEF Begin
<1>2. PICK g : g = In("get", n, None, None, None)
  OBVIOUS
<1>3. Becomes(p, g) /\ g.at = "get" /\ g.name = n
  BY <1>2, SlotBegin DEF In
<1>4. /\ proc'[p] = g
      /\ \A q \in Procs \ {p} : proc'[q] = proc[q]
  BY <1>3, ProcSets DEF Becomes
<1>5. UNCHANGED <<wanted, given, executors, spec>> /\ reported \ {n} \subseteq reported'
  BY DEF Begin, table
<1>6. Alone'
  BY <1>1, <1>4 DEF Alone, Busy
<1>7. Distinct' /\ AllOpen'
  BY <1>5 DEF Serial, Distinct, AllOpen, Stored
<1>8. Owned'
  BY <1>1, <1>5 DEF Serial, Owned, Holds, Stored
<1>9. \A q \in Procs : Steady(q)'
  BY <1>1, <1>3, <1>4 DEF Steady, Holds
<1>10. ASSUME NEW m \in RuleNames
       PROVE  \/ m \in reported'
              \/ \E q \in Procs : Busy(q)' /\ proc'[q].name = m
              \/ Runs(m)' = wanted'[m]
              \/ m \in given' /\ wanted'[m] \in Broken
  <2>1. CASE m = n
    BY <1>3, <1>4, <2>1 DEF Busy
  <2>2. CASE m # n
    <3>1. m \in reported \/ Runs(m) = wanted[m] \/ (m \in given /\ wanted[m] \in Broken)
      BY <1>1 DEF Serial, Served, Busy
    <3>2. Runs(m)' = Runs(m)
      BY <1>5 DEF Runs, Stored
    <3>3. QED
      BY <1>5, <2>2, <3>1, <3>2
  <2>3. QED
    BY <2>1, <2>2
<1>11. Served'
  BY <1>10 DEF Served
<1>12. QED
  BY <1>6, <1>7, <1>8, <1>9, <1>11 DEF Serial

\* The reflector's map changes; the keys that changed wait for a Handle.
LEMMA ChangeStep ==
    ASSUME RulesTypeOK, Serial, NEW ns \in SUBSET RuleNames, RulesReported(ns)
    PROVE  Serial'
<1>1. UNCHANGED <<executors, spec, proc>>
  BY DEF RulesReported, table
<1>2. /\ reported' = reported \cup ns
      /\ given' = given \ ns
      /\ \A n \in RuleNames \ ns : wanted'[n] = wanted[n]
  BY DEF RulesReported
<1>3. Alone' /\ Distinct' /\ AllOpen' /\ Owned'
  BY <1>1 DEF Serial, Alone, Distinct, AllOpen, Owned, Busy, Holds, Stored
<1>4. ASSUME NEW p \in Procs PROVE Steady(p)'
  <2>1. Steady(p)
    BY DEF Serial
  <2>2. proc[p].at # "idle" => proc[p].name \in RuleNames
    BY Parts DEF Busy
  <2>3. QED
    BY <1>1, <1>2, <2>1, <2>2 DEF Steady, Holds, Stored
<1>5. Served'
  BY <1>1, <1>2 DEF Serial, Served, Busy, Runs, Stored
<1>6. QED
  BY <1>3, <1>4, <1>5 DEF Serial

-----------------------------------------------------------------------------
\* A Handle that has overlapped another stays recorded.
LEMMA OverlappedStays == RulesTypeOK /\ [RulesNext]_rulesVars /\ overlapped => overlapped'
<1> SUFFICES ASSUME RulesTypeOK, [RulesNext]_rulesVars, overlapped PROVE overlapped'
  OBVIOUS
<1>1. ASSUME NEW ns \in SUBSET RuleNames, RulesReported(ns) PROVE overlapped'
  BY <1>1 DEF RulesReported
<1>2. ASSUME NEW p \in Procs, NEW n \in RuleNames, Begin(p, n) PROVE overlapped'
  BY <1>2 DEF Begin
<1>3. ASSUME NEW p \in Procs, Handle(p) PROVE overlapped'
  BY <1>3 DEF Handle, Get, Load, Build, BuildFails, StoreNew, Modify, ModifyFails,
              StoreWithout, CloseExecutor, NothingToDelete
<1>4. CASE UNCHANGED rulesVars
  BY <1>4 DEF rulesVars
<1>5. QED
  BY <1>1, <1>2, <1>3, <1>4 DEF RulesNext

LEMMA RulesIInvInit == RulesInit => RulesIInv
<1> SUFFICES ASSUME RulesInit PROVE RulesIInv
  OBVIOUS
<1>1. RulesTypeOK
  BY RulesTypeInit
<1>2. \A p \in Procs : proc[p].at = "idle"
  BY IdleOK DEF RulesInit
<1>3. \A n \in RuleNames : Stored(n) = None
  BY DEF RulesInit, Stored
<1>4. Alone /\ Distinct /\ AllOpen /\ \A p \in Procs : Steady(p)
  BY <1>2, <1>3 DEF Alone, Busy, Distinct, AllOpen, Steady, Holds
<1>5. Owned
  BY DEF RulesInit, Owned
<1>6. Served
  BY <1>3 DEF RulesInit, Served, Runs
<1>7. QED
  BY <1>1, <1>4, <1>5, <1>6 DEF RulesIInv, Serial

LEMMA RulesIInvStep == RulesIInv /\ [RulesNext]_rulesVars => RulesIInv'
<1> SUFFICES ASSUME RulesIInv, [RulesNext]_rulesVars PROVE RulesIInv'
  OBVIOUS
<1>1. RulesTypeOK /\ RulesTypeOK'
  BY RulesTypeStep DEF RulesIInv
<1>2. SUFFICES ASSUME ~overlapped' PROVE Serial'
  BY <1>1 DEF RulesIInv
<1>3. Serial
  BY <1>1, <1>2, OverlappedStays DEF RulesIInv
<1>4. ASSUME NEW ns \in SUBSET RuleNames, RulesReported(ns) PROVE Serial'
  BY <1>1, <1>3, <1>4, ChangeStep
<1>5. ASSUME NEW p \in Procs, NEW n \in RuleNames, Begin(p, n) PROVE Serial'
  BY <1>1, <1>2, <1>3, <1>5, BeginStep
<1>6. ASSUME NEW p \in Procs, Handle(p) PROVE Serial'
  BY <1>1, <1>3, <1>6, Reads, BuildStep, FailStep, StoreNewStep, ModifyStep, WithoutStep,
     CloseStep, NothingStep DEF Handle
<1>7. CASE UNCHANGED rulesVars
  BY <1>3, <1>7
  DEF rulesVars, table, Serial, Alone, Distinct, AllOpen, Owned, Steady, Served, Busy, Holds, Runs, Stored
<1>8. QED
  BY <1>4, <1>5, <1>6, <1>7 DEF RulesNext

LEMMA RulesInvariant == RulesSpec => []RulesIInv
  BY RulesIInvInit, RulesIInvStep, PTL DEF RulesSpec

\* For every instance: as long as the Handles of a bus do not overlap, when
\* they are done the bus runs exactly the reflector's rules, except for those
\* given up with a content that cannot be built, and no executor is left open
\* outside the map (updateRule and deleteRule of rule.go).
THEOREM SerialApply == RulesSpec => []SerialHandlesApply
<1>1. RulesIInv => SerialHandlesApply
  <2>1. SUFFICES ASSUME RulesIInv, AllHandled, ~overlapped
                 PROVE  /\ \A n \in RuleNames \ given : Running[n] = wanted[n]
                        /\ \A n \in given : wanted[n] \in Broken \cup {Running[n]}
                        /\ \A e \in Execs : spec[e] # None => \E n \in RuleNames : executors[n] = e
    BY DEF SerialHandlesApply
  <2>2. Serial /\ given \subseteq RuleNames
    BY <2>1 DEF RulesIInv, RulesTypeOK
  <2>3. \A n \in RuleNames : Running[n] = Runs(n)
    BY DEF Running, Runs, Stored
  <2>4. \A n \in RuleNames : Runs(n) = wanted[n] \/ (n \in given /\ wanted[n] \in Broken)
    BY <2>1, <2>2 DEF AllHandled, Serial, Served, Busy
  <2>5. \A e \in Execs : spec[e] # None => \E n \in RuleNames : Stored(n) = e
    BY <2>1, <2>2 DEF AllHandled, Serial, Owned, Holds
  <2>6. \A e \in Execs : spec[e] # None => \E n \in RuleNames : executors[n] = e
    BY <2>5 DEF Stored
  <2>7. QED
    BY <2>2, <2>3, <2>4, <2>6
<1>2. QED
  BY <1>1, RulesInvariant, PTL

\* For every instance: as long as the Handles of a bus do not overlap, the map
\* GetExecutors hands out refers to open executors only: deleteRule stores the
\* map without the rule before it closes the executor.
THEOREM OnlyOpenPublished == RulesSpec => []NoClosedPublished
<1>1. RulesIInv => NoClosedPublished
  BY DEF RulesIInv, Serial, AllOpen, Stored, NoClosedPublished
<1>2. QED
  BY <1>1, RulesInvariant, PTL

-----------------------------------------------------------------------------
(* The executors with the reflector.                                       *)

\* What Handle gets is what the reflector's map has.
Linked == \A n \in RuleNames : wanted[n] = GetRule(view, n)

\* A step of the job is one of its reflector or leaves the reflector alone.
LEMMA ReflectorStep ==
    ASSUME RuleNames \subseteq Names, [Next]_vars
    PROVE  [ReflectorNext]_reflectorVars
<1>1. ASSUME NEW n \in RuleNames, ApplyRule(n)
      PROVE  ReflectorNext
  BY <1>1 DEF ApplyRule, ReflectorNext, Watch
<1>2. CASE WatchReturnsRules
  BY <1>2 DEF WatchReturnsRules, ReflectorNext, Watch
<1>3. CASE ReflectorOnly
  BY <1>3 DEF ReflectorOnly, ReflectorNext, Watch
<1>4. CASE RulesOnly
  BY <1>4 DEF RulesOnly
<1>5. CASE UNCHANGED vars
  BY <1>5 DEF vars
<1>6. QED
  BY <1>1, <1>2, <1>3, <1>4, <1>5 DEF Next

\* A step of the job is one of Rules or leaves the executors alone.
LEMMA RulesStep ==
    ASSUME [Next]_vars
    PROVE  [RulesNext]_rulesVars
<1>1. ASSUME NEW n \in RuleNames, ApplyRule(n)
      PROVE  RulesNext
  BY <1>1 DEF ApplyRule, RulesNext
<1>2. CASE WatchReturnsRules
  <2>1. Found \in SUBSET RuleNames
    BY DEF Found
  <2>2. QED
    BY <1>2, <2>1 DEF WatchReturnsRules, RulesNext
<1>3. CASE ReflectorOnly
  BY <1>3 DEF ReflectorOnly
<1>4. CASE RulesOnly
  BY <1>4 DEF RulesOnly, RulesNext
<1>5. CASE UNCHANGED vars
  BY <1>5 DEF vars
<1>6. QED
  BY <1>1, <1>2, <1>3, <1>4, <1>5 DEF Next

LEMMA LinkedStep ==
    ASSUME RuleNames \subseteq Names, ReflectorTypeOK, RulesTypeOK, Linked, [Next]_vars
    PROVE  Linked'
<1>1. ASSUME NEW n \in RuleNames, ApplyRule(n)
      PROVE  Linked'
  <2>1. ASSUME NEW m \in RuleNames
        PROVE  wanted'[m] = GetRule(view', m)
    <3>1. CASE m = n
      BY <1>1, <3>1 DEF ApplyRule
    <3>2. CASE m # n
      <4>1. view'[m] = view[m]
        BY <1>1, <3>2 DEF ApplyRule, ApplyKey, ReflectorTypeOK, Content
      <4>2. wanted'[m] = wanted[m]
        BY <1>1, <3>2 DEF ApplyRule, RulesReported
      <4>3. QED
        BY <4>1, <4>2 DEF Linked, GetRule
    <3>3. QED
      BY <3>1, <3>2
  <2>2. QED
    BY <2>1 DEF Linked
<1>2. CASE WatchReturnsRules
  <2>1. view' = view /\ wanted' = wanted
    BY <1>2 DEF WatchReturnsRules, WatchReturns, rulesVars
  <2>2. QED
    BY <2>1 DEF Linked, GetRule
<1>3. CASE ReflectorOnly
  <2>1. wanted' = wanted
    BY <1>3 DEF ReflectorOnly, rulesVars
  <2>2. ASSUME NEW m \in RuleNames
        PROVE  view'[m] = view[m]
    <3>1. ASSUME NEW n \in Names \ RuleNames, ApplyKey(n)
          PROVE  view'[m] = view[m]
      BY <3>1 DEF ApplyKey, ReflectorTypeOK, Content
    <3>2. ASSUME Write
          PROVE  view' = view
      BY <3>2 DEF Write, CommitTogether, CommitRow, CommitBump, BumpFails, DropRows, watchVars
    <3>3. ASSUME ReadVersion \/ FetchPage \/ FetchLastPage \/ FetchFails
          PROVE  view' = view
      BY <3>3 DEF ReadVersion, FetchPage, FetchLastPage, FetchFails
    <3>4. QED
      BY <1>3, <3>1, <3>2, <3>3 DEF ReflectorOnly
  <2>3. QED
    BY <2>1, <2>2 DEF Linked, GetRule
<1>4. CASE RulesOnly
  <2>1. view' = view
    BY <1>4 DEF RulesOnly, reflectorVars, watchVars
  <2>2. wanted' = wanted
    BY <1>4 DEF RulesOnly, Handle, Begin, Get, Load, Build, BuildFails, StoreNew, Modify,
                ModifyFails, StoreWithout, CloseExecutor, NothingToDelete
  <2>3. QED
    BY <2>1, <2>2 DEF Linked, GetRule
<1>5. CASE UNCHANGED vars
  BY <1>5 DEF vars, reflectorVars, watchVars, rulesVars, Linked, GetRule
<1>6. QED
  BY <1>1, <1>2, <1>3, <1>4, <1>5 DEF Next

\* The job's rule reflector is a reflector: whatever module Reflector promises
\* of a Watch holds in the job (Watch).
THEOREM ImplementsReflector == RowsAreRules => (Spec => ReflectorSpec)
<1> SUFFICES ASSUME RuleNames \subseteq Names
             PROVE  Spec => ReflectorSpec
  BY DEF RowsAreRules
<1>1. Init => ReflectorInit
  BY DEF Init
<1>2. [Next]_vars => [ReflectorNext]_reflectorVars
  BY ReflectorStep
<1>3. QED
  BY <1>1, <1>2, PTL DEF Spec, ReflectorSpec

\* And its executors are those of module Rules: the environment that module
\* allows contains what the reflector does (Watch, Handle).
THEOREM ImplementsRules == RowsAreRules => (Spec => RulesSpec /\ []Linked)
<1> SUFFICES ASSUME RowsAreRules
             PROVE  Spec => RulesSpec /\ []Linked
  OBVIOUS
<1>0. RuleNames \subseteq Names
  BY DEF RowsAreRules
<1>1. Init => RulesInit /\ Linked
  BY <1>0 DEF Init, ReflectorInit, RulesInit, Linked, GetRule
<1>2. [Next]_vars => [RulesNext]_rulesVars
  BY RulesStep
<1>3. Spec => RulesSpec
  BY <1>1, <1>2, PTL DEF Spec, RulesSpec
<1>4. Spec => []ReflectorTypeOK
  BY ImplementsReflector, ReflectorTypeCorrect, PTL
<1>5. Spec => []RulesTypeOK
  BY <1>3, RulesTypeCorrect, PTL
<1>6. ReflectorTypeOK /\ RulesTypeOK /\ Linked /\ [Next]_vars => Linked'
  BY <1>0, LinkedStep
<1>7. QED
  BY <1>1, <1>3, <1>4, <1>5, <1>6, PTL DEF Spec

\* From the table to the executors, for every number of rules, rows, pages,
\* writers and goroutines: a reflector that has caught up and keys that are
\* handled, one at a time, mean that the bus runs exactly the rules of the
\* table, but for those given up with a content that cannot be built.
THEOREM TableRun == RowsAreRules => (Spec => []RunsTable)
<1> SUFFICES ASSUME RowsAreRules
             PROVE  Spec => []RunsTable
  OBVIOUS
<1>1. RulesTypeOK /\ CaughtUp /\ SerialHandlesApply /\ Linked => RunsTable
  <2> SUFFICES ASSUME RulesTypeOK, CaughtUp, SerialHandlesApply, Linked,
                      Quiet, ~missed, AllHandled, ~overlapped
               PROVE  /\ \A n \in RuleNames \ given :
                           Running[n] = IF Latest[n] = Absent THEN None ELSE Latest[n]
                      /\ \A n \in given :
                           Latest[n] \in Broken \/ Running[n] = GetRule(Latest, n)
                      /\ \A e \in Execs : spec[e] # None =>
                           \E n \in RuleNames : executors[n] = e
    BY DEF RunsTable
  <2>1. view = Latest
    BY DEF CaughtUp
  <2>2. \A n \in RuleNames : wanted[n] = GetRule(Latest, n)
    BY <2>1 DEF Linked
  <2>3. given \subseteq RuleNames
    BY DEF RulesTypeOK
  <2>4. /\ \A n \in RuleNames \ given : Running[n] = wanted[n]
        /\ \A n \in given : wanted[n] \in Broken \cup {Running[n]}
        /\ \A e \in Execs : spec[e] # None => \E n \in RuleNames : executors[n] = e
    BY DEF SerialHandlesApply
  <2>5. ASSUME NEW n \in given
        PROVE  Latest[n] \in Broken \/ Running[n] = GetRule(Latest, n)
    <3>1. wanted[n] = GetRule(Latest, n) /\ wanted[n] \in Broken \cup {Running[n]}
      BY <2>2, <2>3, <2>4
    <3>2. None \notin Broken
      BY DEF RulesAssumption
    <3>3. QED
      BY <3>1, <3>2 DEF GetRule
  <2>6. QED
    BY <2>2, <2>4, <2>5 DEF GetRule
<1>2. Spec => []RulesTypeOK /\ []SerialHandlesApply /\ []Linked
  BY ImplementsRules, RulesTypeCorrect, SerialApply, PTL
<1>3. Spec => []CaughtUp
  BY ImplementsReflector, WatchCatchesUp, PTL
<1>4. QED
  BY <1>1, <1>2, <1>3, PTL
=============================================================================
