-------------------------- MODULE ConfigStoreProofs -------------------------
(***************************************************************************)
(* The repositories implement module Configuration, for any buses, rules,  *)
(* targets, schemas and requests and any number of goroutines that serve   *)
(* them, whichever fail where. What a goroutine has read is still true     *)
(* when it commits, because of the lock it holds: the bus it locked is     *)
(* there (BusHeld), the targets it read are those of the rule (RuleHeld),  *)
(* and DeleteBus has seen every schema of the bus (AllSeen).               *)
(*                                                                         *)
(* And they are writers a reflector may have (module ConfigTable): what is *)
(* stored is what a Watch that has caught up with the version serves.      *)
(***************************************************************************)
EXTENDS ConfigTable, ReflectorProofs

AtBegin(r) == req[r] = None => at[r] = "begin"

BusHeld(r) ==
    req[r] # None /\ req[r].op \in LockingBus /\ at[r] # "begin" =>
        req[r].bus \in bus /\ busLock[req[r].bus] = r

RuleHeld(r) ==
    req[r] # None /\ req[r].op \in Targeted /\ at[r] # "begin" =>
        /\ rule[req[r].key] # None
        /\ ruleLock[req[r].key] = r
        /\ seen[r] = rule[req[r].key].targets

AllSeen(r) ==
    Serving(r, "DeleteBus", "queried") =>
        \A s \in Schemas : schema[s] = req[r].bus => s \in seen[r]

Held == \A r \in Reqs : AtBegin(r) /\ BusHeld(r) /\ RuleHeld(r) /\ AllSeen(r)

IInv == TypeOK /\ Held

USE ConfigStoreAssumption DEF ConfigStoreAssumption

-----------------------------------------------------------------------------
\* What the fields of a request are.
LEMMA Fields ==
    ASSUME NEW q \in Requests
    PROVE  /\ q # None
           /\ q.op \in LockingBus \cup {"CreateBus"} => q.bus \in BusNames
           /\ q.op \in Targeted \cup {"CreateRule", "UpdateRule", "DeleteRule"} =>
                q.key \in Keys
           /\ q.op \in Targeted => q.targets \subseteq Targets
           /\ q.op = "CreateRule" => q.row \in Rows /\ q.key[1] = q.bus
           /\ q.op = "UpdateRule" => q.spec \in Specs
           /\ q.op \in {"CreateSchema", "UpdateSchema"} => q.schema \in Schemas
           /\ q.op = "DeleteSchema" => q.schemas \subseteq Schemas
<1>1. q \in AllRequests /\ q # None
  OBVIOUS
<1>2. QED
  BY <1>1 DEF AllRequests, LockingBus, Targeted

\* The end of a request leaves the others what they hold.
LEMMA EndKeeps ==
    ASSUME ServiceOK, NEW r \in Reqs, End(r)
    PROVE  /\ ServiceOK'
           /\ req'[r] = None /\ at'[r] = "begin"
           /\ \A x \in Reqs \ {r} :
                /\ req'[x] = req[x] /\ at'[x] = at[x] /\ seen'[x] = seen[x]
                /\ \A b \in BusNames : busLock[b] = x => busLock'[b] = x
                /\ \A k \in Keys : ruleLock[k] = x => ruleLock'[k] = x
  BY DEF ServiceOK, End

-----------------------------------------------------------------------------
LEMMA InitInv == Init => IInv
<1> SUFFICES ASSUME Init PROVE IInv
  OBVIOUS
<1>1. TypeOK
  BY DEF Init, TypeOK, ConfigOK, ServiceOK, VersionsOK
<1>2. Held
  BY DEF Init, Held, AtBegin, BusHeld, RuleHeld, AllSeen, Serving
<1>3. QED
  BY <1>1, <1>2 DEF IInv

-----------------------------------------------------------------------------
(* Types.                                                                  *)

LEMMA VersionsStep ==
    ASSUME VersionsOK, NEW r \in Reqs, Receive(r) \/ Fail(r) \/ ServeBus(r) \/ ServeRule(r)
    PROVE  VersionsOK'
  BY DEF VersionsOK, Versions, VersionOf, Receive, Fail, ServeBus, ServeRule, LockBus,
         BusNotFound, CommitRule, RuleNameRepeat, QuerySchemas, CommitDeleteBus,
         WriteNewSchema, SourceTypeRepeat, WriteSchema, CommitLock, RemoveSchema,
         LockRule, RuleNotFound, CommitTargets, InsertBus, BusNameRepeat, WriteRule,
         CommitVersion, Raise, Announce, versionVars

\* A request goes on: none of its locks changes, or it takes a new one.
LEMMA GoKeeps ==
    ASSUME ServiceOK, NEW r \in Reqs, NEW place \in {"locked", "queried", "written"},
           Go(r, place), UNCHANGED <<seen, lockVars>>
    PROVE  ServiceOK'
  BY DEF ServiceOK, Go, lockVars

LEMMA ServiceStep ==
    ASSUME ConfigOK, ServiceOK, NEW r \in Reqs,
           Receive(r) \/ Fail(r) \/ ServeBus(r) \/ ServeRule(r)
    PROVE  ServiceOK'
<1>1. CASE End(r)
  BY <1>1, EndKeeps
<1>2. CASE Receive(r)
  BY <1>2 DEF Receive, ServiceOK, lockVars
<1>3. CASE LockBus(r)
  <2>1. req[r].bus \in BusNames
    BY <1>3, Fields DEF LockBus, ServiceOK
  <2>2. QED
    BY <1>3, <2>1 DEF LockBus, ServiceOK, Go
<1>4. CASE LockRule(r)
  <2>1. req[r] \in Requests /\ req[r].op \in Targeted
    BY <1>4 DEF LockRule, ServiceOK
  <2>2. req[r].key \in Keys
    BY <2>1, Fields
  <2>3. seen' \in [Reqs -> SUBSET (Targets \cup Schemas)]
    <3>1. rule[req[r].key].targets \subseteq Targets
      BY <1>4, <2>2 DEF LockRule, ConfigOK, Rows
    <3>2. QED
      BY <1>4, <3>1 DEF LockRule, ServiceOK
  <2>4. QED
    BY <1>4, <2>1, <2>2, <2>3 DEF LockRule, ServiceOK, Go
<1>5. CASE QuerySchemas(r)
  BY <1>5 DEF QuerySchemas, ServiceOK, Go, lockVars
<1>6. CASE WriteNewSchema(r) \/ WriteSchema(r) \/ InsertBus(r) \/ WriteRule(r)
  BY <1>6, GoKeeps DEF WriteNewSchema, WriteSchema, InsertBus, WriteRule
<1>7. QED
  BY <1>1, <1>2, <1>3, <1>4, <1>5, <1>6
  DEF Fail, ServeBus, ServeRule, BusNotFound, CommitRule, RuleNameRepeat, CommitDeleteBus,
      SourceTypeRepeat, CommitLock, RemoveSchema, RuleNotFound, CommitTargets,
      BusNameRepeat, CommitVersion

-----------------------------------------------------------------------------
(* The promise.                                                            *)

\* What module Configuration does keeps its types, and no row loses its bus.
LEMMA PromiseStep ==
    ASSUME ConfigOK, [Promise!Next]_config
    PROVE  ConfigOK' /\ (NoOrphans => NoOrphans')
<1>1. CASE UNCHANGED config
  BY <1>1 DEF config, ConfigOK, NoOrphans, Promise!NoOrphans, Promise!Keys
<1>2. ASSUME NEW b \in BusNames, Promise!CreateBus(b) \/ Promise!DeleteBus(b)
      PROVE  ConfigOK' /\ (NoOrphans => NoOrphans')
  BY <1>2 DEF Promise!CreateBus, Promise!DeleteBus, ConfigOK, NoOrphans,
              Promise!NoOrphans, Promise!Keys, Keys
<1>3. ASSUME NEW k \in Keys, NEW row \in Rows, Promise!CreateRule(k, row)
      PROVE  ConfigOK' /\ (NoOrphans => NoOrphans')
  BY <1>3 DEF Promise!CreateRule, ConfigOK, NoOrphans, Promise!NoOrphans,
              Promise!Keys, Keys
<1>4. ASSUME NEW k \in Keys, rule[k] # None, NEW row \in Rows \cup {None},
             rule' = [rule EXCEPT ![k] = row], UNCHANGED <<bus, schema>>
      PROVE  ConfigOK' /\ (NoOrphans => NoOrphans')
  BY <1>4 DEF ConfigOK, NoOrphans, Promise!NoOrphans, Promise!Keys, Keys
<1>5. ASSUME NEW k \in Keys, NEW spec \in Specs, Promise!UpdateRule(k, spec)
      PROVE  ConfigOK' /\ (NoOrphans => NoOrphans')
  <2>1. /\ [rule[k] EXCEPT !.spec = spec] \in Rows
        /\ rule' = [rule EXCEPT ![k] = [rule[k] EXCEPT !.spec = spec]]
    BY <1>5 DEF Promise!UpdateRule, ConfigOK, Rows
  <2>2. QED
    BY <1>4, <1>5, <2>1 DEF Promise!UpdateRule
<1>6. ASSUME NEW k \in Keys, Promise!DeleteRule(k)
      PROVE  ConfigOK' /\ (NoOrphans => NoOrphans')
  BY <1>4, <1>6 DEF Promise!DeleteRule
<1>7. ASSUME NEW k \in Keys, NEW ts \in SUBSET Targets,
             Promise!CreateTargets(k, ts) \/ Promise!DeleteTargets(k, ts)
      PROVE  ConfigOK' /\ (NoOrphans => NoOrphans')
  <2>1. PICK new \in SUBSET Targets : rule' = [rule EXCEPT ![k].targets = new]
    <3>1. rule[k].targets \in SUBSET Targets
      BY <1>7 DEF Promise!CreateTargets, Promise!DeleteTargets, ConfigOK, Rows
    <3>2. QED
      BY <1>7, <3>1 DEF Promise!CreateTargets, Promise!DeleteTargets
  <2>2. /\ [rule[k] EXCEPT !.targets = new] \in Rows
        /\ rule' = [rule EXCEPT ![k] = [rule[k] EXCEPT !.targets = new]]
    BY <1>7, <2>1 DEF Promise!CreateTargets, Promise!DeleteTargets, ConfigOK, Rows
  <2>3. QED
    BY <1>4, <1>7, <2>2 DEF Promise!CreateTargets, Promise!DeleteTargets
<1>8. ASSUME NEW s \in Schemas, NEW b \in BusNames,
             Promise!CreateSchema(s, b) \/ Promise!UpdateSchema(s, b)
      PROVE  ConfigOK' /\ (NoOrphans => NoOrphans')
  BY <1>8 DEF Promise!CreateSchema, Promise!UpdateSchema, ConfigOK, NoOrphans,
              Promise!NoOrphans, Promise!Keys, Keys
<1>9. ASSUME NEW ss \in SUBSET Schemas, Promise!DeleteSchemas(ss)
      PROVE  ConfigOK' /\ (NoOrphans => NoOrphans')
  BY <1>9 DEF Promise!DeleteSchemas, ConfigOK, NoOrphans, Promise!NoOrphans,
              Promise!Keys, Keys
<1>10. QED
  BY <1>1, <1>2, <1>3, <1>5, <1>6, <1>7, <1>8, <1>9
  DEF Promise!Next, Promise!Keys, Promise!Rows, Keys, Rows

\* Every step is one of module Configuration, or changes nothing of it.
LEMMA Implements ==
    ASSUME IInv, NEW r \in Reqs, Receive(r) \/ Fail(r) \/ ServeBus(r) \/ ServeRule(r)
    PROVE  [Promise!Next]_config
<1> USE DEF Promise!Keys, Promise!Rows, Promise!config
<1>1. /\ ConfigOK /\ ServiceOK
      /\ AtBegin(r) /\ BusHeld(r) /\ RuleHeld(r) /\ AllSeen(r)
  BY DEF IInv, TypeOK, Held
<1>2. CASE CommitRule(r)
  <2>1. req[r] \in Requests /\ req[r].op = "CreateRule"
    BY <1>1, <1>2 DEF CommitRule, Serving, ServiceOK
  <2>2. req[r].key \in Keys /\ req[r].row \in Rows /\ req[r].key[1] \in bus
    BY <1>1, <1>2, <2>1, Fields DEF CommitRule, Serving, BusHeld, LockingBus
  <2>3. Promise!CreateRule(req[r].key, req[r].row)
    BY <1>2, <2>2 DEF CommitRule, Promise!CreateRule
  <2>4. QED
    BY <2>2, <2>3 DEF Promise!Next, Keys, Rows
<1>3. CASE CommitDeleteBus(r)
  <2>1. req[r] \in Requests /\ req[r].op = "DeleteBus"
    BY <1>1, <1>3 DEF CommitDeleteBus, Serving, ServiceOK
  <2>2. req[r].bus \in BusNames /\ req[r].bus \in bus
    BY <1>1, <1>3, <2>1, Fields DEF CommitDeleteBus, Serving, BusHeld, LockingBus
  <2>3. schema' = [s \in Schemas |-> IF schema[s] = req[r].bus THEN NoBus ELSE schema[s]]
    BY <1>1, <1>3 DEF CommitDeleteBus, DropBus, AllSeen
  <2>4. Promise!DeleteBus(req[r].bus)
    BY <1>3, <2>2, <2>3 DEF CommitDeleteBus, Promise!DeleteBus, Keys
  <2>5. QED
    BY <2>2, <2>4 DEF Promise!Next
<1>4. CASE WriteNewSchema(r)
  <2>1. req[r] \in Requests /\ req[r].op = "CreateSchema"
    BY <1>1, <1>4 DEF WriteNewSchema, Serving, ServiceOK
  <2>2. /\ req[r].schema \in Schemas
        /\ req[r].bus \in BusNames /\ req[r].bus \in bus
    BY <1>1, <1>4, <2>1, Fields DEF WriteNewSchema, Serving, BusHeld, LockingBus
  <2>3. Promise!CreateSchema(req[r].schema, req[r].bus)
    BY <1>4, <2>2 DEF WriteNewSchema, Promise!CreateSchema
  <2>4. QED
    BY <2>2, <2>3 DEF Promise!Next
<1>5. CASE WriteSchema(r)
  <2>1. req[r] \in Requests /\ req[r].op = "UpdateSchema"
    BY <1>1, <1>5 DEF WriteSchema, Serving, ServiceOK
  <2>2. /\ req[r].schema \in Schemas
        /\ req[r].bus \in BusNames /\ req[r].bus \in bus
    BY <1>1, <1>5, <2>1, Fields DEF WriteSchema, Serving, BusHeld, LockingBus
  <2>3. CASE schema[req[r].schema] = None
    BY <1>1, <1>5, <2>2, <2>3 DEF WriteSchema, ConfigOK, config
  <2>4. CASE schema[req[r].schema] # None
    <3>1. Promise!UpdateSchema(req[r].schema, req[r].bus)
      BY <1>1, <1>5, <2>2, <2>4 DEF WriteSchema, ConfigOK, Promise!UpdateSchema
    <3>2. QED
      BY <2>2, <3>1 DEF Promise!Next
  <2>5. QED
    BY <2>3, <2>4
<1>6. CASE RemoveSchema(r)
  <2>1. req[r] \in Requests /\ req[r].op = "DeleteSchema"
    BY <1>1, <1>6 DEF RemoveSchema, Serving, ServiceOK
  <2>2. req[r].schemas \subseteq Schemas /\ Promise!DeleteSchemas(req[r].schemas)
    BY <1>6, <2>1, Fields DEF RemoveSchema, Promise!DeleteSchemas
  <2>3. QED
    BY <2>2 DEF Promise!Next
<1>7. CASE CommitTargets(r)
  <2>1. req[r] \in Requests /\ req[r].op \in Targeted
    BY <1>1, <1>7 DEF CommitTargets, ServiceOK
  <2>2. /\ req[r].key \in Keys /\ req[r].targets \in SUBSET Targets
        /\ rule[req[r].key] # None /\ seen[r] = rule[req[r].key].targets
    BY <1>1, <1>7, <2>1, Fields DEF CommitTargets, RuleHeld
  <2>3. CASE req[r].op = "CreateTargets"
    <3>1. Promise!CreateTargets(req[r].key, req[r].targets)
      BY <1>1, <1>7, <2>2, <2>3 DEF CommitTargets, Promise!CreateTargets, ConfigOK
    <3>2. QED
      BY <2>2, <3>1 DEF Promise!Next, Keys
  <2>4. CASE req[r].op = "DeleteTargets"
    <3>1. Promise!DeleteTargets(req[r].key, req[r].targets)
      BY <1>1, <1>7, <2>2, <2>4 DEF CommitTargets, Promise!DeleteTargets, ConfigOK
    <3>2. QED
      BY <2>2, <3>1 DEF Promise!Next, Keys
  <2>5. QED
    BY <2>1, <2>3, <2>4 DEF Targeted
<1>8. CASE InsertBus(r)
  <2>1. req[r] \in Requests /\ req[r].op = "CreateBus"
    BY <1>1, <1>8 DEF InsertBus, Serving, ServiceOK
  <2>2. req[r].bus \in BusNames /\ Promise!CreateBus(req[r].bus)
    BY <1>8, <2>1, Fields DEF InsertBus, Promise!CreateBus
  <2>3. QED
    BY <2>2 DEF Promise!Next
<1>9. CASE WriteRule(r)
  <2>1. req[r] \in Requests /\ req[r].op \in {"UpdateRule", "DeleteRule"}
    BY <1>1, <1>9 DEF WriteRule, ServiceOK
  <2>2. req[r].key \in Keys
    BY <2>1, Fields
  <2>3. CASE req[r].op = "UpdateRule"
    <3>1. req[r].spec \in Specs /\ Promise!UpdateRule(req[r].key, req[r].spec)
      BY <1>9, <2>1, <2>3, Fields DEF WriteRule, Promise!UpdateRule
    <3>2. QED
      BY <2>2, <3>1 DEF Promise!Next, Keys
  <2>4. CASE req[r].op = "DeleteRule"
    <3>1. Promise!DeleteRule(req[r].key)
      BY <1>9, <2>4 DEF WriteRule, Promise!DeleteRule
    <3>2. QED
      BY <2>2, <3>1 DEF Promise!Next, Keys
  <2>5. QED
    BY <2>1, <2>3, <2>4
<1>10. QED
  BY <1>2, <1>3, <1>4, <1>5, <1>6, <1>7, <1>8, <1>9
  DEF Receive, Fail, ServeBus, ServeRule, LockBus, BusNotFound, RuleNameRepeat,
      QuerySchemas, SourceTypeRepeat, CommitLock, LockRule, RuleNotFound,
      BusNameRepeat, CommitVersion, config

-----------------------------------------------------------------------------
(* What the locks hold.                                                    *)

\* A goroutine that is not the one that moves keeps what it holds, if its
\* bus, its rule and the schemas of its bus are left alone.
LEMMA OthersKeep ==
    ASSUME ServiceOK, NEW x \in Reqs,
           AtBegin(x), BusHeld(x), RuleHeld(x), AllSeen(x),
           req'[x] = req[x], at'[x] = at[x], seen'[x] = seen[x],
           \A b \in BusNames : busLock[b] = x =>
               /\ busLock'[b] = x
               /\ b \in bus => b \in bus'
               /\ \A s \in Schemas : schema'[s] = b => schema[s] = b,
           \A k \in Keys : ruleLock[k] = x => ruleLock'[k] = x /\ rule'[k] = rule[k]
    PROVE  AtBegin(x)' /\ BusHeld(x)' /\ RuleHeld(x)' /\ AllSeen(x)'
<1>1. req[x] # None => req[x] \in Requests
  BY DEF ServiceOK
<1>2. AtBegin(x)'
  BY DEF AtBegin
<1>3. BusHeld(x)'
  BY <1>1, Fields DEF BusHeld
<1>4. RuleHeld(x)'
  BY <1>1, Fields DEF RuleHeld
<1>5. AllSeen(x)'
  <2>1. SUFFICES ASSUME Serving(x, "DeleteBus", "queried"), NEW s \in Schemas,
                        schema'[s] = req[x].bus
                 PROVE  s \in seen[x]
    BY DEF AllSeen, Serving
  <2>2. req[x].bus \in BusNames /\ busLock[req[x].bus] = x
    BY <1>1, <2>1, Fields DEF Serving, BusHeld, LockingBus
  <2>3. QED
    BY <2>1, <2>2 DEF AllSeen
<1>6. QED
  BY <1>2, <1>3, <1>4, <1>5

\* A request that ends holds nothing.
LEMMA EndHeld ==
    ASSUME IInv, NEW r \in Reqs, End(r),
           \A x \in Reqs \ {r} :
             /\ \A b \in BusNames : busLock[b] = x =>
                  /\ b \in bus => b \in bus'
                  /\ \A s \in Schemas : schema'[s] = b => schema[s] = b
             /\ \A k \in Keys : ruleLock[k] = x => rule'[k] = rule[k]
    PROVE  Held'
<1>1. ServiceOK
  BY DEF IInv, TypeOK
<1>2. AtBegin(r)' /\ BusHeld(r)' /\ RuleHeld(r)' /\ AllSeen(r)'
  BY <1>1, EndKeeps DEF AtBegin, BusHeld, RuleHeld, AllSeen, Serving
<1>3. ASSUME NEW x \in Reqs \ {r}
      PROVE  AtBegin(x)' /\ BusHeld(x)' /\ RuleHeld(x)' /\ AllSeen(x)'
  BY <1>1, EndKeeps, OthersKeep DEF IInv, Held
<1>4. QED
  BY <1>2, <1>3 DEF Held

LEMMA HeldStep ==
    ASSUME IInv, NEW r \in Reqs, Receive(r) \/ Fail(r) \/ ServeBus(r) \/ ServeRule(r)
    PROVE  Held'
<1>1. /\ ConfigOK /\ ServiceOK
      /\ \A x \in Reqs : AtBegin(x) /\ BusHeld(x) /\ RuleHeld(x) /\ AllSeen(x)
  BY DEF IInv, TypeOK, Held
<1>2. CASE Receive(r)
  <2>1. ASSUME NEW x \in Reqs \ {r}
        PROVE  AtBegin(x)' /\ BusHeld(x)' /\ RuleHeld(x)' /\ AllSeen(x)'
    BY <1>1, <1>2, OthersKeep DEF Receive, ServiceOK, config, lockVars
  <2>2. AtBegin(r)' /\ BusHeld(r)' /\ RuleHeld(r)' /\ AllSeen(r)'
    BY <1>1, <1>2 DEF Receive, ServiceOK, AtBegin, BusHeld, RuleHeld, AllSeen, Serving
  <2>3. QED
    BY <2>1, <2>2 DEF Held
<1>3. CASE LockBus(r)
  <2>1. ASSUME NEW x \in Reqs \ {r}
        PROVE  AtBegin(x)' /\ BusHeld(x)' /\ RuleHeld(x)' /\ AllSeen(x)'
    BY <1>1, <1>3, OthersKeep DEF LockBus, Go, ServiceOK, config
  <2>2. req[r] \in Requests /\ req[r].bus \in BusNames
    BY <1>1, <1>3, Fields DEF LockBus, ServiceOK
  <2>3. AtBegin(r)' /\ BusHeld(r)' /\ RuleHeld(r)' /\ AllSeen(r)'
    BY <1>1, <1>3, <2>2 DEF LockBus, Go, ServiceOK, config, LockingBus, Targeted,
       AtBegin, BusHeld, RuleHeld, AllSeen, Serving
  <2>4. QED
    BY <2>1, <2>3 DEF Held
<1>4. CASE QuerySchemas(r)
  <2>1. ASSUME NEW x \in Reqs \ {r}
        PROVE  AtBegin(x)' /\ BusHeld(x)' /\ RuleHeld(x)' /\ AllSeen(x)'
    BY <1>1, <1>4, OthersKeep DEF QuerySchemas, Go, ServiceOK, config, lockVars
  <2>2. AtBegin(r)' /\ BusHeld(r)' /\ RuleHeld(r)' /\ AllSeen(r)'
    BY <1>1, <1>4 DEF QuerySchemas, Go, ServiceOK, config, lockVars, Targeted,
       AtBegin, BusHeld, RuleHeld, AllSeen, Serving
  <2>3. QED
    BY <2>1, <2>2 DEF Held
<1>5. CASE LockRule(r)
  <2>1. ASSUME NEW x \in Reqs \ {r}
        PROVE  AtBegin(x)' /\ BusHeld(x)' /\ RuleHeld(x)' /\ AllSeen(x)'
    BY <1>1, <1>5, OthersKeep DEF LockRule, Go, ServiceOK, config
  <2>2. req[r] \in Requests /\ req[r].op \in Targeted
    BY <1>1, <1>5 DEF LockRule, ServiceOK
  <2>3. req[r].key \in Keys
    BY <2>2, Fields
  <2>4. AtBegin(r)' /\ BusHeld(r)' /\ RuleHeld(r)' /\ AllSeen(r)'
    BY <1>1, <1>5, <2>2, <2>3 DEF LockRule, Go, ServiceOK, config, LockingBus, Targeted,
       AtBegin, BusHeld, RuleHeld, AllSeen, Serving
  <2>5. QED
    BY <2>1, <2>4 DEF Held
<1>6. CASE WriteNewSchema(r) \/ WriteSchema(r)
  <2>1. req[r] \in Requests /\ req[r].op \in {"CreateSchema", "UpdateSchema"}
    BY <1>1, <1>6 DEF WriteNewSchema, WriteSchema, Serving, ServiceOK
  <2>2. req[r].bus \in BusNames /\ req[r].schema \in Schemas
    BY <2>1, Fields DEF LockingBus
  <2>3. busLock[req[r].bus] = r
    BY <1>1, <1>6, <2>1 DEF WriteNewSchema, WriteSchema, Serving, BusHeld, LockingBus
  <2>4. \A s \in Schemas, b \in BusNames :
            schema'[s] = b => schema[s] = b \/ b = req[r].bus
    BY <1>1, <1>6, <2>2 DEF WriteNewSchema, WriteSchema, ConfigOK
  <2>5. ASSUME NEW x \in Reqs \ {r}
        PROVE  AtBegin(x)' /\ BusHeld(x)' /\ RuleHeld(x)' /\ AllSeen(x)'
    BY <1>1, <1>6, <2>3, <2>4, OthersKeep
    DEF WriteNewSchema, WriteSchema, Go, ServiceOK, lockVars
  <2>6. AtBegin(r)' /\ BusHeld(r)' /\ RuleHeld(r)' /\ AllSeen(r)'
    BY <1>1, <1>6, <2>1 DEF WriteNewSchema, WriteSchema, Go, ServiceOK, lockVars,
       Targeted, AtBegin, BusHeld, RuleHeld, AllSeen, Serving
  <2>7. QED
    BY <2>5, <2>6 DEF Held
<1>7. CASE InsertBus(r)
  <2>1. ASSUME NEW x \in Reqs \ {r}
        PROVE  AtBegin(x)' /\ BusHeld(x)' /\ RuleHeld(x)' /\ AllSeen(x)'
    BY <1>1, <1>7, OthersKeep DEF InsertBus, Go, ServiceOK, lockVars
  <2>2. AtBegin(r)' /\ BusHeld(r)' /\ RuleHeld(r)' /\ AllSeen(r)'
    BY <1>1, <1>7 DEF InsertBus, Go, ServiceOK, lockVars, Targeted, LockingBus,
       AtBegin, BusHeld, RuleHeld, AllSeen, Serving
  <2>3. QED
    BY <2>1, <2>2 DEF Held
<1>8. CASE WriteRule(r)
  <2>1. req[r] \in Requests /\ req[r].op \in {"UpdateRule", "DeleteRule"}
    BY <1>1, <1>8 DEF WriteRule, ServiceOK
  <2>2. req[r].key \in Keys /\ ruleLock[req[r].key] = None
    BY <1>8, <2>1, Fields DEF WriteRule
  <2>3. \A k \in Keys : k # req[r].key => rule'[k] = rule[k]
    BY <1>1, <1>8, <2>2 DEF WriteRule, ConfigOK
  <2>4. ASSUME NEW x \in Reqs \ {r}
        PROVE  AtBegin(x)' /\ BusHeld(x)' /\ RuleHeld(x)' /\ AllSeen(x)'
    BY <1>1, <1>8, <2>2, <2>3, OthersKeep DEF WriteRule, Go, ServiceOK, lockVars
  <2>5. AtBegin(r)' /\ BusHeld(r)' /\ RuleHeld(r)' /\ AllSeen(r)'
    BY <1>1, <1>8, <2>1 DEF WriteRule, Go, ServiceOK, lockVars, Targeted, LockingBus,
       AtBegin, BusHeld, RuleHeld, AllSeen, Serving
  <2>6. QED
    BY <2>4, <2>5 DEF Held
<1>9. CASE CommitRule(r)
  <2>1. req[r] \in Requests /\ req[r].op = "CreateRule"
    BY <1>1, <1>9 DEF CommitRule, Serving, ServiceOK
  <2>2. req[r].key \in Keys /\ rule[req[r].key] = None
    BY <1>9, <2>1, Fields DEF CommitRule
  <2>3. \A k \in Keys : k # req[r].key => rule'[k] = rule[k]
    BY <1>1, <1>9, <2>2 DEF CommitRule, ConfigOK
  <2>4. \A x \in Reqs : ruleLock[req[r].key] # x
    BY <1>1, <2>2 DEF RuleHeld, ServiceOK
  <2>5. QED
    BY <1>9, <2>3, <2>4, EndHeld DEF CommitRule
<1>10. CASE CommitDeleteBus(r)
  <2>1. req[r] \in Requests /\ req[r].op = "DeleteBus"
    BY <1>1, <1>10 DEF CommitDeleteBus, Serving, ServiceOK
  <2>2. req[r].bus \in BusNames /\ busLock[req[r].bus] = r
    BY <1>1, <1>10, <2>1, Fields DEF CommitDeleteBus, Serving, BusHeld, LockingBus
  <2>3. \A x \in Reqs \ {r}, b \in BusNames : busLock[b] = x => b # req[r].bus
    BY <2>2
  <2>4. \A s \in Schemas, b \in BusNames : schema'[s] = b => schema[s] = b
    BY <1>1, <1>10 DEF CommitDeleteBus, DropBus, ConfigOK
  <2>5. \A x \in Reqs, k \in Keys : ruleLock[k] = x => rule'[k] = rule[k]
    BY <1>1, <1>10 DEF CommitDeleteBus
  <2>6. QED
    BY <1>10, <2>3, <2>4, <2>5, EndHeld DEF CommitDeleteBus
<1>11. CASE RemoveSchema(r)
  <2>1. req[r] \in Requests /\ req[r].op = "DeleteSchema"
    BY <1>1, <1>11 DEF RemoveSchema, Serving, ServiceOK
  <2>2. \A s \in Schemas, b \in BusNames : schema'[s] = b => schema[s] = b
    BY <1>1, <1>11, <2>1, Fields DEF RemoveSchema, ConfigOK
  <2>3. QED
    BY <1>11, <2>2, EndHeld DEF RemoveSchema
<1>12. CASE CommitTargets(r)
  <2>1. req[r] \in Requests /\ req[r].op \in Targeted
    BY <1>1, <1>12 DEF CommitTargets, ServiceOK
  <2>2. req[r].key \in Keys /\ ruleLock[req[r].key] = r
    BY <1>1, <1>12, <2>1, Fields DEF CommitTargets, RuleHeld
  <2>3. \A k \in Keys : k # req[r].key => rule'[k] = rule[k]
    BY <1>1, <1>12, <2>2 DEF CommitTargets, ConfigOK
  <2>4. QED
    BY <1>12, <2>2, <2>3, EndHeld DEF CommitTargets
<1>13. CASE End(r) /\ UNCHANGED config
  BY <1>13, EndHeld DEF config
<1>14. QED
  BY <1>2, <1>3, <1>4, <1>5, <1>6, <1>7, <1>8, <1>9, <1>10, <1>11, <1>12, <1>13
  DEF Fail, ServeBus, ServeRule, BusNotFound, RuleNameRepeat, SourceTypeRepeat,
      CommitLock, RuleNotFound, BusNameRepeat, CommitVersion

LEMMA Inductive == IInv /\ [Next]_vars => IInv' /\ [Promise!Next]_config
<1> SUFFICES ASSUME IInv, [Next]_vars
             PROVE  IInv' /\ [Promise!Next]_config
  OBVIOUS
<1>1. CASE UNCHANGED vars
  BY <1>1 DEF vars, config, lockVars, versionVars, IInv, TypeOK, ConfigOK, ServiceOK,
     VersionsOK, Held, AtBegin, BusHeld, RuleHeld, AllSeen, Serving, Promise!config
<1>2. CASE Next
  <2>1. PICK r \in Reqs : Receive(r) \/ Fail(r) \/ ServeBus(r) \/ ServeRule(r)
    BY <1>2 DEF Next
  <2>2. [Promise!Next]_config
    BY <2>1, Implements
  <2>3. ConfigOK' /\ ServiceOK' /\ VersionsOK'
    BY <2>1, <2>2, PromiseStep, ServiceStep, VersionsStep DEF IInv, TypeOK
  <2>4. Held'
    BY <2>1, HeldStep
  <2>5. QED
    BY <2>2, <2>3, <2>4 DEF IInv, TypeOK
<1>3. QED
  BY <1>1, <1>2

-----------------------------------------------------------------------------
\* Every reachable state is well typed, and a row is locked only by a request
\* under way that has to lock it (ForUpdate, and the rollback of WithTx).
THEOREM TypeCorrect == Spec => []TypeOK
<1>1. IInv => TypeOK
  BY DEF IInv
<1>2. QED
  BY <1>1, InitInv, Inductive, PTL DEF Spec

\* The repositories implement module Configuration: every request takes effect
\* at one moment and as a whole, whatever runs beside it and fails.
THEOREM ImplementsPromise == Spec => Atomic
<1>1. Init => Promise!Init
  BY DEF Init, Promise!Init, Keys, Promise!Keys
<1>2. QED
  BY <1>1, InitInv, Inductive, PTL DEF Spec, Atomic, Promise!Spec, config, Promise!config

\* No rule and no schema names a bus that is not there.
THEOREM NothingOrphaned == Spec => []NoOrphans
<1>1. Init => NoOrphans
  BY DEF Init, NoOrphans, Promise!NoOrphans, Promise!Keys, Keys
<1>2. IInv /\ NoOrphans /\ [Next]_vars => NoOrphans'
  BY Inductive, PromiseStep DEF IInv, TypeOK
<1>3. QED
  BY <1>1, <1>2, InitInv, Inductive, PTL DEF Spec

-----------------------------------------------------------------------------
(* Announcements. Announced is inductive with the types: the goroutine that *)
(* committed a row raises the version, or fails.                           *)

\* What a goroutine owes it still owes after a step of another.
LEMMA OthersOwe ==
    ASSUME Announced, NEW r \in Reqs,
           \A x \in Reqs \ {r} : req'[x] = req[x] /\ at'[x] = at[x],
           NEW v \in unannounced
    PROVE  \/ Owed(v)'
           \/ v \in failed
           \/ v = "rules" /\ removed
           \/ /\ req[r] # None /\ at[r] = "written"
              /\ req[r].op \in WritingApart /\ VersionOf(req[r].op) = v
  BY DEF Announced, Owed

\* A request that owes no bump comes, goes on or ends.
LEMMA QuietAnnounced ==
    ASSUME Announced, NEW r \in Reqs,
           \A x \in Reqs \ {r} : req'[x] = req[x] /\ at'[x] = at[x],
           ~(req[r] # None /\ at[r] = "written" /\ req[r].op \in WritingApart),
           UNCHANGED versionVars
    PROVE  Announced'
  BY OthersOwe DEF Announced, versionVars

\* The version is raised and the request ends.
LEMMA RaiseAnnounced ==
    ASSUME Announced, ServiceOK, NEW r \in Reqs, req[r] # None, Raise(r), End(r)
    PROVE  Announced'
<1>1. SUFFICES ASSUME NEW v \in unannounced, v # VersionOf(req[r].op)
               PROVE  Owed(v)' \/ v \in failed' \/ (v = "rules" /\ removed')
  BY DEF Announced, Raise
<1>2. /\ v \in failed => v \in failed'
      /\ v = "rules" /\ removed => removed'
  BY <1>1 DEF Raise, VersionOf
<1>3. QED
  BY <1>1, <1>2, EndKeeps, OthersOwe

\* A row is written apart: the goroutine owes its bump.
LEMMA WriteAnnounced ==
    ASSUME Announced, ServiceOK, NEW r \in Reqs, req[r] # None, at[r] = "begin",
           req[r].op \in WritingApart, Go(r, "written"),
           NEW w, w = VersionOf(req[r].op), Announce(w)
    PROVE  Announced'
<1>1. \A x \in Reqs \ {r} : req'[x] = req[x] /\ at'[x] = at[x]
  BY DEF Go, ServiceOK
<1>2. Owed(w)'
  BY DEF Owed, Go, ServiceOK
<1>3. ASSUME NEW v \in unannounced
      PROVE  Owed(v)' \/ v \in failed' \/ (v = "rules" /\ removed')
  <2>1. Owed(v)' \/ v \in failed \/ (v = "rules" /\ removed)
    BY <1>1, OthersOwe
  <2>2. QED
    BY <2>1 DEF Announce
<1>4. unannounced' = unannounced \cup {w}
  BY DEF Announce
<1>5. QED
  BY <1>2, <1>3, <1>4 DEF Announced

LEMMA AnnouncedStep ==
    ASSUME Announced, ServiceOK, NEW r \in Reqs,
           Receive(r) \/ Fail(r) \/ ServeBus(r) \/ ServeRule(r)
    PROVE  Announced'
<1> DEFINE Writing == req[r] # None /\ at[r] = "written" /\ req[r].op \in WritingApart
<1>1. End(r) \/ Receive(r) \/ (\E place \in {"locked", "queried", "written"} : Go(r, place))
        => \A x \in Reqs \ {r} : req'[x] = req[x] /\ at'[x] = at[x]
  BY EndKeeps DEF Receive, Go, ServiceOK
<1>2. CASE Receive(r)
  BY <1>1, <1>2, QuietAnnounced DEF Receive
<1>3. CASE Fail(r)
  <2>1. \A x \in Reqs \ {r} : req'[x] = req[x] /\ at'[x] = at[x]
    BY <1>1, <1>3 DEF Fail
  <2>2. QED
    BY <1>3, <2>1, OthersOwe DEF Fail, Announced
<1>4. CASE CommitRule(r) \/ CommitTargets(r) \/ CommitVersion(r)
  BY <1>4, RaiseAnnounced
  DEF CommitRule, CommitTargets, CommitVersion, Serving, WritingApart
<1>5. CASE InsertBus(r)
  BY <1>5, WriteAnnounced DEF InsertBus, Serving, WritingApart, VersionOf
<1>6. CASE WriteRule(r)
  BY <1>6, WriteAnnounced DEF WriteRule, WritingApart, VersionOf
<1>7. CASE CommitDeleteBus(r)
  <2>1. \A x \in Reqs \ {r} : req'[x] = req[x] /\ at'[x] = at[x]
    BY <1>1, <1>7 DEF CommitDeleteBus
  <2>2. \A v \in unannounced' :
           (v = "rules" /\ removed') \/ (v \in unannounced /\ v # "buses")
    BY <1>7 DEF CommitDeleteBus
  <2>3. /\ removed => removed'
        /\ \A v \in failed : v # "buses" => v \in failed'
        /\ at[r] = "queried"
    BY <1>7 DEF CommitDeleteBus, Serving
  <2>4. QED
    BY <2>1, <2>2, <2>3, OthersOwe DEF Announced
<1>8. CASE LockBus(r) \/ QuerySchemas(r) \/ WriteNewSchema(r) \/ WriteSchema(r) \/ LockRule(r)
  <2>1. ~Writing /\ UNCHANGED versionVars
    BY <1>8 DEF LockBus, QuerySchemas, WriteNewSchema, WriteSchema, LockRule, Serving
  <2>2. \E place \in {"locked", "queried", "written"} : Go(r, place)
    BY <1>8 DEF LockBus, QuerySchemas, WriteNewSchema, WriteSchema, LockRule
  <2>3. QED
    BY <1>1, <2>1, <2>2, QuietAnnounced
<1>9. CASE BusNotFound(r) \/ RuleNameRepeat(r) \/ SourceTypeRepeat(r) \/ CommitLock(r)
           \/ RemoveSchema(r) \/ RuleNotFound(r) \/ BusNameRepeat(r)
  <2>1. ~Writing /\ UNCHANGED versionVars /\ End(r)
    BY <1>9 DEF BusNotFound, RuleNameRepeat, SourceTypeRepeat, CommitLock, RemoveSchema,
       RuleNotFound, BusNameRepeat, Serving, WritingApart
  <2>2. QED
    BY <1>1, <2>1, QuietAnnounced
<1>10. QED
  BY <1>2, <1>3, <1>4, <1>5, <1>6, <1>7, <1>8, <1>9 DEF ServeBus, ServeRule

\* A change that no version announces is about to be announced, or its request
\* failed after the row was committed, or DeleteBus removed rules (Commit of
\* the version in bus.go and rule.go), whatever requests run at one time.
THEOREM NothingSilent == Spec => []Announced
<1>1. Init => Announced
  BY DEF Init, Announced
<1>2. IInv /\ Announced /\ [Next]_vars => Announced'
  <2>1. ASSUME IInv, Announced, UNCHANGED vars PROVE Announced'
    BY <2>1 DEF Announced, Owed, vars, versionVars
  <2>2. QED
    BY <2>1, AnnouncedStep DEF IInv, TypeOK, Next
<1>3. QED
  BY <1>1, <1>2, InitInv, Inductive, PTL DEF Spec

-----------------------------------------------------------------------------
(* The tables. A table has one row for each stored rule or bus, its version *)
(* is owed as many times as the reflector's writers count, and it is ahead  *)
(* of the version exactly while something is unannounced.                   *)

Owing(v) == {r \in Reqs : Owes(r, v)}

Counted(v) == IsFiniteSet(Owing(v)) /\ pending = Cardinality(Owing(v))

NoTwins == \A p, q \in rows : p.name = q.name => p = q

RulesLinked ==
    /\ \A q \in rows : rule[q.name] = q.val
    /\ \A k \in Keys : rule[k] # None => \E q \in rows : q.name = k

BusesLinked == bus = {q.name : q \in rows}

RuleTableOK ==
    /\ rows \in SUBSET Row
    /\ NoTwins
    /\ RulesLinked
    /\ Counted("rules")
    /\ ahead <=> "rules" \in unannounced

BusTableOK ==
    /\ rows \in SUBSET Row
    /\ NoTwins
    /\ BusesLinked
    /\ Counted("buses")
    /\ ahead <=> "buses" \in unannounced

LEMMA TablesInit == TableInit => IInv /\ RuleTableOK /\ BusTableOK
<1> SUFFICES ASSUME TableInit PROVE IInv /\ RuleTableOK /\ BusTableOK
  OBVIOUS
<1>1. ASSUME NEW v PROVE Counted(v)
  <2>1. Owing(v) = {}
    BY DEF TableInit, Init, Owing, Owes
  <2>2. QED
    BY <2>1, FS_EmptySet DEF TableInit, ReflectorInit, Counted
<1>2. /\ NoTwins /\ RulesLinked /\ BusesLinked /\ rows \in SUBSET Row
      /\ ~ahead /\ unannounced = {}
  BY DEF TableInit, Init, ReflectorInit, NoTwins, RulesLinked, BusesLinked
<1>3. QED
  BY <1>1, <1>2, InitInv DEF TableInit, RuleTableOK, BusTableOK

\* The statements, on a table without two rows of one name.
LEMMA InsertRow ==
    ASSUME rows \in SUBSET Row, NoTwins, NEW k \in Names, NEW v \in Vals, Insert(k, v),
           \A q \in rows : q.name # k
    PROVE  /\ rows' \in SUBSET Row /\ NoTwins' /\ RowChange
           /\ \E p : p.name = k /\ p.val = v /\ rows' = rows \cup {p}
<1>1. PICK i \in Ids :
        /\ \A q \in rows : q.id # i
        /\ rows' = rows \cup {[id |-> i, name |-> k, val |-> v]}
  BY DEF Insert
<1> DEFINE new == [id |-> i, name |-> k, val |-> v]
<1>2. new \in Row /\ new.name = k /\ new.val = v /\ rows' = rows \cup {new}
  BY <1>1 DEF Row
<1>3. RowChange
  BY <1>1 DEF RowChange
<1> HIDE DEF new
<1>4. NoTwins'
  BY <1>2 DEF NoTwins
<1>5. QED
  BY <1>2, <1>3, <1>4

LEMMA OverwriteRow ==
    ASSUME rows \in SUBSET Row, NoTwins, NEW p \in rows, NEW v \in Vals, Overwrite(p.name, v)
    PROVE  /\ rows' \in SUBSET Row /\ NoTwins' /\ RowChange
           /\ \E q : q.name = p.name /\ q.val = v /\ rows' = (rows \ {p}) \cup {q}
<1> DEFINE new == [p EXCEPT !.val = v]
<1>1. \A q \in rows : q.name = p.name => q = p
  BY DEF NoTwins
<1>2. rows' = (rows \ {p}) \cup {new}
  BY <1>1 DEF Overwrite
<1>3. new \in Row /\ new.name = p.name /\ new.val = v
  BY DEF Row
<1>4. RowChange
  BY <1>2 DEF RowChange
<1> HIDE DEF new
<1>5. NoTwins'
  BY <1>1, <1>2, <1>3 DEF NoTwins
<1>6. QED
  BY <1>2, <1>3, <1>4, <1>5

LEMMA EraseRow ==
    ASSUME rows \in SUBSET Row, NoTwins, NEW p \in rows, Erase({p.name})
    PROVE  rows' \in SUBSET Row /\ NoTwins' /\ RowChange /\ rows' = rows \ {p}
<1>1. rows' = rows \ {p}
  BY DEF Erase, NoTwins
<1>2. QED
  BY <1>1 DEF RowChange, NoTwins

\* Who else owes a version still does.
LEMMA OthersUntouched ==
    ASSUME ServiceOK, NEW r \in Reqs, Receive(r) \/ Fail(r) \/ ServeBus(r) \/ ServeRule(r)
    PROVE  \A x \in Reqs \ {r} : req'[x] = req[x] /\ at'[x] = at[x]
<1>1. End(r) \/ Receive(r) \/ (\E place \in {"locked", "queried", "written"} : Go(r, place))
  BY DEF Fail, ServeBus, ServeRule, LockBus, BusNotFound, CommitRule, RuleNameRepeat,
     QuerySchemas, CommitDeleteBus, WriteNewSchema, SourceTypeRepeat, WriteSchema,
     CommitLock, RemoveSchema, LockRule, RuleNotFound, CommitTargets, InsertBus,
     BusNameRepeat, WriteRule, CommitVersion
<1>2. QED
  BY <1>1, EndKeeps DEF Receive, Go, ServiceOK

LEMMA CountStep ==
    ASSUME ServiceOK, NEW r \in Reqs, Receive(r) \/ Fail(r) \/ ServeBus(r) \/ ServeRule(r),
           NEW v, Counted(v)
    PROVE  /\ ~Owes(r, v) /\ ~Owes(r, v)' /\ pending' = pending => Counted(v)'
           /\ ~Owes(r, v) /\ Owes(r, v)' /\ pending' = pending + 1 => Counted(v)'
           /\ Owes(r, v) /\ ~Owes(r, v)' /\ pending' = pending - 1 => Counted(v)' /\ pending > 0
<1>1. IsFiniteSet(Owing(v)) /\ pending = Cardinality(Owing(v)) /\ pending \in Nat
  BY FS_CardinalityType DEF Counted
<1>2. \A x \in Reqs \ {r} : Owes(x, v)' = Owes(x, v)
  BY OthersUntouched DEF Owes
<1>3. ASSUME ~Owes(r, v), ~Owes(r, v)', pending' = pending PROVE Counted(v)'
  <2>1. Owing(v)' = Owing(v)
    BY <1>2, <1>3 DEF Owing
  <2>2. QED
    BY <1>1, <1>3, <2>1 DEF Counted
<1>4. ASSUME ~Owes(r, v), Owes(r, v)', pending' = pending + 1 PROVE Counted(v)'
  <2>1. Owing(v)' = Owing(v) \cup {r} /\ r \notin Owing(v)
    BY <1>2, <1>4 DEF Owing
  <2>2. QED
    BY <1>1, <1>4, <2>1, FS_AddElement DEF Counted
<1>5. ASSUME Owes(r, v), ~Owes(r, v)', pending' = pending - 1
      PROVE  Counted(v)' /\ pending > 0
  <2>1. Owing(v)' = Owing(v) \ {r} /\ r \in Owing(v)
    BY <1>2, <1>5 DEF Owing
  <2>2. IsFiniteSet(Owing(v)') /\ Cardinality(Owing(v)') = Cardinality(Owing(v)) - 1
    BY <1>1, <2>1, FS_RemoveElement
  <2>3. Cardinality(Owing(v)) # 0
    BY <1>1, <2>1, FS_EmptySet
  <2>4. QED
    BY <1>1, <1>5, <2>2, <2>3 DEF Counted
<1>6. QED
  BY <1>3, <1>4, <1>5

\* A request that has ended owes nothing.
LEMMA EndOwes == ASSUME ServiceOK, NEW r \in Reqs, End(r), NEW v PROVE ~Owes(r, v)'
  BY EndKeeps DEF Owes

-----------------------------------------------------------------------------
(* What both tables share.                                                 *)

LEMMA RaisesVersionStep ==
    ASSUME ServiceOK, NEW r \in Reqs, NEW v, Counted(v), RaisesVersion(r, v)
    PROVE  /\ Counted(v)' /\ ~ahead' /\ v \notin unannounced'
           /\ CommitBump /\ UNCHANGED <<rows, bus, rule>>
<1>1. CommitVersion(r) /\ Owes(r, v)
  BY DEF RaisesVersion
<1>2. ~Owes(r, v)'
  BY <1>1, EndOwes DEF CommitVersion
<1>3. pending > 0 /\ Counted(v)'
  BY <1>1, <1>2, CountStep DEF ServeRule, RaisesVersion
<1>4. ~ahead' /\ v \notin unannounced'
  BY <1>1 DEF RaisesVersion, Announces, CommitVersion, Raise, Owes
<1>5. UNCHANGED <<rows, bus, rule>>
  BY <1>1 DEF RaisesVersion, CommitVersion, config
<1>6. QED
  BY <1>3, <1>4, <1>5 DEF RaisesVersion, Announces, CommitBump

LEMMA NeverRaisesStep ==
    ASSUME ServiceOK, NEW r \in Reqs, NEW v, Counted(v), NeverRaises(r, v)
    PROVE  Counted(v)' /\ BumpFails /\ UNCHANGED <<rows, bus, rule, ahead, unannounced>>
<1>1. Fail(r) /\ Owes(r, v)
  BY DEF NeverRaises
<1>2. ~Owes(r, v)'
  BY <1>1, EndOwes DEF Fail
<1>3. pending > 0 /\ Counted(v)'
  BY <1>1, <1>2, CountStep DEF NeverRaises
<1>4. UNCHANGED <<rows, bus, rule, ahead, unannounced>>
  BY <1>1 DEF NeverRaises, Fail, config
<1>5. QED
  BY <1>3, <1>4 DEF NeverRaises, BumpFails

LEMMA ElsewhereStep ==
    ASSUME ServiceOK, NEW r \in Reqs, AtBegin(r), NEW v \in Versions, Counted(v),
           Elsewhere(r, v), pending' = pending
    PROVE  Counted(v)' /\ UNCHANGED <<bus, rule>> /\ (v \in unannounced' <=> v \in unannounced)
<1>1. Receive(r) \/ Fail(r) \/ ServeBus(r) \/ ServeRule(r)
  BY DEF Elsewhere, ServeBus, ServeRule
<1>2. CASE CommitVersion(r) /\ ~Owes(r, v)
  <2>1. UNCHANGED <<bus, rule>> /\ (v \in unannounced' <=> v \in unannounced)
    BY <1>2 DEF CommitVersion, Owes, Raise, config
  <2>2. ~Owes(r, v)'
    BY <1>2, EndOwes DEF CommitVersion
  <2>3. QED
    BY <1>1, <1>2, <2>1, <2>2, CountStep
<1>3. CASE \/ Receive(r) \/ (Fail(r) /\ ~Owes(r, v))
           \/ LockBus(r) \/ BusNotFound(r) \/ RuleNameRepeat(r) \/ QuerySchemas(r)
           \/ WriteNewSchema(r) \/ SourceTypeRepeat(r) \/ WriteSchema(r) \/ CommitLock(r)
           \/ RemoveSchema(r) \/ LockRule(r) \/ RuleNotFound(r) \/ BusNameRepeat(r)
  <2>1. UNCHANGED <<bus, rule, unannounced>>
    BY <1>3 DEF Receive, Fail, LockBus, BusNotFound, RuleNameRepeat, QuerySchemas,
       WriteNewSchema, SourceTypeRepeat, WriteSchema, CommitLock, RemoveSchema, LockRule,
       RuleNotFound, BusNameRepeat, config, versionVars
  <2>2. ~Owes(r, v) /\ ~Owes(r, v)'
    <3>1. CASE End(r)
      <4>1. ~Owes(r, v)
        BY <1>3, <3>1 DEF Receive, LockBus, BusNotFound, RuleNameRepeat, QuerySchemas,
           WriteNewSchema, SourceTypeRepeat, WriteSchema, CommitLock, RemoveSchema, LockRule,
           RuleNotFound, BusNameRepeat, Serving, Owes, WritingApart
      <4>2. QED
        BY <3>1, <4>1, EndOwes
    <3>2. CASE Receive(r)
      BY <3>2 DEF Receive, AtBegin, ServiceOK, Owes
    <3>3. CASE LockBus(r) \/ QuerySchemas(r) \/ LockRule(r)
      BY <3>3 DEF LockBus, QuerySchemas, LockRule, Serving, Go, ServiceOK, Owes
    <3>4. CASE WriteNewSchema(r) \/ WriteSchema(r)
      BY <3>4 DEF WriteNewSchema, WriteSchema, Serving, Go, ServiceOK, Owes, WritingApart
    <3>5. QED
      BY <1>3, <3>1, <3>2, <3>3, <3>4
      DEF Fail, BusNotFound, RuleNameRepeat, SourceTypeRepeat, CommitLock, RemoveSchema,
          RuleNotFound, BusNameRepeat
  <2>3. QED
    BY <1>1, <2>1, <2>2, CountStep
<1>4. QED
  BY <1>2, <1>3 DEF Elsewhere

\* The reflector reads, or nothing happens.
LEMMA ReadsStep ==
    ASSUME Reads \/ UNCHANGED tableVars
    PROVE  UNCHANGED vars /\ UNCHANGED dbVars /\ [ReflectorNext]_reflectorVars
  BY DEF Reads, Watch, ReadVersion, FetchPage, FetchLastPage, ApplyKey, WatchReturns,
     FetchFails, tableVars, reflectorVars, ReflectorNext

-----------------------------------------------------------------------------
(* The requests that write rules.                                          *)

LEMMA CreatesRuleStep ==
    ASSUME TableOfRules, IInv, RuleTableOK, NEW r \in Reqs, CreatesRule(r)
    PROVE  RuleTableOK' /\ CommitTogether
<1>1. ServiceOK /\ ConfigOK /\ CommitRule(r)
  BY DEF IInv, TypeOK, CreatesRule
<1>2. req[r] \in Requests /\ req[r].op = "CreateRule" /\ at[r] = "locked"
  BY <1>1 DEF CommitRule, Serving, ServiceOK
<1> DEFINE k == req[r].key
           v == req[r].row
<1>3. k \in Keys /\ v \in Rows /\ rule[k] = None /\ rule' = [rule EXCEPT ![k] = v]
  BY <1>1, <1>2, Fields DEF CommitRule
<1> HIDE DEF k, v
<1>4. /\ k \in Names /\ v \in Vals /\ Insert(k, v)
      /\ \A q \in rows : q.name \in Keys /\ q.name # k
  BY <1>3 DEF k, v, CreatesRule, TableOfRules, RuleTableOK, RulesLinked, Row
<1>5. PICK p : /\ p.name = k /\ p.val = v /\ rows' = rows \cup {p}
               /\ rows' \in SUBSET Row /\ NoTwins' /\ RowChange
  BY <1>4, InsertRow DEF RuleTableOK
<1>6. RulesLinked'
  <2>1. rule'[k] = v /\ \A j \in Keys : j # k => rule'[j] = rule[j]
    BY <1>1, <1>3 DEF ConfigOK
  <2>2. QED
    BY <1>4, <1>5, <2>1 DEF RuleTableOK, RulesLinked
<1>7. Counted("rules")'
  <2>1. ~Owes(r, "rules") /\ ~Owes(r, "rules")'
    BY <1>1, <1>2, EndOwes DEF Owes, CommitRule
  <2>2. QED
    BY <1>1, <2>1, CountStep DEF ServeBus, RuleTableOK, CreatesRule
<1>8. ~ahead' /\ "rules" \notin unannounced'
  BY <1>1, <1>2 DEF CreatesRule, Announces, CommitRule, Raise, VersionOf
<1>9. QED
  BY <1>5, <1>6, <1>7, <1>8 DEF RuleTableOK, CreatesRule, Announces, CommitTogether

\* A rule that is there is written over.
LEMMA RuleOverwritten ==
    ASSUME TableOfRules, ConfigOK, RuleTableOK, NEW k \in Keys, rule[k] # None,
           NEW v \in Rows, rule' = [rule EXCEPT ![k] = v], Overwrite(k, v)
    PROVE  rows' \in SUBSET Row /\ NoTwins' /\ RowChange /\ RulesLinked'
<1>1. PICK p \in rows : p.name = k
  BY DEF RuleTableOK, RulesLinked
<1>2. PICK q : /\ q.name = k /\ q.val = v /\ rows' = (rows \ {p}) \cup {q}
               /\ rows' \in SUBSET Row /\ NoTwins' /\ RowChange
  BY <1>1, OverwriteRow DEF RuleTableOK, TableOfRules
<1>3. rule'[k] = v /\ \A j \in Keys : j # k => rule'[j] = rule[j]
  BY DEF ConfigOK
<1>4. \A x \in rows : x.name \in Keys /\ (x.name = k => x = p)
  BY <1>1 DEF RuleTableOK, NoTwins, TableOfRules, Row
<1>5. RulesLinked'
  BY <1>1, <1>2, <1>3, <1>4 DEF RuleTableOK, RulesLinked
<1>6. QED
  BY <1>2, <1>5

LEMMA ChangesTargetsStep ==
    ASSUME TableOfRules, IInv, RuleTableOK, NEW r \in Reqs, ChangesTargets(r)
    PROVE  RuleTableOK' /\ CommitTogether
<1>1. ServiceOK /\ ConfigOK /\ CommitTargets(r)
  BY DEF IInv, TypeOK, ChangesTargets
<1>2. ConfigOK'
  BY <1>1, Implements, PromiseStep DEF ServeRule
<1>3. req[r] \in Requests /\ req[r].op \in Targeted /\ at[r] = "locked"
  BY <1>1 DEF CommitTargets, ServiceOK
<1> DEFINE k == req[r].key
<1>4. k \in Keys /\ rule[k] # None /\ rule[k] \in Rows
  BY <1>1, <1>3, Fields DEF CommitTargets, ConfigOK
<1>5. /\ rule' = [rule EXCEPT ![k] = rule'[k]]
      /\ rule'[k] \in Rows
  <2>1. PICK new : rule' = [rule EXCEPT ![k].targets = new]
    BY <1>1 DEF CommitTargets
  <2>2. rule'[k] = [rule[k] EXCEPT !.targets = new]
    BY <1>1, <1>4, <2>1 DEF ConfigOK
  <2>3. rule' = [rule EXCEPT ![k] = rule'[k]]
    BY <1>1, <1>4, <2>1, <2>2 DEF ConfigOK
  <2>4. rule'[k] # None
    <3>1. seen[r] = rule[k].targets
      BY <1>3 DEF IInv, Held, RuleHeld
    <3>2. rule'[k].targets = IF req[r].op = "CreateTargets" THEN seen[r] \cup req[r].targets
                                                            ELSE seen[r] \ req[r].targets
      BY <1>1, <1>4 DEF CommitTargets, ConfigOK, Rows
    <3>3. rule'[k].targets = new
      BY <1>4, <2>2 DEF Rows
    <3>4. req[r].targets \subseteq Targets
      BY <1>3, Fields
    <3>5. QED
      BY <1>4, <2>2, <3>1, <3>2, <3>3, <3>4 DEF Rows
  <2>5. QED
    BY <1>2, <1>4, <2>3, <2>4 DEF ConfigOK
<1>6. Overwrite(k, rule'[k])
  BY DEF ChangesTargets
<1> HIDE DEF k
<1>7. rows' \in SUBSET Row /\ NoTwins' /\ RowChange /\ RulesLinked'
  BY <1>1, <1>4, <1>5, <1>6, RuleOverwritten
<1>8. Counted("rules")'
  <2>1. ~Owes(r, "rules") /\ ~Owes(r, "rules")'
    BY <1>1, <1>3, EndOwes DEF Owes, CommitTargets
  <2>2. QED
    BY <1>1, <2>1, CountStep DEF ServeRule, RuleTableOK, ChangesTargets
<1>9. ~ahead' /\ "rules" \notin unannounced'
  BY <1>1, <1>3 DEF ChangesTargets, Announces, CommitTargets, Raise, VersionOf, Targeted
<1>10. QED
  BY <1>7, <1>8, <1>9 DEF RuleTableOK, ChangesTargets, Announces, CommitTogether

LEMMA WritesRuleStep ==
    ASSUME TableOfRules, IInv, RuleTableOK, NEW r \in Reqs, WritesRule(r)
    PROVE  RuleTableOK' /\ CommitRow
<1>1. ServiceOK /\ ConfigOK /\ WriteRule(r)
  BY DEF IInv, TypeOK, WritesRule
<1>2. /\ req[r] \in Requests /\ req[r].op \in {"UpdateRule", "DeleteRule"}
      /\ at[r] = "begin"
  BY <1>1 DEF WriteRule, ServiceOK
<1> DEFINE k == req[r].key
<1>3. k \in Keys /\ rule[k] # None /\ rule[k] \in Rows
  BY <1>1, <1>2, Fields DEF WriteRule, ConfigOK
<1>4. ASSUME req[r].op = "UpdateRule"
      PROVE  rows' \in SUBSET Row /\ NoTwins' /\ RowChange /\ RulesLinked'
  <2> DEFINE v == [rule[k] EXCEPT !.spec = req[r].spec]
  <2>1. v \in Rows /\ rule' = [rule EXCEPT ![k] = v]
    BY <1>1, <1>2, <1>3, <1>4, Fields DEF WriteRule, ConfigOK, Rows
  <2>2. rule'[k] = v
    BY <1>1, <1>3, <2>1 DEF ConfigOK
  <2>3. Overwrite(k, v)
    BY <1>4, <2>2 DEF WritesRule
  <2> HIDE DEF k, v
  <2>4. QED
    BY <1>1, <1>3, <2>1, <2>3, RuleOverwritten
<1>5. ASSUME req[r].op = "DeleteRule"
      PROVE  rows' \in SUBSET Row /\ NoTwins' /\ RowChange /\ RulesLinked'
  <2>1. rule' = [rule EXCEPT ![k] = None] /\ Erase({k})
    BY <1>1, <1>5 DEF WriteRule, WritesRule
  <2> HIDE DEF k
  <2>2. PICK p \in rows : p.name = k
    BY <1>3 DEF RuleTableOK, RulesLinked
  <2>3. rows' \in SUBSET Row /\ NoTwins' /\ RowChange /\ rows' = rows \ {p}
    BY <2>1, <2>2, EraseRow DEF RuleTableOK
  <2>4. rule'[k] = None /\ \A j \in Keys : j # k => rule'[j] = rule[j]
    BY <1>1, <1>3, <2>1 DEF ConfigOK
  <2>5. \A x \in rows : x.name \in Keys /\ (x.name = k => x = p)
    BY <2>2 DEF RuleTableOK, NoTwins, TableOfRules, Row
  <2>6. RulesLinked'
    BY <2>2, <2>3, <2>4, <2>5 DEF RuleTableOK, RulesLinked
  <2>7. QED
    BY <2>3, <2>6
<1>6. rows' \in SUBSET Row /\ NoTwins' /\ RowChange /\ RulesLinked'
  BY <1>2, <1>4, <1>5
<1>7. Counted("rules")'
  <2>1. ~Owes(r, "rules") /\ Owes(r, "rules")'
    BY <1>1, <1>2 DEF Owes, WriteRule, Go, ServiceOK, WritingApart, VersionOf
  <2>2. QED
    BY <1>1, <2>1, CountStep DEF ServeRule, RuleTableOK, WritesRule, Precedes
<1>8. ahead' /\ "rules" \in unannounced'
  BY <1>1 DEF WritesRule, Precedes, WriteRule, Announce
<1>9. QED
  BY <1>6, <1>7, <1>8 DEF RuleTableOK, WritesRule, Precedes, CommitRow

LEMMA DropsRulesStep ==
    ASSUME TableOfRules, IInv, RuleTableOK, NEW r \in Reqs, DropsRules(r)
    PROVE  RuleTableOK' /\ DropRows
<1>1. ServiceOK /\ CommitDeleteBus(r) /\ RulesOf(req[r].bus) # {}
  BY DEF IInv, TypeOK, DropsRules
<1> DEFINE K == {k \in Keys : k[1] = req[r].bus}
           S == {q \in rows : q.name \in K}
<1>2. /\ rule' = [k \in Keys |-> IF k \in K THEN None ELSE rule[k]]
      /\ rows' = rows \ S
  BY <1>1 DEF CommitDeleteBus, DropsRules, Erase
<1>3. S # {}
  BY <1>1 DEF RulesOf, RuleTableOK, RulesLinked
<1>4. \A q \in rows : q.name \in Keys
  BY DEF RuleTableOK, TableOfRules, Row
<1>5. RulesLinked'
  <2> HIDE DEF K
  <2>1. QED
    BY <1>2, <1>4 DEF RuleTableOK, RulesLinked
<1>6. rows' \in SUBSET Row /\ NoTwins'
  BY <1>2 DEF RuleTableOK, NoTwins
<1>7. Counted("rules")'
  <2>1. ~Owes(r, "rules") /\ ~Owes(r, "rules")'
    BY <1>1, EndOwes DEF Owes, CommitDeleteBus, Serving
  <2>2. QED
    BY <1>1, <2>1, CountStep DEF ServeBus, RuleTableOK, DropsRules
<1>8. ahead' /\ "rules" \in unannounced'
  BY <1>1 DEF DropsRules, CommitDeleteBus, RulesOf
<1>9. \E T \in SUBSET rows : T # {} /\ rows' = rows \ T
  BY <1>2, <1>3
<1>10. QED
  BY <1>5, <1>6, <1>7, <1>8, <1>9 DEF RuleTableOK, DropsRules, DropRows

LEMMA BesideRulesStep ==
    ASSUME IInv, RuleTableOK, NEW r \in Reqs, BesideRules(r)
    PROVE  RuleTableOK'
<1>1. ServiceOK /\ ConfigOK /\ AtBegin(r) /\ UNCHANGED reflectorVars
  BY DEF IInv, TypeOK, Held, BesideRules
<1>2. UNCHANGED <<rows, pending, ahead>>
  BY <1>1 DEF reflectorVars, dbVars
<1>3. CASE Elsewhere(r, "rules")
  <2>1. /\ Counted("rules")' /\ rule' = rule
        /\ "rules" \in unannounced' <=> "rules" \in unannounced
    BY <1>1, <1>2, <1>3, ElsewhereStep DEF RuleTableOK, Versions
  <2>2. QED
    BY <1>2, <2>1 DEF RuleTableOK, NoTwins, RulesLinked
<1>4. CASE InsertBus(r)
  <2>1. ~Owes(r, "rules") /\ ~Owes(r, "rules")'
    BY <1>1, <1>4 DEF InsertBus, Serving, Go, ServiceOK, Owes, VersionOf
  <2>2. Counted("rules")'
    BY <1>1, <1>2, <1>4, <2>1, CountStep DEF ServeRule, RuleTableOK
  <2>3. rule' = rule /\ ("rules" \in unannounced' <=> "rules" \in unannounced)
    BY <1>4 DEF InsertBus, Announce
  <2>4. QED
    BY <1>2, <2>2, <2>3 DEF RuleTableOK, NoTwins, RulesLinked
<1>5. CASE CommitDeleteBus(r) /\ RulesOf(req[r].bus) = {}
  <2>1. ~Owes(r, "rules") /\ ~Owes(r, "rules")'
    BY <1>1, <1>5, EndOwes DEF Owes, CommitDeleteBus, Serving
  <2>2. Counted("rules")'
    BY <1>1, <1>2, <1>5, <2>1, CountStep DEF ServeBus, RuleTableOK
  <2>3. rule' = rule
    BY <1>1, <1>5 DEF CommitDeleteBus, RulesOf, ConfigOK
  <2>4. "rules" \in unannounced' <=> "rules" \in unannounced
    BY <1>5 DEF CommitDeleteBus, RulesOf
  <2>5. QED
    BY <1>2, <2>2, <2>3, <2>4 DEF RuleTableOK, NoTwins, RulesLinked
<1>6. QED
  BY <1>3, <1>4, <1>5 DEF BesideRules

\* A request is one of module ConfigStore.
LEMMA RuleStoreStep == [RuleTableNext]_tableVars => [Next]_vars
<1>1. ASSUME NEW r \in Reqs, RuleRequest(r)
      PROVE  Receive(r) \/ Fail(r) \/ ServeBus(r) \/ ServeRule(r)
  BY <1>1 DEF RuleRequest, CreatesRule, ChangesTargets, WritesRule, DropsRules,
     RaisesVersion, NeverRaises, BesideRules, Elsewhere, ServeBus, ServeRule
<1>2. QED
  BY <1>1, ReadsStep DEF RuleTableNext, Next

\* And one that writes rules is a writer of the reflector's.
LEMMA RuleTableStep ==
    TableOfRules /\ IInv /\ RuleTableOK /\ [RuleTableNext]_tableVars
        => IInv' /\ RuleTableOK' /\ [ReflectorNext]_reflectorVars
<1> SUFFICES ASSUME TableOfRules, IInv, RuleTableOK, [RuleTableNext]_tableVars
             PROVE  RuleTableOK' /\ [ReflectorNext]_reflectorVars
  BY Inductive, RuleStoreStep
<1>1. ServiceOK /\ Counted("rules")
  BY DEF IInv, TypeOK, RuleTableOK
<1>2. ASSUME NEW r \in Reqs, RaisesVersion(r, "rules")
      PROVE  RuleTableOK' /\ CommitBump
  BY <1>1, <1>2, RaisesVersionStep DEF RuleTableOK, NoTwins, RulesLinked
<1>3. ASSUME NEW r \in Reqs, NeverRaises(r, "rules")
      PROVE  RuleTableOK' /\ BumpFails
  BY <1>1, <1>3, NeverRaisesStep DEF RuleTableOK, NoTwins, RulesLinked
<1>4. ASSUME NEW r \in Reqs, RuleRequest(r)
      PROVE  RuleTableOK' /\ (Write \/ UNCHANGED reflectorVars)
  BY <1>2, <1>3, <1>4, CreatesRuleStep, ChangesTargetsStep, WritesRuleStep, DropsRulesStep,
     BesideRulesStep DEF RuleRequest, BesideRules, Write
<1>5. CASE Reads \/ UNCHANGED tableVars
  <2>1. UNCHANGED <<rows, pending, ahead, rule, unannounced, req, at>>
    BY <1>5, ReadsStep DEF vars, dbVars, config, versionVars
  <2>2. RuleTableOK'
    BY <2>1 DEF RuleTableOK, NoTwins, RulesLinked, Counted, Owing, Owes
  <2>3. QED
    BY <1>5, <2>2, ReadsStep
<1>6. QED
  BY <1>4, <1>5 DEF RuleTableNext, ReflectorNext

LEMMA RuleTableInvariant == TableOfRules => (RuleTableSpec => [](IInv /\ RuleTableOK))
<1> SUFFICES ASSUME TableOfRules PROVE RuleTableSpec => [](IInv /\ RuleTableOK)
  OBVIOUS
<1>1. TableInit => IInv /\ RuleTableOK
  BY TablesInit
<1>2. IInv /\ RuleTableOK /\ [RuleTableNext]_tableVars => (IInv /\ RuleTableOK)'
  BY RuleTableStep
<1>3. QED
  BY <1>1, <1>2, PTL DEF RuleTableSpec
-----------------------------------------------------------------------------
(* The requests that write buses.                                          *)

LEMMA CreatesBusStep ==
    ASSUME TableOfBuses, IInv, BusTableOK, NEW r \in Reqs, CreatesBus(r)
    PROVE  BusTableOK' /\ CommitRow
<1>1. ServiceOK /\ InsertBus(r)
  BY DEF IInv, TypeOK, CreatesBus
<1>2. req[r] \in Requests /\ req[r].op = "CreateBus" /\ at[r] = "begin"
  BY <1>1 DEF InsertBus, Serving, ServiceOK
<1> DEFINE b == req[r].bus
<1>3. b \in BusNames /\ b \notin bus /\ bus' = bus \cup {b}
  BY <1>1, <1>2, Fields DEF InsertBus
<1>4. PICK v \in Vals : Insert(b, v)
  BY DEF CreatesBus
<1> HIDE DEF b
<1>5. b \in Names /\ \A q \in rows : q.name # b
  BY <1>3 DEF TableOfBuses, BusTableOK, BusesLinked
<1>6. PICK p : /\ p.name = b /\ rows' = rows \cup {p}
               /\ rows' \in SUBSET Row /\ NoTwins' /\ RowChange
  BY <1>4, <1>5, InsertRow DEF BusTableOK
<1>7. BusesLinked'
  BY <1>3, <1>6 DEF BusTableOK, BusesLinked
<1>8. Counted("buses")'
  <2>1. ~Owes(r, "buses") /\ Owes(r, "buses")'
    BY <1>1, <1>2 DEF Owes, InsertBus, Go, ServiceOK, WritingApart, VersionOf
  <2>2. QED
    BY <1>1, <2>1, CountStep DEF ServeRule, BusTableOK, CreatesBus, Precedes
<1>9. ahead' /\ "buses" \in unannounced'
  BY <1>1 DEF CreatesBus, Precedes, InsertBus, Announce
<1>10. QED
  BY <1>6, <1>7, <1>8, <1>9 DEF BusTableOK, CreatesBus, Precedes, CommitRow

LEMMA RemovesBusStep ==
    ASSUME TableOfBuses, IInv, BusTableOK, NEW r \in Reqs, RemovesBus(r)
    PROVE  BusTableOK' /\ CommitTogether
<1>1. ServiceOK /\ BusHeld(r) /\ CommitDeleteBus(r)
  BY DEF IInv, TypeOK, Held, RemovesBus
<1>2. req[r] # None /\ req[r].op = "DeleteBus" /\ at[r] = "queried"
  BY <1>1 DEF CommitDeleteBus, Serving
<1> DEFINE b == req[r].bus
<1>3. b \in bus /\ bus' = bus \ {b} /\ Erase({b})
  BY <1>1, <1>2 DEF BusHeld, LockingBus, CommitDeleteBus, RemovesBus
<1> HIDE DEF b
<1>4. PICK p \in rows : p.name = b
  BY <1>3 DEF BusTableOK, BusesLinked
<1>5. rows' \in SUBSET Row /\ NoTwins' /\ RowChange /\ rows' = rows \ {p}
  BY <1>3, <1>4, EraseRow DEF BusTableOK
<1>6. BusesLinked'
  BY <1>3, <1>4, <1>5 DEF BusTableOK, BusesLinked, NoTwins
<1>7. Counted("buses")'
  <2>1. ~Owes(r, "buses") /\ ~Owes(r, "buses")'
    BY <1>1, <1>2, EndOwes DEF Owes, CommitDeleteBus
  <2>2. QED
    BY <1>1, <2>1, CountStep DEF ServeBus, BusTableOK, RemovesBus
<1>8. ~ahead' /\ "buses" \notin unannounced'
  BY <1>1 DEF RemovesBus, Announces, CommitDeleteBus
<1>9. QED
  BY <1>5, <1>6, <1>7, <1>8 DEF BusTableOK, RemovesBus, Announces, CommitTogether

LEMMA BesideBusesStep ==
    ASSUME IInv, BusTableOK, NEW r \in Reqs, BesideBuses(r)
    PROVE  BusTableOK'
<1>1. ServiceOK /\ AtBegin(r) /\ UNCHANGED reflectorVars
  BY DEF IInv, TypeOK, Held, BesideBuses
<1>2. UNCHANGED <<rows, pending, ahead>>
  BY <1>1 DEF reflectorVars, dbVars
<1>3. /\ Counted("buses")' /\ bus' = bus
      /\ "buses" \in unannounced' <=> "buses" \in unannounced
  <2>1. CASE Elsewhere(r, "buses")
    BY <1>1, <1>2, <2>1, ElsewhereStep DEF BusTableOK, Versions
  <2>2. CASE CommitRule(r) \/ CommitTargets(r)
    <3>1. ~Owes(r, "buses") /\ ~Owes(r, "buses")'
      BY <1>1, <2>2, EndOwes DEF CommitRule, CommitTargets, Serving, Owes
    <3>2. Counted("buses")'
      BY <1>1, <1>2, <2>2, <3>1, CountStep DEF ServeBus, ServeRule, BusTableOK
    <3>3. bus' = bus /\ ("buses" \in unannounced' <=> "buses" \in unannounced)
      BY <2>2 DEF CommitRule, CommitTargets, Serving, Raise, VersionOf, Targeted
    <3>4. QED
      BY <3>2, <3>3
  <2>3. CASE WriteRule(r)
    <3>1. ~Owes(r, "buses") /\ ~Owes(r, "buses")'
      BY <1>1, <2>3 DEF WriteRule, Go, ServiceOK, Owes, VersionOf
    <3>2. Counted("buses")'
      BY <1>1, <1>2, <2>3, <3>1, CountStep DEF ServeRule, BusTableOK
    <3>3. bus' = bus /\ ("buses" \in unannounced' <=> "buses" \in unannounced)
      BY <2>3 DEF WriteRule, Announce
    <3>4. QED
      BY <3>2, <3>3
  <2>4. QED
    BY <2>1, <2>2, <2>3 DEF BesideBuses
<1>4. QED
  BY <1>2, <1>3 DEF BusTableOK, NoTwins, BusesLinked

LEMMA BusStoreStep == [BusTableNext]_tableVars => [Next]_vars
<1>1. ASSUME NEW r \in Reqs, BusRequest(r)
      PROVE  Receive(r) \/ Fail(r) \/ ServeBus(r) \/ ServeRule(r)
  BY <1>1 DEF BusRequest, CreatesBus, RemovesBus, RaisesVersion, NeverRaises, BesideBuses,
     Elsewhere, ServeBus, ServeRule
<1>2. QED
  BY <1>1, ReadsStep DEF BusTableNext, Next

LEMMA BusTableStep ==
    TableOfBuses /\ IInv /\ BusTableOK /\ [BusTableNext]_tableVars
        => IInv' /\ BusTableOK' /\ [ReflectorNext]_reflectorVars
<1> SUFFICES ASSUME TableOfBuses, IInv, BusTableOK, [BusTableNext]_tableVars
             PROVE  BusTableOK' /\ [ReflectorNext]_reflectorVars
  BY Inductive, BusStoreStep
<1>1. ServiceOK /\ Counted("buses")
  BY DEF IInv, TypeOK, BusTableOK
<1>2. ASSUME NEW r \in Reqs, RaisesVersion(r, "buses")
      PROVE  BusTableOK' /\ CommitBump
  BY <1>1, <1>2, RaisesVersionStep DEF BusTableOK, NoTwins, BusesLinked
<1>3. ASSUME NEW r \in Reqs, NeverRaises(r, "buses")
      PROVE  BusTableOK' /\ BumpFails
  BY <1>1, <1>3, NeverRaisesStep DEF BusTableOK, NoTwins, BusesLinked
<1>4. ASSUME NEW r \in Reqs, BusRequest(r)
      PROVE  BusTableOK' /\ (Write \/ UNCHANGED reflectorVars)
  BY <1>2, <1>3, <1>4, CreatesBusStep, RemovesBusStep, BesideBusesStep
  DEF BusRequest, BesideBuses, Write
<1>5. CASE Reads \/ UNCHANGED tableVars
  <2>1. UNCHANGED <<rows, pending, ahead, bus, unannounced, req, at>>
    BY <1>5, ReadsStep DEF vars, dbVars, config, versionVars
  <2>2. BusTableOK'
    BY <2>1 DEF BusTableOK, NoTwins, BusesLinked, Counted, Owing, Owes
  <2>3. QED
    BY <1>5, <2>2, ReadsStep
<1>6. QED
  BY <1>4, <1>5 DEF BusTableNext, ReflectorNext

LEMMA BusTableInvariant == TableOfBuses => (BusTableSpec => [](IInv /\ BusTableOK))
<1> SUFFICES ASSUME TableOfBuses PROVE BusTableSpec => [](IInv /\ BusTableOK)
  OBVIOUS
<1>1. TableInit => IInv /\ BusTableOK
  BY TablesInit
<1>2. IInv /\ BusTableOK /\ [BusTableNext]_tableVars => (IInv /\ BusTableOK)'
  BY BusTableStep
<1>3. QED
  BY <1>1, <1>2, PTL DEF BusTableSpec

-----------------------------------------------------------------------------
(* The repositories with a reflector.                                      *)

\* The repositories keep their promise while the reflectors read their tables:
\* the reads take no lock and wait for none (Watch).
THEOREM TablesKeepPromise == (RuleTableSpec \/ BusTableSpec) => Spec /\ Atomic
<1>1. TableInit => Init
  BY DEF TableInit
<1>2. RuleTableSpec => Spec
  BY <1>1, RuleStoreStep, PTL DEF RuleTableSpec, Spec
<1>3. BusTableSpec => Spec
  BY <1>1, BusStoreStep, PTL DEF BusTableSpec, Spec
<1>4. QED
  BY <1>2, <1>3, ImplementsPromise, PTL

\* The repositories are writers that module Reflector allows: what it leaves to
\* its environment contains what CreateRule, UpdateRule, DeleteRule,
\* CreateTargets, DeleteTargets and DeleteBus do to the rules, under their
\* locks and with their failures.
THEOREM RulesImplementReflector == TableOfRules => (RuleTableSpec => ReflectorSpec)
<1> SUFFICES ASSUME TableOfRules PROVE RuleTableSpec => ReflectorSpec
  OBVIOUS
<1>1. TableInit => ReflectorInit
  BY DEF TableInit
<1>2. IInv /\ RuleTableOK /\ [RuleTableNext]_tableVars => [ReflectorNext]_reflectorVars
  BY RuleTableStep
<1>3. QED
  BY <1>1, <1>2, RuleTableInvariant, PTL DEF RuleTableSpec, ReflectorSpec

\* And what CreateBus and DeleteBus do to the buses.
THEOREM BusesImplementReflector == TableOfBuses => (BusTableSpec => ReflectorSpec)
<1> SUFFICES ASSUME TableOfBuses PROVE BusTableSpec => ReflectorSpec
  OBVIOUS
<1>1. TableInit => ReflectorInit
  BY DEF TableInit
<1>2. IInv /\ BusTableOK /\ [BusTableNext]_tableVars => [ReflectorNext]_reflectorVars
  BY BusTableStep
<1>3. QED
  BY <1>1, <1>2, BusTableInvariant, PTL DEF BusTableSpec, ReflectorSpec

\* Without twins a name is indexed to the content of its visible row.
LEMMA LatestIs ==
    ASSUME rows \in SUBSET Row, NoTwins, NEW k \in Names
    PROVE  /\ \A p \in Visible : p.name = k => Latest[k] = p.val
           /\ (\A p \in Visible : p.name # k) => Latest[k] = Absent
<1>1. ASSUME NEW p \in Visible, p.name = k PROVE Latest[k] = p.val
  <2>1. p.id <= p.id /\ \A q \in Visible : q.name = k => q = p
    BY <1>1 DEF Visible, NoTwins, Row, Ids
  <2>2. (CHOOSE q \in Visible : q.name = k /\ \A x \in Visible : x.name = k => x.id <= q.id) = p
    BY <1>1, <2>1
  <2>3. QED
    BY <1>1, <2>2 DEF Latest, Index
<1>2. (\A p \in Visible : p.name # k) => Latest[k] = Absent
  BY DEF Latest, Index
<1>3. QED
  BY <1>1, <1>2

\* For any rules and any requests at one time: a Watch that has caught up with
\* the version serves exactly the enabled rules that are stored (Watch of the
\* job's rule reflector against the rule repository).
THEOREM StoredRulesServed == TableOfRules => (RuleTableSpec => []RulesServed)
<1> SUFFICES ASSUME TableOfRules PROVE RuleTableSpec => []RulesServed
  OBVIOUS
<1>1. RuleTableOK /\ CaughtUp => RulesServed
  <2> SUFFICES ASSUME RuleTableOK, CaughtUp, UpToDate, "rules" \notin unannounced, NEW k \in Keys
               PROVE  view[k] = IF rule[k] \in Enabled THEN rule[k] ELSE Absent
    BY DEF RulesServed
  <2>1. view = Latest /\ k \in Names
    BY DEF CaughtUp, Quiet, UpToDate, RuleTableOK, TableOfRules
  <2>2. CASE rule[k] \in Enabled
    <3>1. rule[k] # None
      BY <2>2, ReflectorAssumption DEF ReflectorAssumption, TableOfRules
    <3>2. PICK p \in Visible : p.name = k /\ p.val = rule[k]
      BY <2>2, <3>1 DEF RuleTableOK, RulesLinked, Visible
    <3>3. QED
      BY <2>1, <2>2, <3>2, LatestIs DEF RuleTableOK
  <2>3. CASE rule[k] \notin Enabled
    <3>1. \A p \in Visible : p.name # k
      BY <2>3 DEF RuleTableOK, RulesLinked, Visible
    <3>2. QED
      BY <2>1, <2>3, <3>1, LatestIs DEF RuleTableOK
  <2>4. QED
    BY <2>2, <2>3
<1>2. QED
  BY <1>1, RuleTableInvariant, RulesImplementReflector, WatchCatchesUp, PTL

\* For any buses: it knows exactly the buses that are stored (Watch of the bus
\* reflectors of the job and of the service against the bus repository).
THEOREM StoredBusesServed == TableOfBuses => (BusTableSpec => []BusesServed)
<1> SUFFICES ASSUME TableOfBuses PROVE BusTableSpec => []BusesServed
  OBVIOUS
<1>1. BusTableOK /\ CaughtUp => BusesServed
  <2> SUFFICES ASSUME BusTableOK, CaughtUp, UpToDate, "buses" \notin unannounced,
                      NEW b \in BusNames
               PROVE  view[b] # Absent <=> b \in bus
    BY DEF BusesServed
  <2>1. view = Latest /\ b \in Names
    BY DEF CaughtUp, Quiet, UpToDate, BusTableOK, TableOfBuses
  <2>2. rows = Visible /\ \A p \in rows : p.val # Absent
    BY ReflectorAssumption DEF ReflectorAssumption, BusTableOK, TableOfBuses, Visible, Row
  <2>3. QED
    BY <2>1, <2>2, LatestIs DEF BusTableOK, BusesLinked
<1>2. QED
  BY <1>1, BusTableInvariant, BusesImplementReflector, WatchCatchesUp, PTL

\* An up-to-date reflector is behind the stored rules only while a request is
\* about to raise the version, after one that failed between its two commits,
\* or after the deletion of a bus with rules.
THEOREM RulesBehindOnlyWhenFailed ==
    TableOfRules => (RuleTableSpec => []RulesBehindOnlyAfter)
<1> SUFFICES ASSUME TableOfRules PROVE RuleTableSpec => []RulesBehindOnlyAfter
  OBVIOUS
<1>1. RulesServed /\ Announced => RulesBehindOnlyAfter
  BY DEF RulesServed, Announced, RulesBehindOnlyAfter, Owed, Owes
<1>2. QED
  BY <1>1, StoredRulesServed, TablesKeepPromise, NothingSilent, PTL

\* And behind the stored buses only after a CreateBus that failed after its
\* insert, or while it is about to raise the version.
THEOREM BusesBehindOnlyWhenFailed ==
    TableOfBuses => (BusTableSpec => []BusesBehindOnlyAfter)
<1> SUFFICES ASSUME TableOfBuses PROVE BusTableSpec => []BusesBehindOnlyAfter
  OBVIOUS
<1>1. BusesServed /\ Announced => BusesBehindOnlyAfter
  BY DEF BusesServed, Announced, BusesBehindOnlyAfter, Owed, Owes
<1>2. QED
  BY <1>1, StoredBusesServed, TablesKeepPromise, NothingSilent, PTL
=============================================================================
