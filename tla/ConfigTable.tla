---------------------------- MODULE ConfigTable -----------------------------
(***************************************************************************)
(* The table of the rules, or of the buses, between the repositories that  *)
(* write it (module ConfigStore) and a reflector that reads it (module     *)
(* Reflector). Reflector lets the table change in every way a repository   *)
(* might change it. Here the repositories change it: every write of a rule *)
(* or a bus is the statement it is in SQL, on rows that have ids, and the  *)
(* version is the number that the reflector polls. Nothing is assumed of   *)
(* the rows, nor of the transactions under way.                            *)
(***************************************************************************)
EXTENDS Reflector, ConfigStore

\* Enabled are the rows with the status ENABLE.
TableOfRules == Names = Keys /\ Vals = Rows /\ Absent = None

\* Every bus is selected; what a row tells of it is written once.
TableOfBuses == Names = BusNames /\ Vals = Enabled

tableVars == <<reflectorVars, vars>>

TableInit == ReflectorInit /\ Init

-----------------------------------------------------------------------------
(* The statements: INSERT with an id of its own, UPDATE and DELETE of the  *)
(* rows that a condition selects.                                          *)

Insert(k, v) ==
    \E i \in Ids :
        /\ \A q \in rows : q.id # i
        /\ rows' = rows \cup {[id |-> i, name |-> k, val |-> v]}

Overwrite(k, v) ==
    rows' = {IF q.name = k THEN [q EXCEPT !.val = v] ELSE q : q \in rows}

Erase(K) == rows' = {q \in rows : q.name \notin K}

\* The version is raised and nothing it does not speak for is left.
Announces ==
    /\ version' = version + 1
    /\ ahead' = FALSE

\* A row is committed and its version will be raised by another transaction.
Precedes ==
    /\ pending' = pending + 1
    /\ ahead' = TRUE
    /\ UNCHANGED version

\* The goroutine has committed such a row and its transaction is still open.
Owes(r, v) ==
    /\ req[r] # None /\ at[r] = "written"
    /\ req[r].op \in WritingApart /\ VersionOf(req[r].op) = v

RaisesVersion(r, v) ==
    /\ CommitVersion(r) /\ Owes(r, v)
    /\ pending' = pending - 1
    /\ Announces
    /\ UNCHANGED <<rows, writes, watchVars>>

NeverRaises(r, v) ==
    /\ Fail(r) /\ Owes(r, v)
    /\ pending' = pending - 1
    /\ UNCHANGED <<rows, version, writes, ahead, watchVars>>

\* What writes neither a bus nor a rule nor the version v.
Elsewhere(r, v) ==
    \/ Receive(r) \/ (Fail(r) /\ ~Owes(r, v))
    \/ LockBus(r) \/ BusNotFound(r) \/ RuleNameRepeat(r) \/ QuerySchemas(r)
    \/ WriteNewSchema(r) \/ SourceTypeRepeat(r) \/ WriteSchema(r) \/ CommitLock(r)
    \/ RemoveSchema(r) \/ LockRule(r) \/ RuleNotFound(r) \/ BusNameRepeat(r)
    \/ (CommitVersion(r) /\ ~Owes(r, v))

\* The reflector reads the table and its version, and nothing else.
Reads == (Watch \/ FetchFails) /\ UNCHANGED vars

-----------------------------------------------------------------------------
(* The table of the rules.                                                 *)

RulesOf(b) == {k \in Keys : k[1] = b /\ rule[k] # None}

CreatesRule(r) ==
    /\ CommitRule(r)
    /\ CanWrite
    /\ Insert(req[r].key, req[r].row)
    /\ Announces
    /\ UNCHANGED <<pending, watchVars>>

ChangesTargets(r) ==
    /\ CommitTargets(r)
    /\ CanWrite
    /\ Overwrite(req[r].key, rule'[req[r].key])
    /\ Announces
    /\ UNCHANGED <<pending, watchVars>>

WritesRule(r) ==
    /\ WriteRule(r)
    /\ CanWrite
    /\ IF req[r].op = "DeleteRule" THEN Erase({req[r].key})
                                   ELSE Overwrite(req[r].key, rule'[req[r].key])
    /\ Precedes
    /\ UNCHANGED watchVars

\* DeleteBus raises the version of the buses only.
DropsRules(r) ==
    /\ CommitDeleteBus(r) /\ RulesOf(req[r].bus) # {}
    /\ CanWrite
    /\ Erase({k \in Keys : k[1] = req[r].bus})
    /\ ahead' = TRUE
    /\ UNCHANGED <<version, pending, watchVars>>

BesideRules(r) ==
    /\ \/ Elsewhere(r, "rules")
       \/ InsertBus(r)
       \/ CommitDeleteBus(r) /\ RulesOf(req[r].bus) = {}
    /\ UNCHANGED reflectorVars

RuleRequest(r) ==
    \/ CreatesRule(r) \/ ChangesTargets(r) \/ WritesRule(r) \/ DropsRules(r)
    \/ RaisesVersion(r, "rules") \/ NeverRaises(r, "rules") \/ BesideRules(r)

RuleTableNext == (\E r \in Reqs : RuleRequest(r)) \/ Reads

RuleTableSpec == TableInit /\ [][RuleTableNext]_tableVars

-----------------------------------------------------------------------------
(* The table of the buses.                                                 *)

CreatesBus(r) ==
    /\ InsertBus(r)
    /\ CanWrite
    /\ \E v \in Vals : Insert(req[r].bus, v)
    /\ Precedes
    /\ UNCHANGED watchVars

RemovesBus(r) ==
    /\ CommitDeleteBus(r)
    /\ CanWrite
    /\ Erase({req[r].bus})
    /\ Announces
    /\ UNCHANGED <<pending, watchVars>>

BesideBuses(r) ==
    /\ Elsewhere(r, "buses") \/ CommitRule(r) \/ CommitTargets(r) \/ WriteRule(r)
    /\ UNCHANGED reflectorVars

BusRequest(r) ==
    \/ CreatesBus(r) \/ RemovesBus(r)
    \/ RaisesVersion(r, "buses") \/ NeverRaises(r, "buses") \/ BesideBuses(r)

BusTableNext == (\E r \in Reqs : BusRequest(r)) \/ Reads

BusTableSpec == TableInit /\ [][BusTableNext]_tableVars

-----------------------------------------------------------------------------
(* Properties.                                                             *)

\* Watch has caught up with the version, and its last read did not fail.
UpToDate == pc = "version" /\ cursor = version /\ ~missed

\* A Watch that is up to date serves the enabled rules the repositories have
\* stored, although it read them outside any transaction and page by page,
\* while requests locked, wrote apart, failed and deleted whole buses - as long
\* as no rule has changed since the version was raised (Watch against
\* CreateRule, UpdateRule, DeleteRule, CreateTargets, DeleteTargets and
\* DeleteBus).
RulesServed ==
    UpToDate /\ "rules" \notin unannounced =>
        \A k \in Keys : view[k] = IF rule[k] \in Enabled THEN rule[k] ELSE Absent

\* The same of the buses: it knows those that are there and no other (Watch
\* against CreateBus and DeleteBus).
BusesServed ==
    UpToDate /\ "buses" \notin unannounced =>
        \A b \in BusNames : view[b] # Absent <=> b \in bus

\* An up-to-date reflector is behind the stored rules only while a request is
\* about to raise their version, or after one of two failures: a request failed
\* between its two commits, or a bus was deleted with its rules. Both end when
\* the version of the rules is raised again.
RulesBehindOnlyAfter ==
    UpToDate /\ ~(\E r \in Reqs : Owes(r, "rules")) /\ "rules" \notin failed /\ ~removed =>
        \A k \in Keys : view[k] = IF rule[k] \in Enabled THEN rule[k] ELSE Absent

\* Of the buses only the first is left: CreateBus failed after its insert, and
\* to repeat the request does not help (BusNameRepeat).
BusesBehindOnlyAfter ==
    UpToDate /\ ~(\E r \in Reqs : Owes(r, "buses")) /\ "buses" \notin failed =>
        \A b \in BusNames : view[b] # Absent <=> b \in bus
=============================================================================
