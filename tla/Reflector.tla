----------------------------- MODULE Reflector ------------------------------
(***************************************************************************)
(* A database reflector: busReflector and ruleReflector of the job and     *)
(* busReflector of the service, which run the same algorithm. Watch waits  *)
(* for a version greater than its cursor, moves the cursor, reads the      *)
(* enabled rows page by page outside any transaction, and stores what      *)
(* differs from the previous read, key by key, in the map Get reads.       *)
(*                                                                         *)
(* The writers are the service's repositories: a row and its version bump  *)
(* commit together, or the row commits first, on a connection of its own,  *)
(* or rows are deleted and their version is not raised at all. Module      *)
(* RuleTable has the repositories themselves for writers.                  *)
(***************************************************************************)
EXTENDS Naturals, FiniteSets

CONSTANTS
    Names,       \* keys of the rows: bus names, or bus:rule names
    Vals,        \* contents of a row
    Enabled,     \* the contents the query selects (all, for buses)
    Absent,      \* no row
    PageSize,    \* rows per page
    MaxId,       \* bound: ids ever given to a row
    MaxWrites    \* bound: row changes

ASSUME ReflectorAssumption ==
    /\ Enabled \subseteq Vals
    /\ Absent \notin Vals
    /\ PageSize \in Nat \ {0}
    /\ MaxId \in Nat
    /\ MaxWrites \in Nat

VARIABLES
    rows,        \* the table
    version,     \* the row of the version table
    pending,     \* committed row changes whose version bump is not committed
    writes,      \* row changes so far
    ahead,       \* history: rows have changed since the version was raised
    pc,          \* where Watch is
    cursor,      \* busesVersion, rulesVersion
    next,        \* first id of the next page
    fetched,     \* rows read so far by this Watch
    inter,       \* interBuses, interRules: the previous read
    view,        \* the map Get reads
    todo,        \* keys this Watch has still to store or delete
    missed       \* history: a read failed after the cursor moved, none succeeded since

dbVars == <<rows, version, pending, writes, ahead>>
watchVars == <<pc, cursor, next, fetched, inter, view, todo, missed>>
reflectorVars == <<dbVars, watchVars>>

-----------------------------------------------------------------------------
Ids == 1..MaxId
Row == [id : Ids, name : Names, val : Vals]
Content == [Names -> Enabled \cup {Absent}]

\* The map a Watch builds from the rows it read: of two rows of one name (the
\* name was deleted and created again between two pages) the later id wins.
Index(S) ==
    [n \in Names |->
        IF \E r \in S : r.name = n
        THEN (CHOOSE r \in S : /\ r.name = n
                               /\ \A q \in S : q.name = n => q.id <= r.id).val
        ELSE Absent]

Visible == {r \in rows : r.val \in Enabled}

\* What the view should be.
Latest == Index(Visible)

ReflectorTypeOK ==
    /\ rows \in SUBSET Row
    /\ version \in Nat
    /\ pending \in Nat
    /\ writes \in 0..MaxWrites
    /\ ahead \in BOOLEAN
    /\ pc \in {"version", "fetch", "apply"}
    /\ cursor \in Nat
    /\ next \in Ids \cup {0}
    /\ fetched \in SUBSET Row
    /\ inter \in Content
    /\ view \in Content
    /\ todo \in SUBSET Names
    /\ missed \in BOOLEAN

ReflectorInit ==
    /\ rows = {}
    /\ version = 1
    /\ pending = 0
    /\ writes = 0
    /\ ahead = FALSE
    /\ pc = "version"
    /\ cursor = 0
    /\ next = 0
    /\ fetched = {}
    /\ inter = [n \in Names |-> Absent]
    /\ view = [n \in Names |-> Absent]
    /\ todo = {}
    /\ missed = FALSE

-----------------------------------------------------------------------------
(* The writers.                                                            *)

\* The row changes a request makes: names are unique in the table. The ids of
\* several service instances need not grow in commit order, and a row may be
\* written with the content it has.
RowChange ==
    \/ \E i \in Ids, n \in Names, v \in Vals :
         /\ \A r \in rows : r.id # i /\ r.name # n
         /\ rows' = rows \cup {[id |-> i, name |-> n, val |-> v]}
    \/ \E r \in rows, v \in Vals :
         rows' = (rows \ {r}) \cup {[r EXCEPT !.val = v]}
    \/ \E r \in rows : rows' = rows \ {r}

CanWrite == writes < MaxWrites /\ writes' = writes + 1

\* CreateRule, CreateTargets, DeleteTargets, DeleteBus: one transaction. The
\* version it raises speaks for every change that has been made by then.
CommitTogether ==
    /\ CanWrite
    /\ RowChange
    /\ version' = version + 1
    /\ ahead' = FALSE
    /\ UNCHANGED <<pending, watchVars>>

\* CreateBus, UpdateRule, DeleteRule: the row commits on repo.db ...
CommitRow ==
    /\ CanWrite
    /\ RowChange
    /\ pending' = pending + 1
    /\ ahead' = TRUE
    /\ UNCHANGED <<version, watchVars>>

\* ... and the transaction that only bumps the version commits after it.
CommitBump ==
    /\ pending > 0
    /\ pending' = pending - 1
    /\ version' = version + 1
    /\ ahead' = FALSE
    /\ UNCHANGED <<rows, writes, watchVars>>

\* That transaction fails, or the service dies before it: the row stays, and
\* no Watch is told of it before the next bump of another request.
BumpFails ==
    /\ pending > 0
    /\ pending' = pending - 1
    /\ UNCHANGED <<rows, version, writes, ahead, watchVars>>

\* DeleteBus deletes the rules of the bus and raises the version of the buses:
\* no Watch of the rules is told.
DropRows ==
    /\ CanWrite
    /\ \E S \in SUBSET rows : S # {} /\ rows' = rows \ S
    /\ ahead' = TRUE
    /\ UNCHANGED <<version, pending, watchVars>>

-----------------------------------------------------------------------------
(* Watch.                                                                  *)

\* Mutation: a version one ahead of the cursor is not taken for a newer one.
ReadVersionOffByOne ==
    /\ pc = "version"
    /\ version > cursor + 1
    /\ cursor' = version
    /\ pc' = "fetch"
    /\ next' = 0
    /\ fetched' = {}
    /\ UNCHANGED <<dbVars, inter, view, todo, missed>>

\* fetchNextBusesVersion: moves the cursor before anything is read. While the
\* version is not newer it polls, and a failing read of the version returns
\* an error: neither changes anything.
ReadVersion ==
    /\ pc = "version"
    /\ version > cursor
    /\ cursor' = version
    /\ pc' = "fetch"
    /\ next' = 0
    /\ fetched' = {}
    /\ UNCHANGED <<dbVars, inter, view, todo, missed>>

Remaining == {r \in Visible : r.id >= next}

\* Mutation: the next page starts after the extra row, which no page contains.
FetchPageSkips ==
    /\ pc = "fetch"
    /\ \E s \in Remaining :
         LET page == {r \in Remaining : r.id < s.id} IN
         /\ Cardinality(page) = PageSize
         /\ fetched' = fetched \cup page
         /\ next' = s.id + 1
    /\ UNCHANGED <<dbVars, pc, cursor, inter, view, todo, missed>>

\* A full page: one row more than a page tells where the next page starts.
FetchPage ==
    /\ pc = "fetch"
    /\ \E s \in Remaining :
         LET page == {r \in Remaining : r.id < s.id} IN
         /\ Cardinality(page) = PageSize
         /\ fetched' = fetched \cup page
         /\ next' = s.id
    /\ UNCHANGED <<dbVars, pc, cursor, inter, view, todo, missed>>

\* The last page; Watch then compares the new map with the previous one.
FetchLastPage ==
    /\ pc = "fetch"
    /\ Cardinality(Remaining) <= PageSize
    /\ fetched' = fetched \cup Remaining
    /\ next' = 0
    /\ todo' = {n \in Names : Index(fetched')[n] # inter[n]}
    /\ pc' = "apply"
    /\ UNCHANGED <<dbVars, cursor, inter, view, missed>>

\* A page cannot be read, or a row of it cannot be decoded: Watch returns the
\* error and leaves the cursor where it is.
FetchFails ==
    /\ pc = "fetch"
    /\ pc' = "version"
    /\ next' = 0
    /\ fetched' = {}
    /\ missed' = TRUE
    /\ UNCHANGED <<dbVars, cursor, inter, view, todo>>

\* Store or Delete of one key; the additions come before the deletions.
ApplyKey(n) ==
    /\ pc = "apply"
    /\ n \in todo
    /\ Index(fetched)[n] = Absent => \A m \in todo : Index(fetched)[m] = Absent
    /\ view' = [view EXCEPT ![n] = Index(fetched)[n]]
    /\ todo' = todo \ {n}
    /\ UNCHANGED <<dbVars, pc, cursor, next, fetched, inter, missed>>

\* Mutation: the cursor is set to the version found after the rows were read.
WatchReturnsLateCursor ==
    /\ pc = "apply"
    /\ todo = {}
    /\ inter' = Index(fetched)
    /\ fetched' = {}
    /\ pc' = "version"
    /\ missed' = FALSE
    /\ cursor' = version
    /\ UNCHANGED <<dbVars, next, view, todo>>

\* Mutation: interBuses is assigned only when a row was read.
WatchReturnsKeepsEmpty ==
    /\ pc = "apply"
    /\ todo = {}
    /\ inter' = IF fetched = {} THEN inter ELSE Index(fetched)
    /\ fetched' = {}
    /\ pc' = "version"
    /\ missed' = FALSE
    /\ UNCHANGED <<dbVars, cursor, next, view, todo>>

\* Watch returns the keys it changed.
WatchReturns ==
    /\ pc = "apply"
    /\ todo = {}
    /\ inter' = Index(fetched)
    /\ fetched' = {}
    /\ pc' = "version"
    /\ missed' = FALSE
    /\ UNCHANGED <<dbVars, cursor, next, view, todo>>

-----------------------------------------------------------------------------
Watch ==
    \/ ReadVersion
    \/ FetchPage
    \/ FetchLastPage
    \/ \E n \in Names : ApplyKey(n)
    \/ WatchReturns

Write == CommitTogether \/ CommitRow \/ CommitBump \/ BumpFails \/ DropRows

ReflectorNext == Write \/ Watch \/ FetchFails

ReflectorSpec == ReflectorInit /\ [][ReflectorNext]_reflectorVars

(* The informer calls Watch again and again, and a transaction that has    *)
(* begun ends. Whether a read or a bump fails is not assumed either way.   *)
FairReflectorSpec == ReflectorSpec /\ WF_reflectorVars(Watch) /\ WF_reflectorVars(CommitBump \/ BumpFails)

-----------------------------------------------------------------------------
(* Properties.                                                             *)

Quiet == pc = "version" /\ cursor = version /\ ~ahead

\* A Watch that caught up with the version has the whole table, although it
\* read the version and the pages at different times, with writers in between,
\* bumps still to come for rows it has read, and rows deleted and created again
\* across a page boundary - unless a read failed after the cursor moved, or
\* rows have changed since the version was raised (Watch of the reflectors).
CaughtUp == Quiet /\ ~missed => view = Latest

\* Between two calls of Watch the map Get reads is the map the next Watch will
\* compare with: no change is compared away.
ViewIsPreviousRead == pc = "version" => view = inter

\* However Watch and the writers interleave, once the writers are quiet the
\* view becomes the table for good, or a read failed after the last bump, or
\* the last change was not followed by one.
EventuallyLatest == <>[](view = Latest \/ missed \/ ahead)
=============================================================================
