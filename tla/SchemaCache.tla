----------------------------- MODULE SchemaCache ----------------------------
(***************************************************************************)
(* How the service reads and writes one schema (app/service/internal/data: *)
(* event.go, cas.lua, local_cache.go, the end of DeleteBus in bus.go). A   *)
(* read asks Redis and, on a miss, the database, once for all requests     *)
(* that miss together (singleflight), and fills Redis; posting an event    *)
(* looks into the program's own cache first. A writer changes the row and  *)
(* then sets Redis. Redis holds the schema, or null when there is none,    *)
(* and its version under a second key; a script sets both if the version   *)
(* is newer than the one it finds, and both expire.                        *)
(*                                                                         *)
(* Schemas of other sources and types never meet: one is modelled. What    *)
(* matters of a row is which creation it stems from and its version. Every *)
(* call of the database or Redis may fail, and fails when the request's    *)
(* time is over. The requests are those of one program: the requests of    *)
(* another share neither the flight nor the local cache with them.         *)
(***************************************************************************)
EXTENDS Integers

CONSTANTS
    Reqs,       \* goroutines that serve requests
    None,       \* no row; null in a cache
    Absent,     \* no entry in a cache
    ReqTime,    \* timeout of a request
    MinTTL,     \* times to live in Redis are from MinTTL
    MaxTTL,     \* to MaxTTL
    LocalTTL,   \* time to live in the program's own cache
    MaxBorn,    \* bound: creations of the schema
    MaxVersion  \* bound: version of a row

ASSUME SchemaCacheAssumption ==
    /\ ReqTime \in Nat \ {0}
    /\ MinTTL \in Nat /\ ReqTime < MinTTL
    /\ MaxTTL \in Nat /\ MinTTL <= MaxTTL
    /\ LocalTTL \in Nat \ {0}
    /\ MaxBorn \in Nat /\ MaxVersion \in Nat \ {0}

Rows == [born : 1..MaxBorn, version : 1..MaxVersion]

ASSUME NoRow == None \notin Rows \cup {Absent} /\ Absent \notin Rows

VARIABLES
    row,       \* the row, or None
    born,      \* creations so far: a creation gives a new id
    cache,     \* Redis: [val, version, ttl, age]
    local,     \* the program's own cache: [val, ttl, age]
    at,        \* where each request is
    op,        \* what it does
    got,       \* the row it has read, and how long ago: [val, age]
    left,      \* what is left of its time
    answered,  \* history: the highest version a writer has answered for; Void
               \* once the schema was deleted or a writer did not set Redis
    floor      \* history: answered when a request that lists started

vars == <<row, born, cache, local, at, op, got, left, answered, floor>>

-----------------------------------------------------------------------------
Ops == {"list", "post", "create", "update", "detach", "delete", "deleteSource"}
Places == {"idle", "local", "cache", "miss", "query", "read", "joined", "fill",
           "keep", "answer", "write", "requery", "set", "del"}

\* How old a copy may be: in Redis, in a request that has read Redis, locally.
CacheAge == ReqTime + MaxTTL
LocalAge == CacheAge + ReqTime + LocalTTL

Copies == [val : Rows \cup {None}, age : Nat]
Void == -1
Nothing == [val |-> None, age |-> 0]
Empty == [val |-> Absent, version |-> -1, ttl |-> 0, age |-> 0]
Forgotten == [val |-> Absent, ttl |-> 0, age |-> 0]

\* The leader of the flight is at "query" or "read".
Leading(p) == at[p] \in {"query", "read"}

\* It has read, or written, a row.
Holding(p) == at[p] \in {"read", "fill", "keep", "answer", "requery", "set"}

TypeOK ==
    /\ row \in Rows \cup {None}
    /\ born \in 0..MaxBorn
    /\ row # None => row.born <= born
    /\ cache.val \in Rows \cup {None, Absent}
    /\ cache.version \in -1..MaxVersion
    /\ cache.ttl \in Nat /\ cache.age \in Nat
    /\ cache.ttl = 0 <=> cache.val = Absent /\ cache.version = -1
    /\ local.val \in Rows \cup {None, Absent}
    /\ local.ttl \in 0..LocalTTL /\ local.age \in Nat
    /\ local.ttl = 0 <=> local.val = Absent
    /\ at \in [Reqs -> Places]
    /\ op \in [Reqs -> Ops]
    /\ got \in [Reqs -> Copies]
    /\ \A p \in Reqs : got[p] # Nothing => Holding(p)
    /\ left \in [Reqs -> 0..ReqTime]
    /\ \A p, q \in Reqs : Leading(p) /\ Leading(q) => p = q
    /\ \A p \in Reqs : at[p] = "joined" => \E q \in Reqs : Leading(q)
    /\ answered \in {Void} \cup 0..MaxVersion
    /\ floor \in [Reqs -> 0..MaxVersion]

Init ==
    /\ row = None
    /\ born = 0
    /\ cache = Empty
    /\ local = Forgotten
    /\ at = [p \in Reqs |-> "idle"]
    /\ op = [p \in Reqs |-> "list"]
    /\ got = [p \in Reqs |-> Nothing]
    /\ left = [p \in Reqs |-> 0]
    /\ answered = 0
    /\ floor = [p \in Reqs |-> 0]

-----------------------------------------------------------------------------
rowVars == <<row, born>>
history == <<answered, floor>>

Go(p, place) == at' = [at EXCEPT ![p] = place]

\* Back to the client. What the goroutine held is gone.
End(p) ==
    /\ Go(p, "idle")
    /\ op' = [op EXCEPT ![p] = "list"]
    /\ got' = [got EXCEPT ![p] = Nothing]
    /\ left' = [left EXCEPT ![p] = 0]
    /\ floor' = [floor EXCEPT ![p] = 0]

Start(p) ==
    /\ at[p] = "idle"
    /\ \E o \in Ops :
         /\ op' = [op EXCEPT ![p] = o]
         /\ Go(p, CASE o = "post" -> "local" [] o = "list" -> "cache" [] OTHER -> "write")
         /\ floor' = [floor EXCEPT ![p] = IF o = "list" /\ answered # Void THEN answered ELSE 0]
    /\ left' = [left EXCEPT ![p] = ReqTime]
    /\ UNCHANGED <<rowVars, cache, local, got, answered>>

-----------------------------------------------------------------------------
(* Reading: PostEvent, GetLocalCacheSchema, FetchSchema.                   *)

\* What comes after FetchSchema: GetLocalCacheSchema keeps the schema.
Fetched(p) == IF op[p] = "post" THEN "keep" ELSE "answer"

LocalHit(p) ==
    /\ at[p] = "local"
    /\ local.val # Absent
    /\ got' = [got EXCEPT ![p] = [val |-> local.val, age |-> local.age]]
    /\ Go(p, "answer")
    /\ UNCHANGED <<rowVars, cache, local, op, left, history>>

LocalMiss(p) ==
    /\ at[p] = "local"
    /\ local.val = Absent
    /\ Go(p, "cache")
    /\ UNCHANGED <<rowVars, cache, local, op, got, left, history>>

\* FetchCacheSchema; null is an answer, too.
CacheHit(p) ==
    /\ at[p] = "cache"
    /\ cache.val # Absent
    /\ got' = [got EXCEPT ![p] = [val |-> cache.val, age |-> cache.age]]
    /\ Go(p, Fetched(p))
    /\ UNCHANGED <<rowVars, cache, local, op, left, history>>

CacheMiss(p) ==
    /\ at[p] = "cache"
    /\ cache.val = Absent
    /\ Go(p, "miss")
    /\ UNCHANGED <<rowVars, cache, local, op, got, left, history>>

\* sf.Do: the first one asks the database, the others wait for its result.
Lead(p) ==
    /\ at[p] = "miss"
    /\ \A q \in Reqs : ~Leading(q)
    /\ Go(p, "query")
    /\ UNCHANGED <<rowVars, cache, local, op, got, left, history>>

Join(p) ==
    /\ at[p] = "miss"
    /\ \E q \in Reqs : Leading(q)
    /\ Go(p, "joined")
    /\ UNCHANGED <<rowVars, cache, local, op, got, left, history>>

\* The database takes its snapshot; the answer is still under way.
Read(p) ==
    /\ at[p] = "query"
    /\ got' = [got EXCEPT ![p] = [val |-> row, age |-> 0]]
    /\ Go(p, "read")
    /\ UNCHANGED <<rowVars, cache, local, op, left, history>>

Joined == {q \in Reqs : at[q] = "joined"}

\* The flight lands: those who joined have the leader's row, and only the
\* leader fills Redis.
Land(p) ==
    /\ at[p] = "read"
    /\ got' = [q \in Reqs |-> IF q \in Joined THEN got[p] ELSE got[q]]
    /\ at' = [q \in Reqs |-> CASE q = p -> "fill" [] q \in Joined -> Fetched(q)
                              [] OTHER -> at[q]]
    /\ UNCHANGED <<rowVars, cache, local, op, left, history>>

\* Mutation: those who joined are not told.
LeaderFails(p) ==
    /\ Leading(p)
    /\ End(p)
    /\ UNCHANGED <<rowVars, cache, local, answered>>

\* The leader's query fails, and so do all who joined.
FlightFails(p) ==
    /\ Leading(p)
    /\ LET failed == Joined \cup {p}
       IN  /\ at' = [q \in Reqs |-> IF q \in failed THEN "idle" ELSE at[q]]
           /\ op' = [q \in Reqs |-> IF q \in failed THEN "list" ELSE op[q]]
           /\ got' = [q \in Reqs |-> IF q \in failed THEN Nothing ELSE got[q]]
           /\ left' = [q \in Reqs |-> IF q \in failed THEN 0 ELSE left[q]]
           /\ floor' = [q \in Reqs |-> IF q \in failed THEN 0 ELSE floor[q]]
    /\ UNCHANGED <<rowVars, cache, local, answered>>

VersionOf(v) == IF v = None THEN 0 ELSE v.version

\* Mutation: the script sets without comparing.
SetAlways(c) ==
    \E t \in MinTTL..MaxTTL : cache' = [val |-> c.val, version |-> VersionOf(c.val),
                                        ttl |-> t, age |-> c.age]

\* Mutation: a refused script sets the expiry of the keys anew.
SetExtends(c) ==
    IF cache.version < VersionOf(c.val)
    THEN \E t \in MinTTL..MaxTTL : cache' = [val |-> c.val, version |-> VersionOf(c.val),
                                             ttl |-> t, age |-> c.age]
    ELSE \E t \in MinTTL..MaxTTL : cache' = [cache EXCEPT !.ttl = t]

\* SetCacheSchema, the script of cas.lua: an absent version counts as -1.
SetCacheSchema(c) ==
    IF cache.version < VersionOf(c.val)
    THEN \E t \in MinTTL..MaxTTL : cache' = [val |-> c.val, version |-> VersionOf(c.val),
                                             ttl |-> t, age |-> c.age]
    ELSE UNCHANGED cache

Fill(p) ==
    /\ at[p] = "fill"
    /\ SetCacheSchema(got[p])
    /\ Go(p, Fetched(p))
    /\ UNCHANGED <<rowVars, local, op, got, left, history>>

\* An error of Redis is only logged.
FillFails(p) ==
    /\ at[p] = "fill"
    /\ Go(p, Fetched(p))
    /\ UNCHANGED <<rowVars, cache, local, op, got, left, history>>

\* sc.Set.
Keep(p) ==
    /\ at[p] = "keep"
    /\ local' = [val |-> got[p].val, ttl |-> LocalTTL, age |-> got[p].age]
    /\ Go(p, "answer")
    /\ UNCHANGED <<rowVars, cache, op, got, left, history>>

\* ParseSpec rejects the row.
KeepFails(p) ==
    /\ at[p] = "keep"
    /\ got[p].val # None
    /\ End(p)
    /\ UNCHANGED <<rowVars, cache, local, answered>>

\* The schema is listed, or the event is checked and sent by it.
Answer(p) ==
    /\ at[p] = "answer"
    /\ End(p)
    /\ UNCHANGED <<rowVars, cache, local, answered>>

-----------------------------------------------------------------------------
(* Writing: CreateSchema, UpdateSchema, DeleteBus, DeleteSchema.           *)

\* CreateSchema sets Redis to the row it has made.
Create(p) ==
    /\ at[p] = "write" /\ op[p] = "create"
    /\ row = None
    /\ born < MaxBorn
    /\ row' = [born |-> born + 1, version |-> 1]
    /\ born' = born + 1
    /\ got' = [got EXCEPT ![p] = [val |-> row', age |-> 0]]
    /\ Go(p, "set")
    /\ UNCHANGED <<cache, local, op, left, history>>

\* UpdateSchema and DeleteBus raise the version and read the row again.
Update(p) ==
    /\ at[p] = "write" /\ op[p] \in {"update", "detach"}
    /\ row # None
    /\ row.version < MaxVersion
    /\ row' = [row EXCEPT !.version = @ + 1]
    /\ got' = [got EXCEPT ![p] = [val |-> row', age |-> 0]]
    /\ Go(p, "requery")
    /\ UNCHANGED <<born, cache, local, op, left, history>>

\* SourceTypeRepeat, SchemaNotFound, no schema on the bus, or an error before
\* the row was written.
WriteFails(p) ==
    /\ at[p] = "write"
    /\ End(p)
    /\ UNCHANGED <<rowVars, cache, local, answered>>

\* UpdateSchema reads by source and type, and sets null if the schema is gone;
\* DeleteBus reads by id, and leaves Redis alone if it is.
Requery(p) ==
    /\ at[p] = "requery"
    /\ op[p] = "update" \/ (row # None /\ row.born = got[p].val.born)
    /\ got' = [got EXCEPT ![p] = [val |-> row, age |-> 0]]
    /\ Go(p, "set")
    /\ UNCHANGED <<rowVars, cache, local, op, left, history>>

\* The error is only logged, or there is nothing to set.
RequeryFails(p) ==
    /\ at[p] = "requery"
    /\ answered' = Void
    /\ End(p)
    /\ UNCHANGED <<rowVars, cache, local>>

Set(p) ==
    /\ at[p] = "set"
    /\ SetCacheSchema(got[p])
    /\ answered' = IF answered # Void /\ answered < VersionOf(got[p].val)
                   THEN VersionOf(got[p].val) ELSE answered
    /\ End(p)
    /\ UNCHANGED <<rowVars, local>>

SetFails(p) ==
    /\ at[p] = "set"
    /\ answered' = Void
    /\ End(p)
    /\ UNCHANGED <<rowVars, cache, local>>

\* DeleteSchema, of one type or of all types of the source.
Remove(p) ==
    /\ at[p] = "write" /\ op[p] \in {"delete", "deleteSource"}
    /\ row' = None
    /\ answered' = Void
    /\ Go(p, "del")
    /\ UNCHANGED <<born, cache, local, op, got, left, floor>>

\* Del of both keys.
Del(p) ==
    /\ at[p] = "del"
    /\ cache' = Empty
    /\ End(p)
    /\ UNCHANGED <<rowVars, local, answered>>

\* For all types Scan finds the keys of the source first and stops after a
\* thousand; it may have found one of the two.
DelFound(p) ==
    /\ at[p] = "del" /\ op[p] = "deleteSource"
    /\ \/ cache' = [cache EXCEPT !.val = Absent, !.age = 0,
                                 !.ttl = IF cache.version = -1 THEN 0 ELSE @]
       \/ cache' = [cache EXCEPT !.version = -1,
                                 !.ttl = IF cache.val = Absent THEN 0 ELSE @]
    /\ End(p)
    /\ UNCHANGED <<rowVars, local, answered>>

\* An error of Scan or Del is only logged.
DelFails(p) ==
    /\ at[p] = "del"
    /\ End(p)
    /\ UNCHANGED <<rowVars, cache, local, answered>>

\* An error of Redis other than a miss is the answer of a reader.
CacheFails(p) ==
    /\ at[p] = "cache"
    /\ End(p)
    /\ UNCHANGED <<rowVars, cache, local, answered>>

-----------------------------------------------------------------------------
\* Time passes. A request that has none left acts or fails first; who waits
\* in a flight looks at the leader's time only.
Tick ==
    /\ \A p \in Reqs : at[p] \in {"idle", "joined"} \/ left[p] > 0
    /\ left' = [p \in Reqs |-> IF left[p] > 0 THEN left[p] - 1 ELSE 0]
    /\ got' = [p \in Reqs |-> IF Holding(p) THEN [got[p] EXCEPT !.age = @ + 1] ELSE got[p]]
    /\ cache' = IF cache.ttl <= 1 THEN Empty
                ELSE [cache EXCEPT !.ttl = @ - 1, !.age = IF cache.val = Absent THEN 0 ELSE @ + 1]
    /\ local' = IF local.ttl <= 1 THEN Forgotten
                ELSE [local EXCEPT !.ttl = @ - 1, !.age = @ + 1]
    /\ UNCHANGED <<rowVars, at, op, history>>

-----------------------------------------------------------------------------
Reader(p) ==
    \/ LocalHit(p) \/ LocalMiss(p) \/ CacheHit(p) \/ CacheMiss(p) \/ CacheFails(p)
    \/ Lead(p) \/ Join(p) \/ Read(p) \/ Land(p) \/ FlightFails(p)
    \/ Fill(p) \/ FillFails(p) \/ Keep(p) \/ KeepFails(p) \/ Answer(p)

Writer(p) ==
    \/ Create(p) \/ Update(p) \/ WriteFails(p)
    \/ Requery(p) \/ RequeryFails(p) \/ Set(p) \/ SetFails(p)
    \/ Remove(p) \/ Del(p) \/ DelFound(p) \/ DelFails(p)

Next == Tick \/ \E p \in Reqs : Start(p) \/ Reader(p) \/ Writer(p)

Spec == Init /\ [][Next]_vars

-----------------------------------------------------------------------------
(* Properties.                                                             *)

\* Whatever fails and whoever deletes the schema and creates it again, a
\* request answers with a row that has been in the database not longer ago
\* than the times to live and the timeouts add up to. No chain of fills, hits
\* and flights extends it, although a late fill may bring back a row that was
\* deleted and make the script refuse its successor (cas.lua, event.go).
BoundedStaleness ==
    \A p \in Reqs : at[p] = "answer" =>
        got[p].age <= ReqTime + (IF op[p] = "post" THEN LocalAge ELSE CacheAge)

\* When CreateSchema or UpdateSchema has answered, FetchSchema answers with
\* that version or a newer one, whatever older fills are under way: the script
\* refuses those that come before the version expires, and their requests'
\* time is over when it does. This needs that Redis was set and that nobody
\* deletes the schema.
AnsweredIsSeen ==
    answered # Void => \A p \in Reqs : at[p] = "answer" /\ floor[p] > 0 =>
        got[p].val # None /\ got[p].val.version >= floor[p]
=============================================================================
