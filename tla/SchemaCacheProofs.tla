-------------------------- MODULE SchemaCacheProofs -------------------------
(***************************************************************************)
(* What the caches of a schema answer, for any timeouts and times to live, *)
(* any versions and any number of requests. BoundedStaleness: the age of a *)
(* copy and what is left of its or its request's time do not add up to     *)
(* more than at the beginning (Aged). AnsweredIsSeen: as long as nothing   *)
(* is deleted, a request that may still set Redis to an older version has  *)
(* less time left than the version Redis has, so when that has expired     *)
(* nobody is left who holds an older one than was answered (SetterSeen).   *)
(***************************************************************************)
EXTENDS SchemaCache, TLAPS

USE SchemaCacheAssumption, NoRow

-----------------------------------------------------------------------------
(* Types.                                                                  *)

RowOK == /\ row \in Rows \cup {None}
         /\ born \in 0..MaxBorn
         /\ row # None => row.born <= born

CacheOK == /\ cache \in [val : Rows \cup {None, Absent}, version : -1..MaxVersion,
                         ttl : Nat, age : Nat]
           /\ cache.ttl = 0 <=> cache.val = Absent /\ cache.version = -1
           /\ local \in [val : Rows \cup {None, Absent}, ttl : 0..LocalTTL, age : Nat]
           /\ local.ttl = 0 <=> local.val = Absent

ReqsOK == /\ at \in [Reqs -> Places]
          /\ op \in [Reqs -> Ops]
          /\ got \in [Reqs -> Copies]
          /\ \A p \in Reqs : got[p] # Nothing => Holding(p)
          /\ left \in [Reqs -> 0..ReqTime]

FlightOK == /\ \A p, q \in Reqs : Leading(p) /\ Leading(q) => p = q
            /\ \A p \in Reqs : at[p] = "joined" => \E q \in Reqs : Leading(q)

HistoryOK == /\ answered \in {Void} \cup 0..MaxVersion
             /\ floor \in [Reqs -> 0..MaxVersion]

Types == RowOK /\ CacheOK /\ ReqsOK /\ FlightOK /\ HistoryOK

LEMMA TypesGiveTypeOK == Types => TypeOK
  BY DEF Types, RowOK, CacheOK, ReqsOK, FlightOK, HistoryOK, TypeOK

LEMMA VersionRange ==
    ASSUME NEW v \in Rows \cup {None}
    PROVE  VersionOf(v) \in 0..MaxVersion
  BY DEF VersionOf, Rows

\* What a request that ends leaves of the others.
LEMMA EndKeeps ==
    ASSUME ReqsOK, FlightOK, HistoryOK, NEW p \in Reqs, ~Leading(p), End(p)
    PROVE  ReqsOK' /\ FlightOK' /\ floor' \in [Reqs -> 0..MaxVersion]
<1>1. ReqsOK'
  BY DEF ReqsOK, End, Go, Places, Ops, Nothing, Copies, Holding
<1>2. \A q \in Reqs : Leading(q)' <=> Leading(q)
  BY DEF ReqsOK, End, Go, Leading
<1>3. FlightOK'
  BY <1>2 DEF FlightOK, ReqsOK, End, Go
<1>4. QED
  BY <1>1, <1>3 DEF HistoryOK, End

\* A request goes on, to a place where it does not lead or wait for a flight.
LEMMA GoKeeps ==
    ASSUME ReqsOK, FlightOK, NEW p \in Reqs, ~Leading(p),
           NEW place \in Places \ {"query", "read", "joined"}, Go(p, place),
           got' \in [Reqs -> Copies], \A q \in Reqs : got'[q] # Nothing => Holding(q)',
           UNCHANGED <<op, left>>
    PROVE  ReqsOK' /\ FlightOK'
<1>1. ReqsOK'
  BY DEF ReqsOK, Go
<1>2. \A q \in Reqs : Leading(q)' <=> Leading(q)
  BY DEF ReqsOK, Go, Leading
<1>3. QED
  BY <1>1, <1>2 DEF FlightOK, ReqsOK, Go

LEMMA SetKeeps ==
    ASSUME CacheOK, NEW c \in Copies, SetCacheSchema(c), UNCHANGED local
    PROVE  CacheOK'
<1>1. CASE UNCHANGED cache
  BY <1>1 DEF CacheOK
<1>2. CASE \E t \in MinTTL..MaxTTL : cache' = [val |-> c.val, version |-> VersionOf(c.val),
                                               ttl |-> t, age |-> c.age]
  <2>1. c.val \in Rows \cup {None} /\ c.age \in Nat
    BY DEF Copies
  <2>2. PICK t \in MinTTL..MaxTTL : cache' = [val |-> c.val, version |-> VersionOf(c.val),
                                              ttl |-> t, age |-> c.age]
    BY <1>2
  <2>3. QED
    BY <2>1, <2>2, VersionRange DEF CacheOK
<1>3. QED
  BY <1>1, <1>2 DEF SetCacheSchema

LEMMA InitTypes == Init => Types
  BY DEF Init, Types, RowOK, CacheOK, ReqsOK, FlightOK, HistoryOK, Empty, Forgotten,
         Nothing, Copies, Places, Ops, Leading, Void

LEMMA TypesReader ==
    ASSUME Types, NEW p \in Reqs, Reader(p)
    PROVE  Types'
<1> USE DEF Types
<1>0. Nothing \in Copies /\ got[p] \in Copies
  BY DEF ReqsOK, Nothing, Copies
<1>1. ASSUME LocalHit(p) \/ LocalMiss(p) \/ CacheHit(p) \/ CacheMiss(p) PROVE Types'
  <2>1. /\ got' \in [Reqs -> Copies]
        /\ \A q \in Reqs : got'[q] # Nothing => Holding(q)'
        /\ UNCHANGED <<op, left>>
        /\ ~Leading(p)
        /\ \E place \in Places \ {"query", "read", "joined"} : Go(p, place)
    BY <1>1, SMTT(30) DEF LocalHit, LocalMiss, CacheHit, CacheMiss, ReqsOK, CacheOK, Copies, Fetched,
                Go, Holding, Leading, Places
  <2>2. ReqsOK' /\ FlightOK'
    BY <2>1, GoKeeps
  <2>3. QED
    BY <1>1, <2>2 DEF LocalHit, LocalMiss, CacheHit, CacheMiss, RowOK, CacheOK, HistoryOK,
                      rowVars, history
<1>2. ASSUME CacheFails(p) \/ KeepFails(p) \/ Answer(p) PROVE Types'
  <2>1. ~Leading(p) /\ End(p)
    BY <1>2 DEF CacheFails, KeepFails, Answer, Leading
  <2>2. QED
    BY <1>2, <2>1, EndKeeps DEF CacheFails, KeepFails, Answer, RowOK, CacheOK, HistoryOK, rowVars
<1>3. ASSUME Lead(p) PROVE Types'
  <2>1. ReqsOK'
    BY <1>3 DEF Lead, ReqsOK, Go, Places, Holding
  <2>2. FlightOK'
    BY <1>3 DEF Lead, FlightOK, ReqsOK, Go, Leading
  <2>3. QED
    BY <1>3, <2>1, <2>2 DEF Lead, RowOK, CacheOK, HistoryOK, rowVars, history
<1>4. ASSUME Join(p) PROVE Types'
  <2>1. ReqsOK'
    BY <1>4 DEF Join, ReqsOK, Go, Places, Holding
  <2>2. \A q \in Reqs : Leading(q)' <=> Leading(q)
    BY <1>4 DEF Join, ReqsOK, Go, Leading
  <2>3. FlightOK'
    BY <1>4, <2>2 DEF Join, FlightOK, ReqsOK, Go
  <2>4. QED
    BY <1>4, <2>1, <2>3 DEF Join, RowOK, CacheOK, HistoryOK, rowVars, history
<1>5. ASSUME Read(p) PROVE Types'
  <2>1. ReqsOK'
    BY <1>5 DEF Read, ReqsOK, RowOK, Go, Places, Holding, Copies
  <2>2. \A q \in Reqs : Leading(q)' <=> Leading(q)
    BY <1>5 DEF Read, ReqsOK, Go, Leading
  <2>3. FlightOK'
    BY <1>5, <2>2 DEF Read, FlightOK, ReqsOK, Go
  <2>4. QED
    BY <1>5, <2>1, <2>3 DEF Read, RowOK, CacheOK, HistoryOK, rowVars, history
<1>6. ASSUME Land(p) PROVE Types'
  <2>1. ReqsOK'
    <3>1. \A q \in Reqs : Fetched(q) \in {"keep", "answer"}
      BY DEF Fetched
    <3>2. at' \in [Reqs -> Places] /\ got' \in [Reqs -> Copies]
      BY <1>0, <1>6, <3>1 DEF Land, ReqsOK, Places
    <3>3. ASSUME NEW q \in Reqs, got'[q] # Nothing PROVE Holding(q)'
      BY <1>6, <3>1, <3>3 DEF Land, ReqsOK, Holding, Joined
    <3>4. QED
      BY <1>6, <3>2, <3>3 DEF Land, ReqsOK
  <2>2. \A q \in Reqs : ~Leading(q)' /\ at'[q] # "joined"
    BY <1>6 DEF Land, FlightOK, ReqsOK, Leading, Joined, Fetched
  <2>3. QED
    BY <1>6, <2>1, <2>2 DEF Land, FlightOK, RowOK, CacheOK, HistoryOK, rowVars, history
<1>7. ASSUME FlightFails(p) PROVE Types'
  <2>1. ReqsOK'
    BY <1>0, <1>7 DEF FlightFails, ReqsOK, Places, Ops, Holding
  <2>2. \A q \in Reqs : ~Leading(q)' /\ at'[q] # "joined"
    BY <1>7 DEF FlightFails, FlightOK, ReqsOK, Leading, Joined
  <2>3. floor' \in [Reqs -> 0..MaxVersion]
    BY <1>7 DEF FlightFails, HistoryOK
  <2>4. QED
    BY <1>7, <2>1, <2>2, <2>3 DEF FlightFails, FlightOK, RowOK, CacheOK, HistoryOK, rowVars
<1>8. ASSUME Fill(p) \/ FillFails(p) \/ Keep(p) PROVE Types'
  <2>1. CacheOK'
    <3>1. CASE Fill(p)
      BY <1>0, <3>1, SetKeeps DEF Fill
    <3>2. CASE FillFails(p)
      BY <3>2 DEF FillFails, CacheOK
    <3>3. CASE Keep(p)
      BY <1>0, <3>3 DEF Keep, CacheOK, Copies
    <3>4. QED
      BY <1>8, <3>1, <3>2, <3>3
  <2>2. /\ UNCHANGED <<got, op, left>>
        /\ ~Leading(p)
        /\ \E place \in Places \ {"query", "read", "joined"} :
             Go(p, place) /\ place \in {"keep", "answer"}
    BY <1>8 DEF Fill, FillFails, Keep, Fetched, Leading, Places
  <2>3. \A q \in Reqs : got'[q] # Nothing => Holding(q)'
    BY <2>2 DEF ReqsOK, Holding, Go
  <2>4. ReqsOK' /\ FlightOK'
    BY <2>2, <2>3, GoKeeps DEF ReqsOK
  <2>5. QED
    BY <1>8, <2>1, <2>4 DEF Fill, FillFails, Keep, RowOK, HistoryOK, rowVars, history
<1>9. QED
  BY <1>1, <1>2, <1>3, <1>4, <1>5, <1>6, <1>7, <1>8 DEF Reader

LEMMA TypesWriter ==
    ASSUME Types, NEW p \in Reqs, Writer(p)
    PROVE  Types'
<1> USE DEF Types
<1>0. got[p] \in Copies
  BY DEF ReqsOK
<1>1. ASSUME Create(p) \/ Update(p) \/ Requery(p) \/ Remove(p) PROVE Types'
  <2>1. row' \in Rows \cup {None} /\ RowOK'
    BY <1>1 DEF Create, Update, Requery, Remove, RowOK, Rows, rowVars
  <2>2. CacheOK'
    BY <1>1 DEF Create, Update, Requery, Remove, CacheOK
  <2>3. HistoryOK'
    BY <1>1 DEF Create, Update, Requery, Remove, HistoryOK, history
  <2>4. /\ got' = [got EXCEPT ![p] = [val |-> row', age |-> 0]] \/ UNCHANGED got
        /\ UNCHANGED <<op, left>>
        /\ ~Leading(p)
        /\ \/ Go(p, "set")
           \/ Go(p, "requery")
           \/ Go(p, "del") /\ UNCHANGED got /\ at[p] = "write"
    BY <1>1 DEF Create, Update, Requery, Remove, Leading, rowVars
  <2>5. got' \in [Reqs -> Copies]
    BY <2>1, <2>4 DEF ReqsOK, Copies
  <2>6. \A q \in Reqs : got'[q] # Nothing => Holding(q)'
    BY <2>4 DEF ReqsOK, Holding, Go
  <2>7. \E place \in Places \ {"query", "read", "joined"} : Go(p, place)
    BY <2>4 DEF Places
  <2>8. ReqsOK' /\ FlightOK'
    BY <2>4, <2>5, <2>6, <2>7, GoKeeps
  <2>9. QED
    BY <2>1, <2>2, <2>3, <2>8
<1>2. ASSUME \/ WriteFails(p) \/ RequeryFails(p) \/ Set(p) \/ SetFails(p)
             \/ Del(p) \/ DelFound(p) \/ DelFails(p)
      PROVE  Types'
  <2>1. ~Leading(p) /\ End(p) /\ UNCHANGED <<rowVars, local>>
    BY <1>2 DEF WriteFails, RequeryFails, Set, SetFails, Del, DelFound, DelFails, Leading
  <2>2. ReqsOK' /\ FlightOK' /\ floor' \in [Reqs -> 0..MaxVersion] /\ RowOK'
    BY <2>1, EndKeeps DEF RowOK, rowVars
  <2>3. answered' \in {Void} \cup 0..MaxVersion
    BY <1>0, <1>2, VersionRange DEF WriteFails, RequeryFails, Set, SetFails, Del, DelFound,
                             DelFails, HistoryOK, Copies
  <2>4. CacheOK'
    <3>1. CASE Set(p)
      BY <1>0, <3>1, SetKeeps DEF Set
    <3>2. CASE Del(p)
      BY <3>2 DEF Del, CacheOK, Empty
    <3>3. CASE DelFound(p)
      <4>1. CASE cache' = [cache EXCEPT !.val = Absent, !.age = 0,
                                        !.ttl = IF cache.version = -1 THEN 0 ELSE @]
        <5>1. cache' = [val |-> Absent, version |-> cache.version,
                        ttl |-> IF cache.version = -1 THEN 0 ELSE cache.ttl, age |-> 0]
          BY <4>1 DEF CacheOK
        <5>2. QED
          BY <2>1, <5>1 DEF CacheOK
      <4>2. CASE cache' = [cache EXCEPT !.version = -1,
                                        !.ttl = IF cache.val = Absent THEN 0 ELSE @]
        <5>1. cache' = [val |-> cache.val, version |-> -1,
                        ttl |-> IF cache.val = Absent THEN 0 ELSE cache.ttl,
                        age |-> cache.age]
          BY <4>2 DEF CacheOK
        <5>2. -1 \in -1..MaxVersion
          OBVIOUS
        <5>3. QED
          BY <2>1, <5>1, <5>2 DEF CacheOK
      <4>3. QED
        BY <3>3, <4>1, <4>2 DEF DelFound
    <3>4. CASE UNCHANGED <<cache, local>>
      BY <3>4 DEF CacheOK
    <3>5. QED
      BY <1>2, <3>1, <3>2, <3>3, <3>4 DEF WriteFails, RequeryFails, SetFails, DelFails
  <2>5. QED
    BY <2>2, <2>3, <2>4 DEF HistoryOK
<1>3. QED
  BY <1>1, <1>2 DEF Writer

LEMMA TypesTick == Types /\ Tick => Types'
<1> SUFFICES ASSUME Types, Tick PROVE Types'
  OBVIOUS
<1> USE DEF Types
<1>1. RowOK' /\ HistoryOK'
  BY DEF Tick, RowOK, HistoryOK, rowVars, history
<1>2. CacheOK'
  <2>1. cache' \in [val : Rows \cup {None, Absent}, version : -1..MaxVersion,
                    ttl : Nat, age : Nat]
        /\ (cache'.ttl = 0 <=> cache'.val = Absent /\ cache'.version = -1)
    <3>1. CASE cache.ttl <= 1
      BY <3>1 DEF Tick, Empty
    <3>2. CASE ~(cache.ttl <= 1)
      <4>1. cache' = [val |-> cache.val, version |-> cache.version, ttl |-> cache.ttl - 1,
                      age |-> IF cache.val = Absent THEN 0 ELSE cache.age + 1]
        BY <3>2 DEF Tick, CacheOK
      <4>2. cache.ttl - 1 \in Nat \ {0}
        BY <3>2 DEF CacheOK
      <4>3. QED
        BY <3>2, <4>1, <4>2 DEF CacheOK
    <3>3. QED
      BY <3>1, <3>2
  <2>2. local' \in [val : Rows \cup {None, Absent}, ttl : 0..LocalTTL, age : Nat]
        /\ (local'.ttl = 0 <=> local'.val = Absent)
    <3>1. CASE local.ttl <= 1
      BY <3>1 DEF Tick, Forgotten
    <3>2. CASE ~(local.ttl <= 1)
      <4>1. local' = [val |-> local.val, ttl |-> local.ttl - 1, age |-> local.age + 1]
        BY <3>2 DEF Tick, CacheOK
      <4>2. QED
        BY <3>2, <4>1 DEF CacheOK
    <3>3. QED
      BY <3>1, <3>2
  <2>3. QED
    BY <2>1, <2>2 DEF CacheOK
<1>3. FlightOK'
  BY DEF Tick, FlightOK, Leading
<1>4. ReqsOK'
  <2>1. got' \in [Reqs -> Copies]
    BY DEF Tick, ReqsOK, Copies
  <2>2. left' \in [Reqs -> 0..ReqTime]
    BY DEF Tick, ReqsOK
  <2>3. \A p \in Reqs : got'[p] # Nothing => Holding(p)'
    BY DEF Tick, ReqsOK, Holding
  <2>4. QED
    BY <2>1, <2>2, <2>3 DEF Tick, ReqsOK
<1>5. QED
  BY <1>1, <1>2, <1>3, <1>4

LEMMA TypesStart ==
    ASSUME Types, NEW p \in Reqs, Start(p)
    PROVE  Types'
<1> USE DEF Types
<1>1. PICK o \in Ops :
        /\ op' = [op EXCEPT ![p] = o]
        /\ Go(p, CASE o = "post" -> "local" [] o = "list" -> "cache" [] OTHER -> "write")
        /\ floor' = [floor EXCEPT ![p] = IF o = "list" /\ answered # Void THEN answered ELSE 0]
  BY DEF Start
<1>2. PICK place \in {"local", "cache", "write"} : Go(p, place)
  BY <1>1 DEF Ops
<1>3. at[p] = "idle" /\ UNCHANGED <<rowVars, cache, local, got, answered>>
      /\ left' = [left EXCEPT ![p] = ReqTime]
  BY DEF Start
<1>4. ReqsOK'
  BY <1>1, <1>2, <1>3 DEF ReqsOK, Go, Places, Holding
<1>5. \A q \in Reqs : Leading(q)' <=> Leading(q)
  BY <1>2, <1>3 DEF ReqsOK, Go, Leading
<1>6. FlightOK'
  BY <1>2, <1>3, <1>5 DEF FlightOK, ReqsOK, Go
<1>7. floor' \in [Reqs -> 0..MaxVersion]
  BY <1>1 DEF HistoryOK
<1>8. QED
  BY <1>3, <1>4, <1>6, <1>7 DEF RowOK, CacheOK, HistoryOK, rowVars

LEMMA TypesStep == Types /\ [Next]_vars => Types'
<1>1. ASSUME Types, UNCHANGED vars PROVE Types'
  BY <1>1 DEF vars, Types, RowOK, CacheOK, ReqsOK, FlightOK, HistoryOK, Leading, Holding
<1>2. QED
  BY <1>1, TypesTick, TypesStart, TypesReader, TypesWriter DEF Next

\* The state is of the declared types, one request at most asks the database
\* for those who missed, and none of them waits when there is no such request.
THEOREM TypeCorrect == Spec => []TypeOK
<1>1. Spec => []Types
  BY InitTypes, TypesStep, PTL DEF Spec
<1>2. QED
  BY <1>1, TypesGiveTypeOK, PTL

-----------------------------------------------------------------------------
(* How old the copies become.                                              *)

CachesAged ==
    /\ cache.val # Absent => cache.age + cache.ttl <= CacheAge
    /\ local.val # Absent => local.age + local.ttl <= LocalAge

\* The place is that of a request, o is what it does, age how old the row is
\* that it holds, and rest what is left of its time.
AgedAt(place, o, age, rest) ==
    /\ place \in {"read", "fill", "requery", "set"} => age + rest <= ReqTime
    /\ place = "keep" => age + rest <= CacheAge + ReqTime
    /\ place = "answer" =>
         age + rest <= ReqTime + (IF o = "post" THEN LocalAge ELSE CacheAge)
    /\ place = "local" => o = "post"

Aged == CachesAged /\ \A p \in Reqs : AgedAt(at[p], op[p], got[p].age, left[p])

AgedInv == Types /\ Aged

LEMMA Numbers ==
    ASSUME Types
    PROVE  /\ cache.age \in Nat /\ cache.ttl \in Nat
           /\ local.age \in Nat /\ local.ttl \in Nat
           /\ \A p \in Reqs : /\ got[p] \in Copies /\ got[p].age \in Nat
                              /\ left[p] \in 0..ReqTime /\ at[p] \in Places
           /\ CacheAge \in Nat /\ LocalAge \in Nat
           /\ ReqTime + MaxTTL <= CacheAge
           /\ CacheAge + ReqTime + LocalTTL <= LocalAge
  BY DEF Types, CacheOK, ReqsOK, Copies, CacheAge, LocalAge

\* Steps of one request.
LEMMA AgedStep ==
    ASSUME AgedInv, NEW p \in Reqs, CachesAged',
           \A q \in Reqs \ {p} : /\ at'[q] = at[q] /\ op'[q] = op[q]
                                 /\ got'[q] = got[q] /\ left'[q] = left[q],
           AgedAt(at'[p], op'[p], got'[p].age, left'[p])
    PROVE  Aged'
<1>1. ASSUME NEW q \in Reqs PROVE AgedAt(at'[q], op'[q], got'[q].age, left'[q])
  BY DEF AgedInv, Aged
<1>2. QED
  BY <1>1 DEF Aged

LEMMA AgedEnd ==
    ASSUME AgedInv, NEW p \in Reqs, End(p), CachesAged'
    PROVE  Aged'
<1>1. at'[p] = "idle"
  BY DEF End, Go, AgedInv, Types, ReqsOK
<1>2. AgedAt(at'[p], op'[p], got'[p].age, left'[p])
  BY <1>1 DEF AgedAt
<1>3. QED
  BY <1>2, AgedStep DEF End, Go, AgedInv, Types, ReqsOK

\* A row that was read within the request's time.
LEMMA AgedSet ==
    ASSUME Types, CachesAged, NEW c \in Copies, c.age <= ReqTime, SetCacheSchema(c),
           UNCHANGED local
    PROVE  CachesAged'
<1>1. CASE UNCHANGED cache
  BY <1>1 DEF CachesAged
<1>2. CASE \E t \in MinTTL..MaxTTL : cache' = [val |-> c.val, version |-> VersionOf(c.val),
                                               ttl |-> t, age |-> c.age]
  <2>1. PICK t \in MinTTL..MaxTTL : cache' = [val |-> c.val, version |-> VersionOf(c.val),
                                              ttl |-> t, age |-> c.age]
    BY <1>2
  <2>2. cache'.age = c.age /\ cache'.ttl = t /\ c.age \in Nat
    BY <2>1 DEF Copies
  <2>3. cache'.age + cache'.ttl <= CacheAge
    BY <2>2 DEF CacheAge
  <2>4. QED
    BY <2>3 DEF CachesAged
<1>3. QED
  BY <1>1, <1>2 DEF SetCacheSchema

LEMMA AgedReader ==
    ASSUME AgedInv, NEW p \in Reqs, Reader(p)
    PROVE  Aged'
<1>0. Types /\ CachesAged /\ \A q \in Reqs : AgedAt(at[q], op[q], got[q].age, left[q])
  BY DEF AgedInv, Aged
<1>1. ASSUME LocalHit(p) \/ LocalMiss(p) \/ CacheHit(p) \/ CacheMiss(p) \/ Lead(p)
             \/ Join(p) \/ Read(p)
      PROVE  Aged'
  <2>1. CachesAged'
    BY <1>0, <1>1 DEF LocalHit, LocalMiss, CacheHit, CacheMiss, Lead, Join, Read, CachesAged
  <2>2. \A q \in Reqs \ {p} : /\ at'[q] = at[q] /\ op'[q] = op[q]
                              /\ got'[q] = got[q] /\ left'[q] = left[q]
    BY <1>0, <1>1 DEF LocalHit, LocalMiss, CacheHit, CacheMiss, Lead, Join, Read, Go,
                      Types, ReqsOK
  <2>3. op'[p] = op[p] /\ left'[p] = left[p]
    BY <1>1 DEF LocalHit, LocalMiss, CacheHit, CacheMiss, Lead, Join, Read
  <2>4. CASE LocalHit(p)
    <3>1. at'[p] = "answer" /\ got'[p].age = local.age /\ op[p] = "post"
      BY <1>0, <2>4 DEF LocalHit, Go, Types, ReqsOK, AgedAt
    <3>2. local.age + local.ttl <= LocalAge
      BY <1>0, <2>4 DEF LocalHit, CachesAged
    <3>3. got'[p].age + left'[p] <= ReqTime + LocalAge
      BY <1>0, <2>3, <3>1, <3>2, Numbers
    <3>4. QED
      BY <2>1, <2>2, <2>3, <3>1, <3>3, AgedStep DEF AgedAt
  <2>5. CASE CacheHit(p)
    <3>1. at'[p] \in {"keep", "answer"} /\ got'[p].age = cache.age
      BY <1>0, <2>5 DEF CacheHit, Go, Types, ReqsOK, Fetched
    <3>2. cache.age + cache.ttl <= CacheAge
      BY <1>0, <2>5 DEF CacheHit, CachesAged
    <3>3. /\ got'[p].age + left'[p] <= CacheAge + ReqTime
          /\ got'[p].age + left'[p] <= ReqTime + CacheAge
          /\ got'[p].age + left'[p] <= ReqTime + LocalAge
      BY <1>0, <2>3, <3>1, <3>2, Numbers
    <3>4. QED
      BY <2>1, <2>2, <2>3, <3>1, <3>3, AgedStep DEF AgedAt
  <2>6. CASE LocalMiss(p) \/ CacheMiss(p) \/ Lead(p) \/ Join(p)
    <3>1. at'[p] \in {"cache", "miss", "query", "joined"}
      BY <1>0, <2>6 DEF LocalMiss, CacheMiss, Lead, Join, Go, Types, ReqsOK
    <3>2. QED
      BY <2>1, <2>2, <3>1, AgedStep DEF AgedAt
  <2>7. CASE Read(p)
    <3>1. at'[p] = "read" /\ got'[p].age = 0
      BY <1>0, <2>7 DEF Read, Go, Types, ReqsOK
    <3>2. got'[p].age + left'[p] <= ReqTime
      BY <1>0, <2>3, <3>1, Numbers
    <3>3. QED
      BY <2>1, <2>2, <3>1, <3>2, AgedStep DEF AgedAt
  <2>8. QED
    BY <1>1, <2>4, <2>5, <2>6, <2>7
<1>2. ASSUME CacheFails(p) \/ KeepFails(p) \/ Answer(p) PROVE Aged'
  BY <1>0, <1>2, AgedEnd DEF CacheFails, KeepFails, Answer, CachesAged
<1>3. ASSUME Land(p) PROVE Aged'
  <2>1. CachesAged'
    BY <1>0, <1>3 DEF Land, CachesAged
  <2>2. got[p].age + left[p] <= ReqTime
    BY <1>0, <1>3 DEF Land, AgedAt
  <2>3. ASSUME NEW q \in Reqs PROVE AgedAt(at'[q], op'[q], got'[q].age, left'[q])
    <3>1. op'[q] = op[q] /\ left'[q] = left[q]
      BY <1>3 DEF Land
    <3>2. CASE q = p
      <4>1. at'[q] = "fill" /\ got'[q] = got[p]
        BY <1>3, <3>2 DEF Land, Joined
      <4>2. QED
        BY <2>2, <3>1, <3>2, <4>1 DEF AgedAt
    <3>3. CASE q # p /\ q \in Joined
      <4>1. at'[q] \in {"keep", "answer"} /\ got'[q] = got[p]
        BY <1>3, <3>3 DEF Land, Fetched
      <4>2. /\ got'[q].age + left'[q] <= CacheAge + ReqTime
            /\ got'[q].age + left'[q] <= ReqTime + CacheAge
            /\ got'[q].age + left'[q] <= ReqTime + LocalAge
        BY <1>0, <2>2, <3>1, <4>1, Numbers
      <4>3. QED
        BY <4>1, <4>2 DEF AgedAt
    <3>4. CASE q # p /\ q \notin Joined
      <4>1. at'[q] = at[q] /\ got'[q] = got[q]
        BY <1>3, <3>4 DEF Land
      <4>2. QED
        BY <1>0, <3>1, <4>1
    <3>5. QED
      BY <3>2, <3>3, <3>4
  <2>4. QED
    BY <2>1, <2>3 DEF Aged
<1>4. ASSUME FlightFails(p) PROVE Aged'
  <2>1. CachesAged'
    BY <1>0, <1>4 DEF FlightFails, CachesAged
  <2>2. ASSUME NEW q \in Reqs PROVE AgedAt(at'[q], op'[q], got'[q].age, left'[q])
    <3>1. CASE at'[q] = "idle"
      BY <3>1 DEF AgedAt
    <3>2. CASE /\ at'[q] = at[q] /\ op'[q] = op[q]
               /\ got'[q] = got[q] /\ left'[q] = left[q]
      BY <1>0, <3>2
    <3>3. QED
      BY <1>4, <3>1, <3>2 DEF FlightFails
  <2>3. QED
    BY <2>1, <2>2 DEF Aged
<1>5. ASSUME Fill(p) \/ FillFails(p) PROVE Aged'
  <2>1. /\ at[p] = "fill" /\ Go(p, Fetched(p))
        /\ UNCHANGED <<local, op, got, left>>
    BY <1>5 DEF Fill, FillFails
  <2>2. got[p].age + left[p] <= ReqTime
    BY <1>0, <2>1 DEF AgedAt
  <2>3. CachesAged'
    <3>1. CASE Fill(p)
      <4>1. got[p].age <= ReqTime /\ got[p] \in Copies
        BY <1>0, <2>2, Numbers
      <4>2. QED
        BY <1>0, <3>1, <4>1, AgedSet DEF Fill
    <3>2. CASE FillFails(p)
      BY <1>0, <3>2 DEF FillFails, CachesAged
    <3>3. QED
      BY <1>5, <3>1, <3>2
  <2>4. at'[p] \in {"keep", "answer"}
    BY <1>0, <2>1 DEF Go, Types, ReqsOK, Fetched
  <2>5. /\ got[p].age + left[p] <= CacheAge + ReqTime
        /\ got[p].age + left[p] <= ReqTime + CacheAge
        /\ got[p].age + left[p] <= ReqTime + LocalAge
    BY <1>0, <2>2, Numbers
  <2>6. AgedAt(at'[p], op'[p], got'[p].age, left'[p])
    BY <2>1, <2>4, <2>5 DEF AgedAt
  <2>7. QED
    BY <1>0, <2>1, <2>3, <2>6, AgedStep DEF Go, Types, ReqsOK
<1>6. ASSUME Keep(p) PROVE Aged'
  <2>1. /\ got[p].age + left[p] <= CacheAge + ReqTime
        /\ local'.age = got[p].age /\ local'.ttl = LocalTTL
        /\ at'[p] = "answer"
        /\ UNCHANGED <<cache, op, got, left>>
    BY <1>0, <1>6 DEF Keep, AgedAt, Go, Types, ReqsOK
  <2>2. /\ local'.age + local'.ttl <= LocalAge
        /\ got[p].age + left[p] <= ReqTime + CacheAge
        /\ got[p].age + left[p] <= ReqTime + LocalAge
    BY <1>0, <2>1, Numbers
  <2>3. CachesAged'
    BY <1>0, <2>1, <2>2 DEF CachesAged
  <2>4. AgedAt(at'[p], op'[p], got'[p].age, left'[p])
    BY <2>1, <2>2 DEF AgedAt
  <2>5. QED
    BY <1>0, <1>6, <2>1, <2>3, <2>4, AgedStep DEF Keep, Go, Types, ReqsOK
<1>7. QED
  BY <1>1, <1>2, <1>3, <1>4, <1>5, <1>6 DEF Reader

LEMMA AgedWriter ==
    ASSUME AgedInv, NEW p \in Reqs, Writer(p)
    PROVE  Aged'
<1>0. Types /\ CachesAged /\ \A q \in Reqs : AgedAt(at[q], op[q], got[q].age, left[q])
  BY DEF AgedInv, Aged
<1>1. ASSUME Create(p) \/ Update(p) \/ Requery(p) PROVE Aged'
  <2>1. /\ at'[p] \in {"requery", "set"} /\ got'[p].age = 0
        /\ UNCHANGED <<cache, local, op, left>>
    BY <1>0, <1>1 DEF Create, Update, Requery, Go, Types, ReqsOK
  <2>2. CachesAged'
    BY <1>0, <2>1 DEF CachesAged
  <2>3. got'[p].age + left'[p] <= ReqTime
    BY <1>0, <2>1, Numbers
  <2>4. AgedAt(at'[p], op'[p], got'[p].age, left'[p])
    BY <2>1, <2>3 DEF AgedAt
  <2>5. QED
    BY <1>0, <1>1, <2>2, <2>4, AgedStep DEF Create, Update, Requery, Go, Types, ReqsOK
<1>2. ASSUME Remove(p) PROVE Aged'
  <2>1. CachesAged'
    BY <1>0, <1>2 DEF Remove, CachesAged
  <2>2. at'[p] = "del"
    BY <1>0, <1>2 DEF Remove, Go, Types, ReqsOK
  <2>3. AgedAt(at'[p], op'[p], got'[p].age, left'[p])
    BY <2>2 DEF AgedAt
  <2>4. QED
    BY <1>0, <1>2, <2>1, <2>3, AgedStep DEF Remove, Go, Types, ReqsOK
<1>3. ASSUME WriteFails(p) \/ RequeryFails(p) \/ SetFails(p) \/ DelFails(p) PROVE Aged'
  BY <1>0, <1>3, AgedEnd DEF WriteFails, RequeryFails, SetFails, DelFails, CachesAged
<1>4. ASSUME Set(p) PROVE Aged'
  <2>1. got[p].age <= ReqTime /\ got[p] \in Copies
    BY <1>0, <1>4, Numbers DEF Set, AgedAt
  <2>2. CachesAged'
    BY <1>0, <1>4, <2>1, AgedSet DEF Set
  <2>3. QED
    BY <1>4, <2>2, AgedEnd DEF Set
<1>5. ASSUME Del(p) \/ DelFound(p) PROVE Aged'
  <2>1. \/ cache'.val = Absent
        \/ cache'.val = cache.val /\ cache'.age = cache.age /\
             (cache.val # Absent => cache'.ttl = cache.ttl)
    <3>1. CASE Del(p)
      BY <3>1 DEF Del, Empty
    <3>2. CASE DelFound(p)
      <4>1. CASE cache' = [cache EXCEPT !.val = Absent, !.age = 0,
                                        !.ttl = IF cache.version = -1 THEN 0 ELSE @]
        BY <1>0, <4>1 DEF Types, CacheOK
      <4>2. CASE cache' = [cache EXCEPT !.version = -1,
                                        !.ttl = IF cache.val = Absent THEN 0 ELSE @]
        BY <1>0, <4>2 DEF Types, CacheOK
      <4>3. QED
        BY <3>2, <4>1, <4>2 DEF DelFound
    <3>3. QED
      BY <1>5, <3>1, <3>2
  <2>2. CachesAged'
    BY <1>0, <1>5, <2>1 DEF Del, DelFound, CachesAged
  <2>3. QED
    BY <1>5, <2>2, AgedEnd DEF Del, DelFound
<1>6. QED
  BY <1>1, <1>2, <1>3, <1>4, <1>5 DEF Writer

LEMMA AgedStart ==
    ASSUME AgedInv, NEW p \in Reqs, Start(p)
    PROVE  Aged'
<1>1. CachesAged'
  BY DEF AgedInv, Aged, Start, CachesAged
<1>2. PICK o \in Ops :
        /\ op' = [op EXCEPT ![p] = o]
        /\ Go(p, CASE o = "post" -> "local" [] o = "list" -> "cache" [] OTHER -> "write")
  BY DEF Start
<1>3. /\ at'[p] \in {"local", "cache", "write"}
      /\ at'[p] = "local" => op'[p] = "post"
  BY <1>2 DEF Go, AgedInv, Types, ReqsOK, Ops
<1>4. AgedAt(at'[p], op'[p], got'[p].age, left'[p])
  BY <1>3 DEF AgedAt
<1>5. QED
  BY <1>1, <1>2, <1>4, AgedStep DEF Start, Go, AgedInv, Types, ReqsOK

LEMMA AgedTick == AgedInv /\ Tick => Aged'
<1> SUFFICES ASSUME AgedInv, Tick PROVE Aged'
  OBVIOUS
<1>0. Types /\ CachesAged /\ \A q \in Reqs : AgedAt(at[q], op[q], got[q].age, left[q])
  BY DEF AgedInv, Aged
<1>1. cache'.val # Absent => cache'.age + cache'.ttl <= CacheAge
  <2>1. CASE cache.ttl <= 1
    BY <2>1 DEF Tick, Empty
  <2>2. CASE ~(cache.ttl <= 1)
    <3>1. /\ cache'.val = cache.val /\ cache'.ttl = cache.ttl - 1
          /\ cache'.age = IF cache.val = Absent THEN 0 ELSE cache.age + 1
      BY <1>0, <2>2 DEF Tick, Types, CacheOK
    <3>2. QED
      BY <1>0, <3>1, Numbers DEF CachesAged
  <2>3. QED
    BY <2>1, <2>2
<1>2. local'.val # Absent => local'.age + local'.ttl <= LocalAge
  <2>1. CASE local.ttl <= 1
    BY <2>1 DEF Tick, Forgotten
  <2>2. CASE ~(local.ttl <= 1)
    <3>1. /\ local'.val = local.val /\ local'.ttl = local.ttl - 1
          /\ local'.age = local.age + 1
      BY <1>0, <2>2 DEF Tick, Types, CacheOK
    <3>2. QED
      BY <1>0, <3>1, Numbers DEF CachesAged
  <2>3. QED
    BY <2>1, <2>2
<1>3. ASSUME NEW p \in Reqs PROVE AgedAt(at'[p], op'[p], got'[p].age, left'[p])
  <2>1. at'[p] = at[p] /\ op'[p] = op[p]
    BY DEF Tick
  <2>2. CASE Holding(p)
    <3>1. left'[p] = left[p] - 1 /\ got'[p].age = got[p].age + 1
      BY <1>0, <2>2, Numbers DEF Tick, Holding, Copies
    <3>2. got'[p].age + left'[p] = got[p].age + left[p]
      BY <1>0, <3>1, Numbers
    <3>3. QED
      BY <1>0, <2>1, <3>2 DEF AgedAt
  <2>3. CASE ~Holding(p)
    BY <1>0, <2>1, <2>3 DEF AgedAt, Holding
  <2>4. QED
    BY <2>2, <2>3
<1>4. QED
  BY <1>1, <1>2, <1>3 DEF Aged, CachesAged

LEMMA AgedNext == AgedInv /\ [Next]_vars => AgedInv'
<1>1. ASSUME AgedInv, UNCHANGED vars PROVE Aged'
  BY <1>1 DEF vars, AgedInv, Aged, CachesAged
<1>2. AgedInv /\ [Next]_vars => Aged'
  BY <1>1, AgedTick, AgedStart, AgedReader, AgedWriter DEF Next
<1>3. QED
  BY <1>2, TypesStep DEF AgedInv

LEMMA AgedInit == Init => AgedInv
<1>1. Init => Aged
  BY DEF Init, Aged, CachesAged, AgedAt, Empty, Forgotten
<1>2. QED
  BY <1>1, InitTypes DEF AgedInv

LEMMA AgedIsBounded == AgedInv => BoundedStaleness
<1> SUFFICES ASSUME AgedInv, NEW p \in Reqs, at[p] = "answer"
             PROVE  got[p].age <= ReqTime + (IF op[p] = "post" THEN LocalAge ELSE CacheAge)
  BY DEF BoundedStaleness
<1>1. got[p].age + left[p] <= ReqTime + (IF op[p] = "post" THEN LocalAge ELSE CacheAge)
  BY DEF AgedInv, Aged, AgedAt
<1>2. QED
  BY <1>1, Numbers DEF AgedInv

\* FetchSchema and GetLocalCacheSchema answer with a row that is not older than
\* the times to live and the timeouts add up to (event.go).
THEOREM StalenessBounded == Spec => []BoundedStaleness
<1>1. Spec => []AgedInv
  BY AgedInit, AgedNext, PTL DEF Spec
<1>2. QED
  BY <1>1, AgedIsBounded, PTL

-----------------------------------------------------------------------------
(* What a reader sees of what a writer answered.                           *)

Version(p) == VersionOf(got[p].val)

\* The row's version only rises.
RowSeen ==
    /\ answered <= VersionOf(row)
    /\ cache.version <= VersionOf(row)

\* What Redis holds is not older than what was answered.
CacheSeen ==
    /\ cache.val = Absent <=> cache.version = -1
    /\ cache.val # Absent => /\ cache.version = VersionOf(cache.val)
                             /\ answered <= cache.version

\* A request that may set Redis to less has less time left than Redis' entry,
\* so when there is no entry there is no such request.
SetterSeen(p) ==
    at[p] \in {"read", "fill", "set"} =>
        /\ Version(p) <= VersionOf(row)
        /\ Version(p) < cache.version => left[p] < cache.ttl
        /\ cache.val = Absent => answered <= Version(p)

FloorSeen(p) ==
    /\ floor[p] <= answered
    /\ floor[p] > 0 => op[p] = "list"
    /\ at[p] \in {"read", "fill", "keep", "answer"} => floor[p] <= Version(p)

\* A flight that is joined after a miss has read what was answered.
FlightSeen(p) ==
    at[p] \in {"miss", "joined"} =>
        \A q \in Reqs : at[q] = "read" => floor[p] <= Version(q)

Undeleted == \A p \in Reqs : at[p] # "del"

Seen == /\ RowSeen /\ CacheSeen /\ Undeleted
        /\ \A p \in Reqs : SetterSeen(p) /\ FloorSeen(p) /\ FlightSeen(p)

SeenInv == AgedInv /\ (answered # Void => Seen)

\* What the types say of the numbers compared above.
LEMMA Versions ==
    ASSUME Types
    PROVE  /\ VersionOf(row) \in 0..MaxVersion /\ cache.version \in -1..MaxVersion
           /\ \A q \in Reqs : Version(q) \in 0..MaxVersion /\ floor[q] \in 0..MaxVersion
           /\ answered # Void => answered \in 0..MaxVersion
<1>1. \A q \in Reqs : got[q].val \in Rows \cup {None}
  BY DEF Types, ReqsOK, Copies
<1>2. QED
  BY <1>1, VersionRange DEF Types, RowOK, CacheOK, HistoryOK, Version

Others(p) ==
    \A q \in Reqs \ {p} :
        /\ at'[q] = at[q] /\ op'[q] = op[q] /\ got'[q] = got[q]
        /\ left'[q] = left[q] /\ floor'[q] = floor[q]

\* A step of p after which p has not just read or removed the row.
LEMMA SeenStep ==
    ASSUME Types, Types', Seen, NEW p \in Reqs, Others(p), answered <= answered',
           answered # Void, answered' # Void,
           RowSeen', CacheSeen', \A q \in Reqs \ {p} : SetterSeen(q)',
           at'[p] \notin {"read", "del"}, SetterSeen(p)', FloorSeen(p)',
           at'[p] \in {"miss", "joined"} =>
             \A q \in Reqs \ {p} : at[q] = "read" => floor'[p] <= Version(q)
    PROVE  Seen'
<1>1. Undeleted'
  BY DEF Seen, Undeleted, Others
<1>2. ASSUME NEW q \in Reqs PROVE SetterSeen(q)'
  OBVIOUS
<1>3. ASSUME NEW q \in Reqs PROVE FloorSeen(q)'
  <2>1. CASE q = p
    BY <2>1
  <2>2. CASE q # p
    <3>1. FloorSeen(q) /\ Version(q)' = Version(q)
      BY <2>2 DEF Seen, Others, Version
    <3>2. floor[q] <= answered'
      BY <3>1, Versions DEF FloorSeen, Types, HistoryOK
    <3>3. QED
      BY <2>2, <3>1, <3>2 DEF FloorSeen, Others
  <2>3. QED
    BY <2>1, <2>2
<1>4. ASSUME NEW q \in Reqs PROVE FlightSeen(q)'
  <2>1. ASSUME at'[q] \in {"miss", "joined"}, NEW x \in Reqs, at'[x] = "read"
        PROVE  floor'[q] <= Version(x)'
    <3>1. x # p /\ at[x] = "read" /\ Version(x)' = Version(x)
      BY <2>1 DEF Others, Version
    <3>2. CASE q = p
      BY <2>1, <3>1, <3>2
    <3>3. CASE q # p
      BY <2>1, <3>1, <3>3 DEF Others, Seen, FlightSeen
    <3>4. QED
      BY <3>2, <3>3
  <2>2. QED
    BY <2>1 DEF FlightSeen
<1>5. QED
  BY <1>1, <1>2, <1>3, <1>4 DEF Seen

\* ... which leaves the row and Redis alone.
LEMMA SeenQuiet ==
    ASSUME Types, Types', Seen, NEW p \in Reqs, Others(p), answered # Void,
           UNCHANGED <<row, cache, answered>>,
           at'[p] \notin {"read", "del"}, SetterSeen(p)', FloorSeen(p)',
           at'[p] \in {"miss", "joined"} =>
             \A q \in Reqs \ {p} : at[q] = "read" => floor'[p] <= Version(q)
    PROVE  Seen'
<1>1. RowSeen' /\ CacheSeen'
  BY DEF Seen, RowSeen, CacheSeen
<1>2. \A q \in Reqs \ {p} : SetterSeen(q)'
  BY DEF Seen, Others, SetterSeen, Version
<1>3. answered <= answered' /\ answered' # Void
  BY Versions
<1>4. QED
  BY <1>1, <1>2, <1>3, SeenStep

LEMMA SeenEnd ==
    ASSUME Types, Types', Seen, NEW p \in Reqs, End(p), answered # Void,
           UNCHANGED <<row, cache, answered>>
    PROVE  Seen'
<1>1. at'[p] = "idle" /\ floor'[p] = 0 /\ Others(p)
  BY DEF End, Go, Others, Types, ReqsOK, HistoryOK
<1>2. SetterSeen(p)' /\ FloorSeen(p)'
  BY <1>1, Versions DEF SetterSeen, FloorSeen
<1>3. QED
  BY <1>1, <1>2, SeenQuiet

\* The script leaves an entry that is at least as new as what it was given, and
\* that lasts longer than any request.
LEMMA SetSeen ==
    ASSUME Types, Seen, NEW p \in Reqs, at[p] \in {"fill", "set"}, answered # Void,
           SetCacheSchema(got[p])
    PROVE  /\ cache'.val # Absent /\ cache'.version # -1
           /\ cache'.version = VersionOf(cache'.val)
           /\ cache'.version <= VersionOf(row)
           /\ Version(p) <= cache'.version /\ answered <= cache'.version
           /\ \A q \in Reqs : at[q] \in {"read", "fill", "set"}
                /\ Version(q) < cache'.version => left[q] < cache'.ttl
<1>1. Version(p) \in Nat /\ Version(p) <= VersionOf(row) /\ got[p].val \in Rows \cup {None}
  BY Versions DEF Seen, SetterSeen, Types, ReqsOK, Copies
<1>2. CASE cache.version < Version(p)
  <2>1. PICK t \in MinTTL..MaxTTL : cache' = [val |-> got[p].val, version |-> Version(p),
                                              ttl |-> t, age |-> got[p].age]
    BY <1>2 DEF SetCacheSchema, Version
  <2>2. answered <= Version(p)
    BY <1>2, Versions DEF Seen, SetterSeen, CacheSeen
  <2>3. \A q \in Reqs : left[q] < cache'.ttl
    BY <2>1 DEF Types, ReqsOK
  <2>4. QED
    BY <1>1, <2>1, <2>2, <2>3 DEF Version
<1>3. CASE ~(cache.version < Version(p))
  <2>1. UNCHANGED cache
    BY <1>3 DEF SetCacheSchema, Version
  <2>2. cache.version # -1 /\ Version(p) <= cache.version
    BY <1>1, <1>3, Versions
  <2>3. QED
    BY <2>1, <2>2 DEF Seen, RowSeen, CacheSeen, SetterSeen
<1>4. QED
  BY <1>2, <1>3

LEMMA SeenReader ==
    ASSUME AgedInv, Types', Seen, answered # Void, NEW p \in Reqs, Reader(p)
    PROVE  Seen'
<1>0. Types /\ AgedAt(at[p], op[p], got[p].age, left[p])
  BY DEF AgedInv, Aged
<1>a. SetterSeen(p) /\ FloorSeen(p) /\ FlightSeen(p)
  BY DEF Seen
<1>1. ASSUME LocalHit(p) PROVE Seen'
  <2>1. at'[p] = "answer" /\ floor'[p] = floor[p] /\ op'[p] = op[p] /\ Others(p)
        /\ UNCHANGED <<row, cache, answered>>
    BY <1>0, <1>1 DEF LocalHit, Go, Others, Types, ReqsOK, rowVars, history
  <2>2. floor[p] = 0
    BY <1>0, <1>1, <1>a, Versions DEF LocalHit, AgedAt, FloorSeen
  <2>3. Version(p)' \in Nat
    BY <1>0, <1>1, VersionRange DEF LocalHit, Version, Types, CacheOK, ReqsOK
  <2>4. SetterSeen(p)' /\ FloorSeen(p)'
    BY <1>0, <1>a, <2>1, <2>2, <2>3, Versions DEF SetterSeen, FloorSeen
  <2>5. QED
    BY <1>0, <2>1, <2>4, SeenQuiet
<1>2. ASSUME LocalMiss(p) PROVE Seen'
  <2>1. at'[p] = "cache" /\ floor'[p] = floor[p] /\ op'[p] = op[p] /\ Others(p)
        /\ UNCHANGED <<row, cache, answered>>
    BY <1>0, <1>2 DEF LocalMiss, Go, Others, Types, ReqsOK, rowVars, history
  <2>2. SetterSeen(p)' /\ FloorSeen(p)'
    BY <1>a, <2>1 DEF SetterSeen, FloorSeen
  <2>3. QED
    BY <1>0, <2>1, <2>2, SeenQuiet
<1>3. ASSUME CacheHit(p) PROVE Seen'
  <2>1. at'[p] \in {"keep", "answer"} /\ floor'[p] = floor[p] /\ op'[p] = op[p]
        /\ Others(p) /\ Version(p)' = VersionOf(cache.val)
        /\ UNCHANGED <<row, cache, answered>>
    BY <1>0, <1>3 DEF CacheHit, Go, Others, Types, ReqsOK, rowVars, history, Fetched, Version
  <2>2. answered <= VersionOf(cache.val)
    BY <1>3 DEF CacheHit, Seen, CacheSeen
  <2>3. floor[p] <= Version(p)'
    <3>1. cache.version = VersionOf(cache.val)
      BY <1>3 DEF CacheHit, Seen, CacheSeen
    <3>2. QED
      BY <1>0, <1>a, <2>1, <2>2, <3>1, Versions DEF FloorSeen
  <2>4. SetterSeen(p)' /\ FloorSeen(p)'
    BY <1>a, <2>1, <2>3 DEF SetterSeen, FloorSeen
  <2>5. QED
    BY <1>0, <2>1, <2>4, SeenQuiet
<1>4. ASSUME CacheMiss(p) PROVE Seen'
  <2>1. at'[p] = "miss" /\ floor'[p] = floor[p] /\ op'[p] = op[p] /\ Others(p)
        /\ UNCHANGED <<row, cache, answered>>
    BY <1>0, <1>4 DEF CacheMiss, Go, Others, Types, ReqsOK, rowVars, history
  <2>2. ASSUME NEW q \in Reqs, at[q] = "read" PROVE floor[p] <= Version(q)
    BY <1>0, <1>4, <1>a, <2>2, Versions DEF CacheMiss, Seen, SetterSeen, FloorSeen
  <2>3. SetterSeen(p)' /\ FloorSeen(p)'
    BY <1>a, <2>1 DEF SetterSeen, FloorSeen
  <2>4. QED
    BY <1>0, <2>1, <2>2, <2>3, SeenQuiet
<1>5. ASSUME CacheFails(p) \/ KeepFails(p) \/ Answer(p) PROVE Seen'
  BY <1>0, <1>5, SeenEnd DEF CacheFails, KeepFails, Answer, rowVars
<1>6. ASSUME Lead(p) \/ Join(p) PROVE Seen'
  <2>1. at'[p] \in {"query", "joined"} /\ floor'[p] = floor[p] /\ op'[p] = op[p]
        /\ Others(p) /\ UNCHANGED <<row, cache, answered>> /\ at[p] = "miss"
    BY <1>0, <1>6 DEF Lead, Join, Go, Others, Types, ReqsOK, rowVars, history
  <2>2. SetterSeen(p)' /\ FloorSeen(p)'
    BY <1>a, <2>1 DEF SetterSeen, FloorSeen
  <2>3. \A q \in Reqs : at[q] = "read" => floor[p] <= Version(q)
    BY <1>a, <2>1 DEF FlightSeen
  <2>4. QED
    BY <1>0, <2>1, <2>2, <2>3, SeenQuiet
<1>7. ASSUME FillFails(p) \/ Keep(p) PROVE Seen'
  <2>1. at'[p] \in {"keep", "answer"} /\ floor'[p] = floor[p] /\ op'[p] = op[p]
        /\ Others(p) /\ Version(p)' = Version(p) /\ at[p] \in {"fill", "keep"}
        /\ UNCHANGED <<row, cache, answered>>
    BY <1>0, <1>7 DEF FillFails, Keep, Go, Others, Types, ReqsOK, rowVars, history, Fetched,
                      Version
  <2>2. SetterSeen(p)' /\ FloorSeen(p)'
    BY <1>a, <2>1 DEF SetterSeen, FloorSeen
  <2>3. QED
    BY <1>0, <2>1, <2>2, SeenQuiet
<1>8. ASSUME Fill(p) PROVE Seen'
  <2>1. at'[p] \in {"keep", "answer"} /\ floor'[p] = floor[p] /\ op'[p] = op[p]
        /\ Others(p) /\ Version(p)' = Version(p) /\ at[p] = "fill"
        /\ UNCHANGED <<row, got, left, answered>>
    BY <1>0, <1>8 DEF Fill, Go, Others, Types, ReqsOK, rowVars, history, Fetched, Version
  <2>2. SetterSeen(p)' /\ FloorSeen(p)'
    BY <1>a, <2>1 DEF SetterSeen, FloorSeen
  <2>3. SetCacheSchema(got[p])
    BY <1>8 DEF Fill
  <2>4. RowSeen' /\ CacheSeen'
    BY <1>0, <2>1, <2>3, SetSeen DEF RowSeen, CacheSeen, Seen
  <2>5. \A q \in Reqs \ {p} : SetterSeen(q)'
    BY <1>0, <2>1, <2>3, SetSeen DEF Seen, Others, SetterSeen, Version
  <2>6. QED
    BY <1>0, <2>1, <2>2, <2>4, <2>5, Versions, SeenStep
<1>9. ASSUME Read(p) PROVE Seen'
  <2>1. /\ at'[p] = "read" /\ Others(p) /\ Version(p)' = VersionOf(row)
        /\ UNCHANGED <<row, cache, answered, floor, op, left>> /\ at[p] = "query"
    BY <1>0, <1>9 DEF Read, Go, Others, Types, ReqsOK, rowVars, history, Version
  <2>2. RowSeen' /\ CacheSeen' /\ Undeleted'
    BY <2>1 DEF Seen, RowSeen, CacheSeen, Undeleted, Others
  <2>3. \A q \in Reqs : floor[q] <= VersionOf(row)
    BY <1>0, Versions DEF Seen, RowSeen, FloorSeen
  <2>4. SetterSeen(p)' /\ FloorSeen(p)'
    BY <1>0, <1>a, <2>1, <2>3, Versions DEF Seen, RowSeen, SetterSeen, FloorSeen
  <2>5. ASSUME NEW q \in Reqs PROVE SetterSeen(q)' /\ FloorSeen(q)'
    BY <2>1, <2>4 DEF Seen, SetterSeen, FloorSeen, Others, Version
  <2>6. ASSUME NEW q \in Reqs PROVE FlightSeen(q)'
    BY <2>1, <2>3 DEF Seen, FlightSeen, Others, Version
  <2>7. QED
    BY <2>2, <2>5, <2>6 DEF Seen
<1>10. ASSUME Land(p) PROVE Seen'
  <2>1. UNCHANGED <<row, cache, answered, floor, op, left>> /\ at[p] = "read"
    BY <1>10 DEF Land, rowVars, history
  <2>2. ASSUME NEW q \in Reqs
        PROVE  \/ q = p /\ at'[q] = "fill" /\ Version(q)' = Version(p)
               \/ /\ at[q] = "joined" /\ at'[q] \in {"keep", "answer"}
                  /\ Version(q)' = Version(p)
               \/ /\ q # p /\ at'[q] = at[q] /\ at[q] # "joined"
                  /\ Version(q)' = Version(q)
    BY <1>0, <1>10 DEF Land, Joined, Fetched, Version, Types, ReqsOK
  <2>3. \A q \in Reqs : at[q] = "joined" => floor[q] <= Version(p)
    BY <2>1 DEF Seen, FlightSeen
  <2>4. ASSUME NEW q \in Reqs PROVE at'[q] # "read"
    <3>1. CASE at[q] = "read"
      <4>1. q = p
        BY <1>0, <2>1, <3>1 DEF Types, FlightOK, Leading
      <4>2. QED
        BY <2>1, <2>2, <4>1
    <3>2. CASE at[q] # "read"
      BY <2>2, <3>2
    <3>3. QED
      BY <3>1, <3>2
  <2>5. RowSeen' /\ CacheSeen' /\ Undeleted'
    BY <2>1, <2>2 DEF Seen, RowSeen, CacheSeen, Undeleted
  <2>6. ASSUME NEW q \in Reqs PROVE SetterSeen(q)'
    BY <2>1, <2>2 DEF Seen, SetterSeen
  <2>7. ASSUME NEW q \in Reqs PROVE FloorSeen(q)'
    BY <2>1, <2>2, <2>3 DEF Seen, FloorSeen
  <2>8. \A q \in Reqs : FlightSeen(q)'
    BY <2>4 DEF FlightSeen
  <2>9. QED
    BY <2>5, <2>6, <2>7, <2>8 DEF Seen
<1>11. ASSUME FlightFails(p) PROVE Seen'
  <2>1. UNCHANGED <<row, cache, answered>>
    BY <1>11 DEF FlightFails, rowVars
  <2>2. ASSUME NEW q \in Reqs
        PROVE  \/ at'[q] = "idle" /\ floor'[q] = 0
               \/ /\ at'[q] = at[q] /\ op'[q] = op[q] /\ Version(q)' = Version(q)
                  /\ left'[q] = left[q] /\ floor'[q] = floor[q]
    BY <1>0, <1>11 DEF FlightFails, Version, Types, ReqsOK, HistoryOK
  <2>3. RowSeen' /\ CacheSeen' /\ Undeleted'
    BY <2>1, <2>2 DEF Seen, RowSeen, CacheSeen, Undeleted
  <2>4. ASSUME NEW q \in Reqs PROVE SetterSeen(q)' /\ FloorSeen(q)'
    BY <1>0, <2>1, <2>2, Versions DEF Seen, SetterSeen, FloorSeen
  <2>5. ASSUME NEW q \in Reqs PROVE FlightSeen(q)'
    BY <1>0, <2>1, <2>2 DEF Seen, FlightSeen
  <2>6. QED
    BY <2>3, <2>4, <2>5 DEF Seen
<1>12. QED
  BY <1>1, <1>2, <1>3, <1>4, <1>5, <1>6, <1>7, <1>8, <1>9, <1>10, <1>11 DEF Reader

LEMMA SeenWriter ==
    ASSUME AgedInv, Types', Seen, answered # Void, answered' # Void, NEW p \in Reqs,
           Writer(p)
    PROVE  Seen'
<1>0. Types
  BY DEF AgedInv
<1>a. SetterSeen(p) /\ FloorSeen(p) /\ at[p] # "del"
  BY DEF Seen, Undeleted
<1>1. ASSUME Create(p) \/ Update(p) PROVE Seen'
  <2>1. /\ at'[p] \in {"set", "requery"} /\ Others(p) /\ at[p] = "write"
        /\ at'[p] = "set" => Version(p)' = VersionOf(row')
        /\ UNCHANGED <<cache, answered, floor, op>>
    BY <1>0, <1>1 DEF Create, Update, Go, Others, Types, ReqsOK, rowVars, history, Version
  <2>2. VersionOf(row) < VersionOf(row')
    BY <1>0, <1>1 DEF Create, Update, VersionOf, Types, RowOK, Rows
  <2>3. VersionOf(row') \in Nat
    BY VersionRange DEF Types, RowOK
  <2>4. RowSeen' /\ CacheSeen'
    BY <1>0, <2>1, <2>2, <2>3, Versions DEF Seen, RowSeen, CacheSeen
  <2>5. \A q \in Reqs \ {p} : SetterSeen(q)'
    BY <1>0, <2>1, <2>2, <2>3, Versions DEF Seen, SetterSeen, Others, Version
  <2>6. SetterSeen(p)' /\ FloorSeen(p)'
    BY <1>0, <1>a, <2>1, <2>2, <2>3, Versions DEF Seen, RowSeen, SetterSeen, FloorSeen
  <2>7. QED
    BY <1>0, <2>1, <2>4, <2>5, <2>6, Versions, SeenStep
<1>2. ASSUME Requery(p) PROVE Seen'
  <2>1. /\ at'[p] = "set" /\ Others(p) /\ Version(p)' = VersionOf(row)
        /\ UNCHANGED <<row, cache, answered, floor, op>>
    BY <1>0, <1>2 DEF Requery, Go, Others, Types, ReqsOK, rowVars, history, Version
  <2>2. SetterSeen(p)' /\ FloorSeen(p)'
    BY <1>0, <1>a, <2>1, Versions DEF Seen, RowSeen, SetterSeen, FloorSeen
  <2>3. QED
    BY <1>0, <2>1, <2>2, SeenQuiet
<1>3. ASSUME Set(p) PROVE Seen'
  <2>1. /\ at'[p] = "idle" /\ floor'[p] = 0 /\ Others(p) /\ at[p] = "set"
        /\ UNCHANGED row /\ SetCacheSchema(got[p])
        /\ answered' = IF answered < Version(p) THEN Version(p) ELSE answered
    BY <1>0, <1>3 DEF Set, End, Go, Others, Types, ReqsOK, HistoryOK, rowVars, Version
  <2>2. /\ answered <= answered' /\ answered' \in Nat
        /\ answered' <= VersionOf(row) /\ answered' <= cache'.version
    BY <1>0, <1>a, <2>1, Versions, SetSeen DEF Seen, RowSeen, SetterSeen
  <2>3. RowSeen' /\ CacheSeen'
    BY <1>0, <2>1, <2>2, SetSeen DEF RowSeen, CacheSeen
  <2>4. \A q \in Reqs \ {p} : SetterSeen(q)'
    BY <1>0, <2>1, SetSeen DEF Seen, Others, SetterSeen, Version
  <2>5. SetterSeen(p)' /\ FloorSeen(p)'
    BY <2>1, <2>2 DEF SetterSeen, FloorSeen
  <2>6. QED
    BY <1>0, <2>1, <2>2, <2>3, <2>4, <2>5, SeenStep
<1>4. ASSUME WriteFails(p) PROVE Seen'
  BY <1>0, <1>4, SeenEnd DEF WriteFails, rowVars
<1>5. ASSUME RequeryFails(p) \/ SetFails(p) \/ Remove(p) \/ Del(p) \/ DelFound(p)
             \/ DelFails(p)
      PROVE  Seen'
  BY <1>a, <1>5 DEF RequeryFails, SetFails, Remove, Del, DelFound, DelFails
<1>6. QED
  BY <1>1, <1>2, <1>3, <1>4, <1>5 DEF Writer

LEMMA SeenStart ==
    ASSUME Types, Types', Seen, answered # Void, NEW p \in Reqs, Start(p)
    PROVE  Seen'
<1>1. PICK o \in Ops :
        /\ op' = [op EXCEPT ![p] = o]
        /\ Go(p, CASE o = "post" -> "local" [] o = "list" -> "cache" [] OTHER -> "write")
        /\ floor' = [floor EXCEPT ![p] = IF o = "list" /\ answered # Void THEN answered ELSE 0]
  BY DEF Start
<1>2. /\ at'[p] \in {"local", "cache", "write"} /\ Others(p)
      /\ floor'[p] \in {0, answered}
      /\ floor'[p] # 0 => op'[p] = "list"
      /\ UNCHANGED <<row, cache, answered>>
  BY <1>1 DEF Start, Go, Others, Types, ReqsOK, HistoryOK, Ops, rowVars
<1>3. SetterSeen(p)' /\ FloorSeen(p)'
  BY <1>2, Versions DEF SetterSeen, FloorSeen
<1>4. QED
  BY <1>2, <1>3, SeenQuiet

LEMMA SeenTick ==
    ASSUME Types, Types', Seen, answered # Void, Tick
    PROVE  Seen'
<1>1. UNCHANGED <<row, answered, floor, at, op>>
  BY DEF Tick, rowVars, history
<1>2. ASSUME NEW q \in Reqs
      PROVE  /\ Version(q)' = Version(q)
             /\ at[q] \in {"read", "fill", "set"} => left[q] > 0 /\ left'[q] = left[q] - 1
  BY DEF Tick, Version, Types, ReqsOK, Copies
<1>3. \/ cache.ttl <= 1 /\ cache' = Empty
      \/ /\ cache'.val = cache.val /\ cache'.version = cache.version
         /\ cache'.ttl = cache.ttl - 1
  BY DEF Tick, Types, CacheOK
<1>4. RowSeen' /\ CacheSeen'
  BY <1>1, <1>3, Versions DEF Seen, RowSeen, CacheSeen, Empty
<1>5. ASSUME NEW q \in Reqs PROVE SetterSeen(q)'
  <2>1. SUFFICES ASSUME at[q] \in {"read", "fill", "set"}
        PROVE  /\ Version(q) <= VersionOf(row)
               /\ Version(q) < cache'.version => left'[q] < cache'.ttl
               /\ cache'.val = Absent => answered <= Version(q)
    BY <1>1, <1>2 DEF SetterSeen
  <2>2. /\ Version(q) <= VersionOf(row)
        /\ Version(q) < cache.version => left[q] < cache.ttl
        /\ cache.val = Absent => answered <= Version(q)
        /\ left[q] > 0 /\ left'[q] = left[q] - 1
    BY <1>2, <2>1 DEF Seen, SetterSeen
  <2>3. CASE cache.ttl <= 1 /\ cache' = Empty
    <3>1. cache.version <= Version(q)
      BY <2>2, <2>3, Numbers, Versions
    <3>2. answered <= Version(q)
      BY <2>2, <3>1, Versions DEF Seen, CacheSeen
    <3>3. QED
      BY <2>2, <2>3, <3>2, Versions DEF Empty
  <2>4. CASE /\ cache'.val = cache.val /\ cache'.version = cache.version
             /\ cache'.ttl = cache.ttl - 1
    BY <2>2, <2>4, Numbers
  <2>5. QED
    BY <1>3, <2>3, <2>4
<1>6. ASSUME NEW q \in Reqs PROVE FloorSeen(q)' /\ FlightSeen(q)'
  BY <1>1, <1>2 DEF Seen, FloorSeen, FlightSeen
<1>7. QED
  BY <1>1, <1>4, <1>5, <1>6 DEF Seen, Undeleted

\* What was Void stays Void.
LEMMA VoidStays == [Next]_vars /\ answered = Void => answered' = Void
  BY DEF Next, vars, Tick, Start, Reader, Writer, LocalHit, LocalMiss, CacheHit, CacheMiss,
         CacheFails, Lead, Join, Read, Land, FlightFails, Fill, FillFails, Keep, KeepFails,
         Answer, Create, Update, WriteFails, Requery, RequeryFails, Set, SetFails, Remove,
         Del, DelFound, DelFails, history

LEMMA SeenNext == SeenInv /\ [Next]_vars => SeenInv'
<1> SUFFICES ASSUME SeenInv, [Next]_vars PROVE SeenInv'
  OBVIOUS
<1>1. AgedInv /\ AgedInv' /\ Types /\ Types'
  BY AgedNext DEF SeenInv, AgedInv
<1>2. ASSUME answered' # Void PROVE Seen'
  <2>1. answered # Void /\ Seen
    BY <1>2, VoidStays DEF SeenInv
  <2>2. CASE UNCHANGED vars
    BY <2>1, <2>2 DEF vars, Seen, RowSeen, CacheSeen, Undeleted, SetterSeen, FloorSeen,
                      FlightSeen, Version
  <2>3. CASE Next
    BY <1>1, <1>2, <2>1, <2>3, SeenTick, SeenStart, SeenReader, SeenWriter DEF Next
  <2>4. QED
    BY <2>2, <2>3
<1>3. QED
  BY <1>1, <1>2 DEF SeenInv

LEMMA SeenInit == Init => SeenInv
<1> SUFFICES ASSUME Init PROVE SeenInv
  OBVIOUS
<1>1. RowSeen /\ CacheSeen
  BY DEF Init, RowSeen, CacheSeen, Empty, VersionOf
<1>2. \A p \in Reqs : SetterSeen(p) /\ FloorSeen(p) /\ FlightSeen(p) /\ at[p] # "del"
  <2>1. \A p \in Reqs : at[p] = "idle" /\ floor[p] = 0 /\ answered = 0
    BY DEF Init
  <2>2. ASSUME NEW p \in Reqs PROVE SetterSeen(p) /\ FlightSeen(p)
    BY <2>1 DEF SetterSeen, FlightSeen
  <2>3. ASSUME NEW p \in Reqs PROVE FloorSeen(p)
    <3>1. 0 <= 0 /\ ~(0 > 0)
      OBVIOUS
    <3>2. QED
      BY <2>1, <3>1 DEF FloorSeen
  <2>4. QED
    BY <2>1, <2>2, <2>3
<1>3. QED
  BY <1>1, <1>2, AgedInit DEF SeenInv, Seen, Undeleted

LEMMA SeenIsAnswered == SeenInv => AnsweredIsSeen
<1> SUFFICES ASSUME SeenInv, answered # Void, NEW p \in Reqs, at[p] = "answer", floor[p] > 0
             PROVE  got[p].val # None /\ got[p].val.version >= floor[p]
  BY DEF AnsweredIsSeen
<1>1. floor[p] <= VersionOf(got[p].val)
  BY DEF SeenInv, Seen, FloorSeen, Version
<1>2. got[p].val \in Rows \cup {None} /\ floor[p] \in Nat
  BY DEF SeenInv, AgedInv, Types, ReqsOK, HistoryOK, Copies
<1>3. QED
  BY <1>1, <1>2 DEF VersionOf, Rows

\* A reader that starts after a writer has answered sees what was written, or
\* something newer (SetCacheSchema and cas.lua).
THEOREM WritersAreSeen == Spec => []AnsweredIsSeen
<1>1. Spec => []SeenInv
  BY SeenInit, SeenNext, PTL DEF Spec
<1>2. QED
  BY <1>1, SeenIsAnswered, PTL
=============================================================================
