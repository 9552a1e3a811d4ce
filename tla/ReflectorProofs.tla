--------------------------- MODULE ReflectorProofs ---------------------------
(***************************************************************************)
(* What a reflector promises for any number of rows, pages and writers.    *)
(*                                                                         *)
(* The invariant follows one Watch: as long as no row has changed since    *)
(* the version was raised to where the cursor is (NothingUnread), what it  *)
(* has fetched is the visible rows below the next page (PagesSoFar), and   *)
(* then all of them; what it has applied is what it has fetched            *)
(* (AppliedSoFar). Whoever changes a row ends NothingUnread, because the   *)
(* change is ahead of the version or has moved it past the cursor, and the *)
(* cursor moves only when a Watch starts reading from the first row.       *)
(***************************************************************************)
EXTENDS Reflector, FiniteSetTheorems, TLAPS

\* Nothing was written that Watch has not been told of, or has been told of
\* after it set its cursor.
NothingUnread == cursor = version /\ ~ahead

Numbers ==
    /\ version \in Nat
    /\ cursor \in Nat
    /\ pending \in Nat
    /\ next \in Nat
    /\ rows \in SUBSET Row
    /\ cursor <= version

MapTypes ==
    /\ view = [n \in Names |-> view[n]]
    /\ inter = [n \in Names |-> inter[n]]

PagesSoFar ==
    pc = "fetch" /\ NothingUnread => fetched = {r \in Visible : r.id < next}

AppliedSoFar ==
    pc = "apply" =>
        /\ NothingUnread => Index(fetched) = Latest
        /\ \A n \in Names \ todo : view[n] = Index(fetched)[n]

Compared == pc \in {"version", "fetch"} => view = inter

ReflectorIInv == Numbers /\ MapTypes /\ PagesSoFar /\ AppliedSoFar /\ Compared /\ CaughtUp

-----------------------------------------------------------------------------
USE ReflectorAssumption DEF ReflectorAssumption

\* Initially the version is ahead of the cursor, so that nothing is current.
LEMMA ReflectorIInvInit == ReflectorInit => ReflectorIInv
  BY DEF ReflectorInit, ReflectorIInv, Numbers, MapTypes, PagesSoFar, AppliedSoFar, Compared, CaughtUp,
     Quiet, NothingUnread

\* The rows stay rows, whatever the writers do.
LEMMA RowsTyped == ASSUME rows \in SUBSET Row, Write PROVE rows' \in SUBSET Row
<1>1. ASSUME NEW i \in Ids, NEW n \in Names, NEW v \in Vals,
             rows' = rows \cup {[id |-> i, name |-> n, val |-> v]}
      PROVE  rows' \in SUBSET Row
  BY <1>1 DEF Row
<1>2. ASSUME NEW r \in rows, NEW v \in Vals,
             rows' = (rows \ {r}) \cup {[r EXCEPT !.val = v]}
      PROVE  rows' \in SUBSET Row
  BY <1>2 DEF Row
<1>3. ASSUME NEW r \in rows, rows' = rows \ {r} PROVE rows' \in SUBSET Row
  BY <1>3
<1>4. RowChange => rows' \in SUBSET Row
  BY <1>1, <1>2, <1>3 DEF RowChange
<1>5. DropRows => rows' \in SUBSET Row
  BY DEF DropRows
<1>6. QED
  BY <1>4, <1>5 DEF Write, CommitTogether, CommitRow, CommitBump, BumpFails

\* A change is ahead of the version or has raised it: nothing is current any
\* more. A bump that fails changes nothing that Watch looks at.
LEMMA WriteStep == ASSUME ReflectorIInv, Write PROVE ReflectorIInv'
<1>1. ~NothingUnread' \/ UNCHANGED <<rows, version, ahead>>
  <2>1. CASE CommitTogether
    BY <2>1 DEF CommitTogether, NothingUnread, ReflectorIInv, Numbers, watchVars
  <2>2. CASE CommitRow \/ DropRows
    BY <2>2 DEF CommitRow, DropRows, NothingUnread
  <2>3. CASE CommitBump
    BY <2>3 DEF CommitBump, NothingUnread, ReflectorIInv, Numbers, watchVars
  <2>4. CASE BumpFails
    BY <2>4 DEF BumpFails
  <2>5. QED
    BY <2>1, <2>2, <2>3, <2>4 DEF Write
<1>2. UNCHANGED watchVars
  BY DEF Write, CommitTogether, CommitRow, CommitBump, BumpFails, DropRows
<1>3. rows' \in SUBSET Row
  BY RowsTyped DEF ReflectorIInv, Numbers
<1>4. Numbers'
  <2>1. version' \in Nat /\ version' >= version /\ pending' \in Nat
    BY DEF Write, CommitTogether, CommitRow, CommitBump, BumpFails, DropRows, ReflectorIInv,
           Numbers
  <2>2. QED
    BY <1>2, <1>3, <2>1 DEF ReflectorIInv, Numbers, watchVars
<1>5. CASE ~NothingUnread'
  BY <1>2, <1>4, <1>5 DEF ReflectorIInv, MapTypes, PagesSoFar, AppliedSoFar, Compared, CaughtUp,
     Quiet, NothingUnread, watchVars
<1>6. CASE UNCHANGED <<rows, version, ahead>>
  BY <1>2, <1>4, <1>6 DEF ReflectorIInv, MapTypes, PagesSoFar, AppliedSoFar, Compared, CaughtUp,
     Quiet, NothingUnread, Latest, Visible, watchVars
<1>7. QED
  BY <1>1, <1>5, <1>6

\* A Watch keeps up with what it fetched and applied.
LEMMA WatchStep == ASSUME ReflectorIInv, Watch \/ FetchFails PROVE ReflectorIInv'
<1> USE DEF ReflectorIInv, Numbers, MapTypes, PagesSoFar, AppliedSoFar, Compared, CaughtUp, Quiet,
        NothingUnread, dbVars
<1>1. CASE ReadVersion
  BY <1>1 DEF ReadVersion, Visible, Row, Ids
<1>2. CASE FetchPage
  <2>1. PICK s \in Remaining :
           /\ fetched' = fetched \cup {r \in Remaining : r.id < s.id}
           /\ next' = s.id
    BY <1>2 DEF FetchPage
  <2>2. s.id \in Nat /\ next <= s.id
    BY <2>1 DEF Remaining, Visible, Row, Ids
  <2>3. NothingUnread => fetched' = {r \in Visible : r.id < s.id}
    <3>1. \A r \in Visible : r.id \in Nat
      BY DEF Visible, Row, Ids
    <3>2. NothingUnread => fetched = {r \in Visible : r.id < next}
      BY <1>2 DEF FetchPage
    <3>3. QED
      BY <2>1, <2>2, <3>1, <3>2 DEF Remaining
  <2>4. QED
    BY <1>2, <2>1, <2>2, <2>3 DEF FetchPage, Visible
<1>3. CASE FetchLastPage
  <2>1. NothingUnread => fetched' = Visible
    <3>1. \A r \in Visible : r.id \in Nat
      BY DEF Visible, Row, Ids
    <3>2. NothingUnread => fetched = {r \in Visible : r.id < next}
      BY <1>3 DEF FetchLastPage
    <3>3. fetched' = fetched \cup Remaining
      BY <1>3 DEF FetchLastPage
    <3>4. QED
      BY <3>1, <3>2, <3>3 DEF Remaining
  <2>2. NothingUnread => Index(fetched') = Latest
    BY <2>1 DEF Latest
  <2>3. \A n \in Names \ todo' : view[n] = Index(fetched')[n]
    BY <1>3 DEF FetchLastPage
  <2>4. Latest' = Latest
    BY <1>3 DEF FetchLastPage, Latest, Visible
  <2>5. QED
    BY <1>3, <2>2, <2>3, <2>4 DEF FetchLastPage
<1>4. ASSUME NEW n \in Names, ApplyKey(n) PROVE ReflectorIInv'
  <2>1. Latest' = Latest
    BY <1>4 DEF ApplyKey, Latest, Visible
  <2>2. view' = [m \in Names |-> IF m = n THEN Index(fetched)[n] ELSE view[m]]
    BY <1>4 DEF ApplyKey
  <2>3. QED
    BY <1>4, <2>1, <2>2 DEF ApplyKey
<1>5. CASE WatchReturns
  <2>1. Latest' = Latest
    BY <1>5 DEF WatchReturns, Latest, Visible
  <2>2. Index(fetched) = [n \in Names |-> Index(fetched)[n]]
    BY DEF Index
  <2>3. view = Index(fetched)
    BY <1>5, <2>2 DEF WatchReturns
  <2>4. QED
    BY <1>5, <2>1, <2>2, <2>3 DEF WatchReturns
<1>6. CASE FetchFails
  BY <1>6 DEF FetchFails
<1>7. QED
  BY <1>1, <1>2, <1>3, <1>4, <1>5, <1>6 DEF Watch

\* Every step preserves the invariant.
LEMMA ReflectorIInvStep == ReflectorIInv /\ [ReflectorNext]_reflectorVars => ReflectorIInv'
<1>1. ASSUME ReflectorIInv, UNCHANGED reflectorVars PROVE ReflectorIInv'
  BY <1>1 DEF ReflectorIInv, Numbers, MapTypes, PagesSoFar, AppliedSoFar, Compared, CaughtUp, Quiet,
     NothingUnread, Latest, Visible, reflectorVars, dbVars, watchVars
<1>2. QED
  BY <1>1, WriteStep, WatchStep DEF ReflectorNext

\* The conjunction above is an invariant of every instance.
THEOREM ReflectorInvariant == ReflectorSpec => []ReflectorIInv
  BY ReflectorIInvInit, ReflectorIInvStep, PTL DEF ReflectorSpec

\* For every table, page size and interleaving with the writers: a Watch that
\* has caught up with the version serves the whole table (Watch).
THEOREM WatchCatchesUp == ReflectorSpec => []CaughtUp
<1>1. ReflectorIInv => CaughtUp
  BY DEF ReflectorIInv
<1>2. QED
  BY <1>1, ReflectorInvariant, PTL

\* For every instance: between two Watches the map Get reads is the one the
\* next Watch compares with.
THEOREM NothingComparedAway == ReflectorSpec => []ViewIsPreviousRead
<1>1. ReflectorIInv => ViewIsPreviousRead
  BY DEF ReflectorIInv, Compared, ViewIsPreviousRead
<1>2. QED
  BY <1>1, ReflectorInvariant, PTL

-----------------------------------------------------------------------------
(* Types: the maps are built from rows of enabled values only.             *)

ReflectorTyped == ReflectorTypeOK /\ \A r \in fetched : r.val \in Enabled

\* Of the rows of one name one has the largest id.
LEMMA LastRow ==
    ASSUME NEW S \in SUBSET Row, S # {}
    PROVE  \E r \in S : \A q \in S : q.id <= r.id
<1> DEFINE Later(r) == {i \in Ids : i > r.id}
           T == {Later(r) : r \in S}
<1>1. \A r \in S : r.id \in Ids
  BY DEF Row
<1>2. IsFiniteSet(Ids)
  BY FS_Interval DEF Ids
<1>3. T \subseteq FiniteSubsetsOf(Ids) /\ T # {}
  <2>1. \A r \in S : Later(r) \in FiniteSubsetsOf(Ids)
    BY <1>2, FS_Subset DEF FiniteSubsetsOf
  <2>2. QED
    BY <2>1
<1>4. IsWellFoundedOn(StrictSubsetOrdering(Ids), FiniteSubsetsOf(Ids))
  BY <1>2, FS_StrictSubsetOrderingWellFounded
<1>5. PICK x \in T : \A y \in T : <<y, x>> \notin StrictSubsetOrdering(Ids)
  <2> HIDE DEF T
  <2>1. QED
    BY <1>3, <1>4, WFMin
<1>6. PICK r \in S : x = Later(r)
  BY <1>5
<1>7. ASSUME NEW q \in S PROVE q.id <= r.id
  <2>1. SUFFICES ASSUME q.id > r.id PROVE FALSE
    BY <1>1 DEF Ids
  <2>2. Later(q) \subseteq Later(r) /\ q.id \in Later(r) /\ q.id \notin Later(q)
    BY <1>1, <2>1 DEF Ids
  <2>3. <<Later(q), Later(r)>> \in StrictSubsetOrdering(Ids)
    <3>1. Later(q) # Later(r)
      BY <2>2
    <3>2. Later(q) \in SUBSET Ids /\ Later(r) \in SUBSET Ids
      OBVIOUS
    <3> HIDE DEF Later
    <3>3. QED
      BY <2>2, <3>1, <3>2 DEF StrictSubsetOrdering
  <2>4. QED
    BY <1>5, <1>6, <2>3
<1>8. QED
  BY <1>7

LEMMA IndexType ==
    ASSUME NEW S \in SUBSET Row, \A r \in S : r.val \in Enabled
    PROVE  Index(S) \in Content
<1>1. ASSUME NEW n \in Names, \E r \in S : r.name = n
      PROVE  \E r \in S : r.name = n /\ \A q \in S : q.name = n => q.id <= r.id
  <2>1. {r \in S : r.name = n} \in SUBSET Row /\ {r \in S : r.name = n} # {}
    BY <1>1
  <2>2. QED
    BY <2>1, LastRow
<1>2. ASSUME NEW n \in Names, \E r \in S : r.name = n
      PROVE  (CHOOSE r \in S : r.name = n /\ \A q \in S : q.name = n => q.id <= r.id) \in S
  BY <1>1, <1>2
<1>3. QED
  BY <1>2 DEF Index, Content

\* Every reachable state of a reflector and of its table is well typed (Watch).
THEOREM ReflectorTypeCorrect == ReflectorSpec => []ReflectorTypeOK
<1>1. ReflectorInit => ReflectorTyped
  <2>1. ReflectorInit => ahead \in BOOLEAN /\ missed \in BOOLEAN
    BY DEF ReflectorInit
  <2>2. QED
    BY <2>1 DEF ReflectorInit, ReflectorTyped, ReflectorTypeOK, Content
<1>2. ReflectorTyped /\ [ReflectorNext]_reflectorVars => ReflectorTyped'
  <2> SUFFICES ASSUME ReflectorTyped, [ReflectorNext]_reflectorVars PROVE ReflectorTyped'
    OBVIOUS
  <2>1. CASE Write
    <3>1. /\ version' \in Nat /\ pending' \in Nat /\ writes' \in 0..MaxWrites
          /\ UNCHANGED watchVars
      BY <2>1 DEF Write, CommitTogether, CommitRow, CommitBump, BumpFails, DropRows, CanWrite,
         ReflectorTyped, ReflectorTypeOK
    <3>2. ahead' \in BOOLEAN
      BY <2>1 DEF Write, CommitTogether, CommitRow, CommitBump, BumpFails, DropRows, ReflectorTyped, ReflectorTypeOK
    <3>3. rows' \in SUBSET Row
      BY <2>1, RowsTyped DEF ReflectorTyped, ReflectorTypeOK
    <3>4. QED
      BY <3>1, <3>2, <3>3 DEF ReflectorTyped, ReflectorTypeOK, watchVars
  <2>2. CASE ReadVersion
    BY <2>2 DEF ReadVersion, ReflectorTyped, ReflectorTypeOK, dbVars
  <2>3. CASE FetchPage
    BY <2>3 DEF FetchPage, Remaining, Visible, Row, ReflectorTyped, ReflectorTypeOK, dbVars
  <2>4. CASE FetchLastPage
    BY <2>4 DEF FetchLastPage, Remaining, Visible, ReflectorTyped, ReflectorTypeOK, dbVars
  <2>5. ASSUME NEW n \in Names, ApplyKey(n) PROVE ReflectorTyped'
    <3>1. Index(fetched) \in Content
      BY IndexType DEF ReflectorTyped, ReflectorTypeOK
    <3>2. view' \in Content
      BY <2>5, <3>1 DEF ApplyKey, Content, ReflectorTyped, ReflectorTypeOK
    <3>3. QED
      BY <2>5, <3>2 DEF ApplyKey, ReflectorTyped, ReflectorTypeOK, dbVars
  <2>6. CASE WatchReturns
    <3>1. Index(fetched) \in Content
      BY IndexType DEF ReflectorTyped, ReflectorTypeOK
    <3>2. QED
      BY <2>6, <3>1 DEF WatchReturns, ReflectorTyped, ReflectorTypeOK, dbVars
  <2>7. CASE FetchFails
    BY <2>7 DEF FetchFails, ReflectorTyped, ReflectorTypeOK, dbVars
  <2>8. CASE UNCHANGED reflectorVars
    BY <2>8 DEF reflectorVars, dbVars, watchVars, ReflectorTyped, ReflectorTypeOK
  <2>9. QED
    BY <2>1, <2>2, <2>3, <2>4, <2>5, <2>6, <2>7, <2>8 DEF ReflectorNext, Watch
<1>3. ReflectorTyped => ReflectorTypeOK
  BY DEF ReflectorTyped
<1>4. QED
  BY <1>1, <1>2, <1>3, PTL DEF ReflectorSpec

HIDE ReflectorAssumption DEF ReflectorAssumption
=============================================================================
