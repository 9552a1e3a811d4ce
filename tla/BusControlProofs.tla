-------------------------- MODULE BusControlProofs --------------------------
(***************************************************************************)
(* From the row of a bus to its clients: the clients, and with them the    *)
(* reflector.                                                              *)
(*                                                                         *)
(* Buses. Shape holds however Handles overlap: a client is built with a    *)
(* number nothing refers to and never changes its use, so the stored bus   *)
(* and what each goroutine has in hand (Hand) stay made for what they were *)
(* made for. Serial holds as long as no Handles have overlapped: one       *)
(* goroutine is at work, what it loaded is still stored, and what it will  *)
(* close is not (AtWork). Clients of two roles are never the same, because *)
(* a client knows its role: that is why what Store has kept is not what it *)
(* closes. With these SettledStored and ForgottenOnlyByDelete are          *)
(* inductive.                                                              *)
(*                                                                         *)
(* Together. Every step is one of Reflector and one of Buses, or leaves    *)
(* one of them alone, and the bus Handle gets is the one in the map        *)
(* (Linked); so the promises of both meet in the clients' being those of   *)
(* the table.                                                              *)
(***************************************************************************)
EXTENDS BusControl, ReflectorProofs, FiniteSetTheorems, TLAPS

(* The clients of a bus.                                                   *)

\* c is a client made for this role of this bus.
MadeFor(c, r, info) ==
    /\ c \in Clients
    /\ client[c] # None
    /\ client[c].role = r
    /\ client[c].topic = info.topic[r.kind]
    /\ client[c].mode = (IF r.use = "receive" THEN info.mode ELSE None)

StoredMade ==
    stored # None => \A r \in PlanRoles : MadeFor(stored.clients[r], r, stored.info)

ToReplace(p) == {r \in PlanRoles : Replaced(proc[p].old, proc[p].info, r)}

\* What a goroutine has in hand: the bus it has loaded, and of an update the
\* clients so far, kept from that bus or new.
Hand(p) ==
    /\ proc[p].at # "build" => proc[p].made = NoClients
    /\ proc[p].at # "close" => proc[p].cleanup = {}
    /\ \A c \in proc[p].cleanup : client[c] # None
    /\ proc[p].old # None =>
         \A r \in PlanRoles : MadeFor(proc[p].old.clients[r], r, proc[p].old.info)
    /\ proc[p].at = "build" =>
         /\ proc[p].todo \subseteq ToReplace(p)
         /\ \A r \in PlanRoles \ proc[p].todo : MadeFor(proc[p].made[r], r, proc[p].info)
         /\ \A r \in PlanRoles \ ToReplace(p) : proc[p].made[r] = proc[p].old.clients[r]
         /\ proc[p].old # None =>
              \A r \in ToReplace(p) : proc[p].made[r] # proc[p].old.clients[r]

Stopped == stop # "no" => stored = None /\ \A p \in Procs : proc[p].at = "idle"

Shape == BusesTypeOK /\ StoredMade /\ (\A p \in Procs : Hand(p)) /\ Stopped

ProcType == [at : {"idle", "load", "build", "close"},
             info : Infos \cup {None},
             old : Entries(PlanRoles) \cup {None},
             made : [PlanRoles -> Clients \cup {None}],
             todo : SUBSET PlanRoles,
             cleanup : SUBSET Clients]

USE BusesAssumption DEF BusesAssumption

-----------------------------------------------------------------------------
LEMMA PlanFacts ==
    ASSUME plan \in Plans
    PROVE  /\ PlanRoles \subseteq Roles
           /\ plan.closedByDelete \subseteq PlanRoles
           /\ None \notin Entries(PlanRoles)
           /\ None \notin Built(PlanRoles)
<1>1. plan.order \in Seq(Roles)
  OBVIOUS
<1>2. PlanRoles \subseteq Roles
  BY <1>1 DEF PlanRoles, ToSet
<1>3. plan.closedByDelete \subseteq PlanRoles /\ None \notin Entries(PlanRoles)
  BY DEF PlanRoles
<1>4. Built(PlanRoles) \subseteq Built(Roles)
  BY <1>2 DEF Built
<1>5. QED
  BY <1>2, <1>3, <1>4

\* A goroutine outside of Handle, and one that begins.
LEMMA IdleType ==
    /\ Idle \in ProcType
    /\ Idle.at = "idle" /\ Idle.made = NoClients /\ Idle.cleanup = {} /\ Idle.old = None
BY DEF Idle, ProcType, NoClients

LEMMA PurposeType ==
    ASSUME plan \in Plans, NEW r \in PlanRoles, NEW info \in Infos
    PROVE  /\ Purpose(r, info) \in Built(PlanRoles)
           /\ Purpose(r, info) # None
<1>1. r \in Roles /\ None \notin Built(PlanRoles)
  BY PlanFacts
<1>2. info.topic[r.kind] \in Topics /\ info.mode \in Modes
  BY <1>1 DEF Infos, Roles
<1>3. Purpose(r, info) \in Built(PlanRoles)
  BY <1>2 DEF Purpose, Built
<1>4. QED
  BY <1>1, <1>3

\* What a client was made for stays, whatever is opened and closed.
SameUse(c) ==
    client[c] # None => /\ client'[c] # None
                        /\ client'[c].role = client[c].role
                        /\ client'[c].topic = client[c].topic
                        /\ client'[c].mode = client[c].mode

LEMMA ClosedType ==
    ASSUME plan \in Plans, NEW x \in Built(PlanRoles)
    PROVE  LET y == [x EXCEPT !.open = FALSE]
           IN  /\ y \in Built(PlanRoles) /\ y # None
               /\ y.role = x.role /\ y.topic = x.topic /\ y.mode = x.mode /\ y.open = FALSE
BY PlanFacts DEF Built

LEMMA StaysMade ==
    ASSUME NEW c, NEW r, NEW info, MadeFor(c, r, info), c \in Clients => SameUse(c)
    PROVE  MadeFor(c, r, info)'
BY DEF MadeFor, SameUse

\* A goroutine that takes no step keeps what it has in hand.
LEMMA HandStays ==
    ASSUME Shape, NEW q \in Procs, proc'[q] = proc[q], plan' = plan,
           \A c \in InUse : SameUse(c)
    PROVE  Hand(q)'
<1>1. /\ ToReplace(q)' = ToReplace(q) /\ PlanRoles' = PlanRoles /\ NoClients' = NoClients
      /\ Hand(q) /\ proc[q] \in ProcType
  BY DEF ToReplace, Replaced, PlanRoles, NoClients, Shape, BusesTypeOK, ProcType
<1>2. \A c \in proc[q].cleanup : c \in InUse
  BY <1>1 DEF InUse, ProcType
<1>3. ASSUME NEW r \in PlanRoles, proc[q].old # None
      PROVE  MadeFor(proc[q].old.clients[r], r, proc[q].old.info)'
  <2>1. MadeFor(proc[q].old.clients[r], r, proc[q].old.info)
    BY <1>1, <1>3 DEF Hand
  <2>2. proc[q].old.clients[r] \in InUse
    BY <1>3, <2>1 DEF InUse, MadeFor
  <2>3. QED
    BY <2>1, <2>2 DEF MadeFor, SameUse
<1>4. ASSUME NEW r \in PlanRoles \ proc[q].todo, proc[q].at = "build"
      PROVE  MadeFor(proc[q].made[r], r, proc[q].info)'
  <2>1. MadeFor(proc[q].made[r], r, proc[q].info)
    BY <1>1, <1>4 DEF Hand
  <2>2. proc[q].made[r] \in InUse
    BY <1>4, <2>1 DEF InUse, MadeFor
  <2>3. QED
    BY <2>1, <2>2 DEF MadeFor, SameUse
<1>5. QED
  BY <1>1, <1>2, <1>3, <1>4 DEF Hand, SameUse

\* So does the stored bus.
LEMMA StoredStays ==
    ASSUME Shape, stored' = stored, plan' = plan, \A c \in InUse : SameUse(c)
    PROVE  StoredMade'
<1>1. SUFFICES ASSUME stored # None, NEW r \in PlanRoles
               PROVE  MadeFor(stored.clients[r], r, stored.info)'
  BY DEF StoredMade, PlanRoles
<1>2. MadeFor(stored.clients[r], r, stored.info)
  BY <1>1 DEF Shape, StoredMade
<1>3. stored.clients[r] \in InUse
  BY <1>1, <1>2 DEF InUse, MadeFor
<1>4. QED
  BY <1>2, <1>3 DEF MadeFor, SameUse

\* A step of one goroutine.
LEMMA ShapeMove ==
    ASSUME Shape, NEW p \in Procs,
           plan' = plan, stop' = stop, stop = "no",
           \A c \in InUse : SameUse(c),
           DOMAIN proc' = Procs,
           \A q \in Procs \ {p} : proc'[q] = proc[q],
           Hand(p)', StoredMade', BusesTypeOK'
    PROVE  Shape'
<1>1. \A q \in Procs : Hand(q)'
  BY HandStays
<1>2. Stopped'
  BY DEF Stopped
<1>3. QED
  BY <1>1, <1>2 DEF Shape

-----------------------------------------------------------------------------
(* The steps of Handle: what each changes, and that Shape stays.           *)

LEMMA ProcTyped ==
    ASSUME Shape
    PROVE  /\ proc \in [Procs -> ProcType]
           /\ plan \in Plans
           /\ client \in [Clients -> Built(PlanRoles) \cup {None}]
           /\ stored \in Entries(PlanRoles) \cup {None}
BY DEF Shape, BusesTypeOK, ProcType

LEMMA BeginFacts ==
    ASSUME Shape, NEW p \in Procs, Begin(p)
    PROVE  /\ proc[p].at = "idle"
           /\ proc' \in [Procs -> ProcType]
           /\ proc'[p].at = "load" /\ proc'[p].info = wanted /\ proc'[p].old = None
           /\ proc'[p].made = NoClients /\ proc'[p].cleanup = {}
           /\ \A q \in Procs \ {p} : proc'[q] = proc[q]
<1>1. proc' = [proc EXCEPT ![p] = [Idle EXCEPT !.at = "load", !.info = wanted]]
  BY DEF Begin
<1>2. [Idle EXCEPT !.at = "load", !.info = wanted] \in ProcType
  BY IdleType DEF Shape, BusesTypeOK, ProcType
<1>3. proc'[p] = [Idle EXCEPT !.at = "load", !.info = wanted]
  BY <1>1, ProcTyped
<1>4. QED
  BY <1>1, <1>2, <1>3, ProcTyped, IdleType DEF Begin, Idle

LEMMA LoadFacts ==
    ASSUME Shape, NEW p \in Procs, Load(p)
    PROVE  /\ proc[p].at = "load" /\ proc[p].info \in Infos
           /\ proc' \in [Procs -> ProcType]
           /\ proc'[p].at = "build" /\ proc'[p].info = proc[p].info
           /\ proc'[p].old = stored /\ proc'[p].cleanup = proc[p].cleanup
           /\ proc'[p].todo = {r \in PlanRoles : Replaced(stored, proc[p].info, r)}
           /\ proc'[p].made = [r \in PlanRoles |-> IF r \in proc'[p].todo THEN None
                                                   ELSE stored.clients[r]]
           /\ \A q \in Procs \ {p} : proc'[q] = proc[q]
<1> DEFINE S == {r \in PlanRoles : Replaced(stored, proc[p].info, r)}
           M == [r \in PlanRoles |-> IF r \in S THEN None ELSE stored.clients[r]]
           new == [proc[p] EXCEPT !.at = "build", !.old = stored, !.todo = S, !.made = M]
<1>1. proc' = [proc EXCEPT ![p] = new]
  BY ProcTyped DEF Load
<1>2. S \in SUBSET PlanRoles
  OBVIOUS
<1>3. M \in [PlanRoles -> Clients \cup {None}]
  BY ProcTyped DEF Replaced, Entries
<1>4. /\ new \in ProcType
      /\ new.at = "build" /\ new.info = proc[p].info /\ new.old = stored
      /\ new.cleanup = proc[p].cleanup /\ new.todo = S /\ new.made = M
  <2>1. proc[p] \in ProcType /\ stored \in Entries(PlanRoles) \cup {None}
    BY ProcTyped
  <2> HIDE DEF S, M
  <2>2. QED
    BY <1>2, <1>3, <2>1 DEF ProcType
<1> HIDE DEF new
<1>5. proc'[p] = new /\ proc' \in [Procs -> ProcType] /\ \A q \in Procs \ {p} : proc'[q] = proc[q]
  BY <1>1, <1>4, ProcTyped
<1>6. proc[p].at = "load" /\ proc[p].info \in Infos
  BY ProcTyped DEF Load, ProcType
<1>7. QED
  BY <1>4, <1>5, <1>6

LEMMA BuildFacts ==
    ASSUME Shape, NEW p \in Procs, Build(p)
    PROVE  \E r \in proc[p].todo, c \in Clients \ InUse :
             /\ r \in PlanRoles
             /\ proc[p].at = "build" /\ proc[p].info \in Infos
             /\ client' = [client EXCEPT ![c] = Purpose(r, proc[p].info)]
             /\ proc' \in [Procs -> ProcType]
             /\ proc'[p].at = "build" /\ proc'[p].info = proc[p].info
             /\ proc'[p].old = proc[p].old /\ proc'[p].cleanup = proc[p].cleanup
             /\ proc'[p].todo = proc[p].todo \ {r}
             /\ proc'[p].made = [proc[p].made EXCEPT ![r] = c]
             /\ \A q \in Procs \ {p} : proc'[q] = proc[q]
<1>1. PICK r \in proc[p].todo, c \in Clients \ InUse :
        /\ client' = [client EXCEPT ![c] = Purpose(r, proc[p].info)]
        /\ proc' = [proc EXCEPT ![p].made[r] = c, ![p].todo = @ \ {r}]
  BY DEF Build, Turn, New, Least
<1>2. proc[p] \in ProcType /\ r \in PlanRoles /\ proc[p].at = "build" /\ proc[p].info \in Infos
  <2>1. proc[p] \in ProcType
    BY ProcTyped
  <2>2. QED
    BY <2>1 DEF Build, Shape, BusesTypeOK, ProcType
<1> DEFINE M == [proc[p].made EXCEPT ![r] = c]
           T == proc[p].todo \ {r}
           new == [proc[p] EXCEPT !.made = M, !.todo = T]
<1>3. M \in [PlanRoles -> Clients \cup {None}] /\ T \in SUBSET PlanRoles
  BY <1>2 DEF ProcType
<1>4. proc' = [proc EXCEPT ![p] = new]
  BY <1>1, <1>2, ProcTyped
<1> HIDE DEF M, T
<1>5. /\ new \in ProcType
      /\ new.at = "build" /\ new.info = proc[p].info /\ new.old = proc[p].old
      /\ new.cleanup = proc[p].cleanup /\ new.todo = T /\ new.made = M
  BY <1>2, <1>3 DEF ProcType
<1> HIDE DEF new
<1>6. proc'[p] = new /\ proc' \in [Procs -> ProcType] /\ \A q \in Procs \ {p} : proc'[q] = proc[q]
  BY <1>4, <1>5, ProcTyped
<1>7. QED
  BY <1>1, <1>2, <1>5, <1>6 DEF M, T

LEMMA IdleFacts ==
    ASSUME Shape, NEW p \in Procs, BuildFails(p) \/ Return(p)
    PROVE  /\ proc[p].at \in {"build", "close"}
           /\ BuildFails(p) => proc[p].at = "build"
           /\ Return(p) => proc[p].at = "close" /\ proc[p].cleanup = {}
           /\ proc' \in [Procs -> ProcType]
           /\ proc'[p] = Idle
           /\ \A q \in Procs \ {p} : proc'[q] = proc[q]
<1>1. proc' = [proc EXCEPT ![p] = Idle]
  BY DEF BuildFails, Return
<1>2. QED
  BY <1>1, ProcTyped, IdleType DEF BuildFails, Return

\* Store and Delete: what is to be closed is all the goroutine has left.
LEMMA CloseFacts ==
    ASSUME Shape, NEW p \in Procs, NEW S \in SUBSET Clients,
           proc' = [proc EXCEPT ![p] = [Idle EXCEPT !.at = "close", !.cleanup = S]]
    PROVE  /\ proc' \in [Procs -> ProcType]
           /\ proc'[p].at = "close" /\ proc'[p].old = None
           /\ proc'[p].made = NoClients /\ proc'[p].cleanup = S
           /\ \A q \in Procs \ {p} : proc'[q] = proc[q]
<1> DEFINE new == [Idle EXCEPT !.at = "close", !.cleanup = S]
<1>1. /\ new \in ProcType
      /\ new.at = "close" /\ new.old = None /\ new.made = NoClients /\ new.cleanup = S
  BY IdleType DEF ProcType, Idle
<1> HIDE DEF new
<1>2. proc'[p] = new
  BY ProcTyped DEF new
<1>3. QED
  BY <1>1, <1>2, ProcTyped DEF new

\* What updateBus has replaced are clients.
LEMMA CleanupType ==
    ASSUME Shape, NEW p \in Procs
    PROVE  /\ Cleanup(p) \in SUBSET Clients
           /\ \A c \in Cleanup(p) : client[c] # None
           /\ \A c \in Cleanup(p) :
                \E r \in ToReplace(p) : proc[p].old # None /\ c = proc[p].old.clients[r]
           /\ proc[p].old # None =>
                \A r \in ToReplace(p) : proc[p].old.clients[r] \in Cleanup(p)
<1>1. \A c \in Cleanup(p) :
        \E r \in ToReplace(p) : proc[p].old # None /\ c = proc[p].old.clients[r]
  BY DEF Cleanup, ToReplace
<1>2. Hand(p)
  BY DEF Shape
<1>3. \A c \in Cleanup(p) : c \in Clients /\ client[c] # None
  BY <1>1, <1>2 DEF Hand, MadeFor, ToReplace
<1>4. QED
  BY <1>1, <1>3 DEF Cleanup, ToReplace

LEMMA StoreFacts ==
    ASSUME Shape, NEW p \in Procs, Store(p)
    PROVE  /\ proc[p].at = "build" /\ proc[p].todo = {} /\ proc[p].info \in Infos
           /\ stored' = [info |-> proc[p].info, clients |-> proc[p].made]
           /\ stored' \in Entries(PlanRoles) /\ stored' # None
           /\ stored'.info = proc[p].info /\ stored'.clients = proc[p].made
           /\ \A r \in PlanRoles : MadeFor(proc[p].made[r], r, proc[p].info)
           /\ proc' \in [Procs -> ProcType]
           /\ proc'[p].at = "close" /\ proc'[p].old = None
           /\ proc'[p].made = NoClients /\ proc'[p].cleanup = Cleanup(p)
           /\ \A q \in Procs \ {p} : proc'[q] = proc[q]
<1>1. proc[p].at = "build" /\ proc[p].todo = {} /\ proc[p].info \in Infos
      /\ proc[p].made \in [PlanRoles -> Clients \cup {None}]
  <2>1. proc[p] \in ProcType
    BY ProcTyped
  <2>2. QED
    BY <2>1 DEF Store, Shape, BusesTypeOK, ProcType
<1>2. Hand(p)
  BY DEF Shape
<1>3. \A r \in PlanRoles : MadeFor(proc[p].made[r], r, proc[p].info)
  BY <1>1, <1>2 DEF Hand
<1>4. stored' = [info |-> proc[p].info, clients |-> proc[p].made]
  BY DEF Store
<1>5. proc[p].made \in [PlanRoles -> Clients]
  BY <1>1, <1>3 DEF MadeFor
<1>6. stored' \in Entries(PlanRoles)
  BY <1>1, <1>4, <1>5 DEF Entries
<1>7. stored' # None
  BY <1>6, PlanFacts, ProcTyped
<1>8. proc' = [proc EXCEPT ![p] = [Idle EXCEPT !.at = "close", !.cleanup = Cleanup(p)]]
  BY DEF Store
<1>9. QED
  BY <1>1, <1>3, <1>4, <1>6, <1>7, <1>8, CloseFacts, CleanupType, ZenonT(40)

\* What deleteBus closes are clients of the stored bus.
LEMMA DeleteFacts ==
    ASSUME Shape, NEW p \in Procs, Delete(p)
    PROVE  /\ proc[p].at = "load" /\ proc[p].info = None /\ stored' = None
           /\ proc' \in [Procs -> ProcType]
           /\ proc'[p].at = "close" /\ proc'[p].old = None
           /\ proc'[p].made = NoClients
           /\ proc'[p].cleanup = IF stored = None THEN {}
                                 ELSE {stored.clients[r] : r \in plan.closedByDelete}
           /\ \A c \in proc'[p].cleanup : client[c] # None
           /\ \A q \in Procs \ {p} : proc'[q] = proc[q]
<1> DEFINE S == IF stored = None THEN {} ELSE {stored.clients[r] : r \in plan.closedByDelete}
<1>1. /\ proc[p].at = "load" /\ proc[p].info = None /\ stored' = None
      /\ proc' = [proc EXCEPT ![p] = [Idle EXCEPT !.at = "close", !.cleanup = S]]
  BY DEF Delete
<1>2. \A c \in S : c \in Clients /\ client[c] # None
  BY PlanFacts, ProcTyped DEF Shape, StoredMade, MadeFor
<1>3. S \in SUBSET Clients
  BY <1>2
<1> HIDE DEF S
<1>4. /\ proc' \in [Procs -> ProcType]
      /\ proc'[p].at = "close" /\ proc'[p].old = None
      /\ proc'[p].made = NoClients /\ proc'[p].cleanup = S
      /\ \A q \in Procs \ {p} : proc'[q] = proc[q]
  BY <1>1, <1>3, CloseFacts
<1>5. \A c \in proc'[p].cleanup : client[c] # None
  BY <1>2, <1>4
<1>6. QED
  BY <1>1, <1>4, <1>5 DEF S

LEMMA CloseClientFacts ==
    ASSUME Shape, NEW p \in Procs, CloseClient(p)
    PROVE  \E c \in proc[p].cleanup :
             /\ c \in Clients /\ client[c] # None
             /\ proc[p].at = "close"
             /\ client' = [client EXCEPT ![c].open = FALSE]
             /\ client' \in [Clients -> Built(PlanRoles) \cup {None}]
             /\ \A d \in Clients \ {c} : client'[d] = client[d]
             /\ SameUse(c) /\ client'[c] # None /\ client'[c].open = FALSE
             /\ proc' \in [Procs -> ProcType]
             /\ proc'[p].at = "close" /\ proc'[p].old = proc[p].old
             /\ proc'[p].made = proc[p].made /\ proc'[p].cleanup = proc[p].cleanup \ {c}
             /\ \A q \in Procs \ {p} : proc'[q] = proc[q]
<1>1. PICK c \in proc[p].cleanup :
        /\ client' = [client EXCEPT ![c].open = FALSE]
        /\ proc' = [proc EXCEPT ![p].cleanup = @ \ {c}]
  BY DEF CloseClient
<1>2. proc[p] \in ProcType /\ proc[p].at = "close"
  BY ProcTyped DEF CloseClient
<1>3. c \in Clients /\ client[c] # None
  BY <1>2 DEF Shape, Hand, ProcType
<1>4. client[c] \in Built(PlanRoles)
  BY <1>3, ProcTyped
<1> DEFINE y == [client[c] EXCEPT !.open = FALSE]
<1>5. /\ y \in Built(PlanRoles) /\ y # None
      /\ y.role = client[c].role /\ y.topic = client[c].topic /\ y.mode = client[c].mode
      /\ y.open = FALSE
  BY <1>4, ClosedType, ProcTyped
<1>6. client' = [client EXCEPT ![c] = y]
  BY <1>1
<1> HIDE DEF y
<1>7. /\ client'[c] = y /\ \A d \in Clients \ {c} : client'[d] = client[d]
      /\ client' \in [Clients -> Built(PlanRoles) \cup {None}]
  BY <1>3, <1>5, <1>6, ProcTyped
<1> DEFINE C == proc[p].cleanup \ {c}
           new == [proc[p] EXCEPT !.cleanup = C]
<1>8. C \in SUBSET Clients
  BY <1>2 DEF ProcType
<1>9. proc' = [proc EXCEPT ![p] = new]
  BY <1>1, <1>2, ProcTyped
<1> HIDE DEF C
<1>10. /\ new \in ProcType /\ new.at = "close" /\ new.old = proc[p].old
       /\ new.made = proc[p].made /\ new.cleanup = C
  BY <1>2, <1>8 DEF ProcType
<1> HIDE DEF new
<1>11. proc'[p] = new /\ proc' \in [Procs -> ProcType] /\ \A q \in Procs \ {p} : proc'[q] = proc[q]
  BY <1>9, <1>10, ProcTyped
<1>12. QED
  BY <1>1, <1>2, <1>3, <1>5, <1>7, <1>10, <1>11 DEF C, SameUse
\* A step of one goroutine, from what it leaves alone and what it sets.
LEMMA Moves ==
    ASSUME Shape, NEW p \in Procs,
           UNCHANGED <<plan, wanted, stop, changes>>, stop = "no",
           reported' \in BOOLEAN, overlapped' \in BOOLEAN, dropped' \in BOOLEAN,
           abandoned' \in BOOLEAN, deleted' \in BOOLEAN,
           proc' \in [Procs -> ProcType],
           \A q \in Procs \ {p} : proc'[q] = proc[q],
           proc'[p].at = "build" =>
             /\ proc'[p].info # None
             /\ proc'[p].todo = {r \in PlanRoles : proc'[p].made[r] = None},
           client' \in [Clients -> Built(PlanRoles) \cup {None}],
           \A c \in InUse : SameUse(c),
           stored' \in Entries(PlanRoles) \cup {None},
           StoredMade', Hand(p)'
    PROVE  Shape'
<1>1. PlanRoles' = PlanRoles /\ plan' \in Plans /\ wanted' \in Infos \cup {None}
      /\ stop' \in {"no", "waiting", "left", "done"} /\ changes' \in 0..MaxChanges
  BY DEF PlanRoles, Shape, BusesTypeOK
<1>2. \A q \in Procs : proc'[q].at = "build" =>
        proc'[q].info # None /\ proc'[q].todo = {r \in PlanRoles : proc'[q].made[r] = None}
  BY DEF Shape, BusesTypeOK
<1>3. BusesTypeOK'
  BY <1>1, <1>2 DEF BusesTypeOK, ProcType, Entries, Built
<1>4. QED
  BY <1>3, ShapeMove

\* A client that nothing touches.
LEMMA Untouched ==
    ASSUME client' = client
    PROVE  \A c : SameUse(c)
BY DEF SameUse

LEMMA StopNo ==
    ASSUME Shape, NEW p \in Procs, proc[p].at # "idle"
    PROVE  stop = "no"
BY DEF Shape, Stopped

LEMMA BooleanHistory ==
    ASSUME Shape
    PROVE  /\ reported \in BOOLEAN /\ overlapped \in BOOLEAN /\ dropped \in BOOLEAN
           /\ abandoned \in BOOLEAN /\ deleted \in BOOLEAN
BY DEF Shape, BusesTypeOK

LEMMA BeginShape ==
    ASSUME Shape, NEW p \in Procs, Begin(p)
    PROVE  Shape'
<1>1. UNCHANGED <<plan, wanted, stored, client, stop, changes, dropped, deleted>>
      /\ stop = "no" /\ reported' = FALSE /\ abandoned' = FALSE /\ overlapped' \in BOOLEAN
  BY BooleanHistory DEF Begin
<1>2. Hand(p)'
  BY <1>1, BeginFacts DEF Hand, NoClients, PlanRoles
<1>3. StoredMade'
  BY <1>1, StoredStays, Untouched
<1>4. QED
  BY <1>1, <1>2, <1>3, BeginFacts, ProcTyped, BooleanHistory, Untouched, Moves

LEMMA LoadShape ==
    ASSUME Shape, NEW p \in Procs, Load(p)
    PROVE  Shape'
<1>1. UNCHANGED <<plan, wanted, reported, stored, client, stop, changes,
                  overlapped, dropped, abandoned, deleted>>
  BY DEF Load, history
<1>2. stop = "no"
  BY LoadFacts, StopNo
<1>3. StoredMade'
  BY <1>1, StoredStays, Untouched
<1> DEFINE info == proc[p].info
           S == {r \in PlanRoles : Replaced(stored, info, r)}
<1>4. /\ proc[p].at = "load" /\ info \in Infos /\ proc[p].cleanup = {}
      /\ proc'[p].at = "build" /\ proc'[p].info = info /\ proc'[p].old = stored
      /\ proc'[p].cleanup = {} /\ proc'[p].todo = S
      /\ proc'[p].made = [r \in PlanRoles |-> IF r \in S THEN None ELSE stored.clients[r]]
  BY LoadFacts, ZenonT(40) DEF Shape, Hand
<1>5. ToReplace(p)' = S /\ PlanRoles' = PlanRoles
  BY <1>1, <1>4 DEF ToReplace, PlanRoles, Replaced
<1>6. ASSUME NEW r \in PlanRoles \ S
      PROVE  /\ stored # None /\ MadeFor(stored.clients[r], r, stored.info)
             /\ MadeFor(stored.clients[r], r, info)
             /\ proc'[p].made[r] = stored.clients[r] /\ stored.clients[r] # None
  <2>1. ~Replaced(stored, info, r)
    OBVIOUS
  <2>2. stored # None /\ MadeFor(stored.clients[r], r, stored.info)
    BY <2>1 DEF Replaced, Shape, StoredMade
  <2>3. MadeFor(stored.clients[r], r, info)
    BY <2>1, <2>2 DEF Replaced, MadeFor
  <2>4. QED
    BY <1>4, <2>2, <2>3 DEF MadeFor
<1>7. ASSUME NEW r \in S
      PROVE  proc'[p].made[r] = None /\ (stored # None => None # stored.clients[r])
  BY <1>4 DEF Shape, StoredMade, MadeFor
<1> HIDE DEF S, info
<1>8. Hand(p)'
  <2>1. proc'[p].old # None =>
          \A r \in PlanRoles : MadeFor(proc[p].old.clients[r], r, proc[p].old.info)'
    BY <1>1, <1>3, <1>4, <1>5 DEF StoredMade, MadeFor
  <2>2. \A r \in PlanRoles \ S : MadeFor(proc[p].made[r], r, proc[p].info)'
    BY <1>1, <1>4, <1>6 DEF MadeFor
  <2>3. QED
    BY <1>4, <1>5, <1>6, <1>7, <2>1, <2>2 DEF Hand
<1>9. proc'[p].info # None
  BY <1>4
<1>10. S = {r \in PlanRoles : proc'[p].made[r] = None}
  BY <1>4, <1>6, <1>7, LoadFacts DEF S, info
<1>11. QED
  BY <1>1, <1>2, <1>3, <1>4, <1>8, <1>9, <1>10, LoadFacts, ProcTyped, BooleanHistory,
     Untouched, Moves
LEMMA BuildShape ==
    ASSUME Shape, NEW p \in Procs, Build(p)
    PROVE  Shape'
<1>1. UNCHANGED <<plan, wanted, reported, stored, stop, changes,
                  overlapped, dropped, abandoned, deleted>>
  BY DEF Build, history
<1>2. PICK r \in proc[p].todo, c \in Clients \ InUse :
        /\ r \in PlanRoles
        /\ proc[p].at = "build" /\ proc[p].info \in Infos
        /\ client' = [client EXCEPT ![c] = Purpose(r, proc[p].info)]
        /\ proc' \in [Procs -> ProcType]
        /\ proc'[p].at = "build" /\ proc'[p].info = proc[p].info
        /\ proc'[p].old = proc[p].old /\ proc'[p].cleanup = proc[p].cleanup
        /\ proc'[p].todo = proc[p].todo \ {r}
        /\ proc'[p].made = [proc[p].made EXCEPT ![r] = c]
        /\ \A q \in Procs \ {p} : proc'[q] = proc[q]
  BY BuildFacts
<1>3. stop = "no" /\ proc[p] \in ProcType
  BY <1>2, StopNo, ProcTyped
<1>4. /\ Purpose(r, proc[p].info) \in Built(PlanRoles) /\ Purpose(r, proc[p].info) # None
      /\ client'[c] = Purpose(r, proc[p].info)
      /\ client' \in [Clients -> Built(PlanRoles) \cup {None}]
      /\ \A d \in Clients \ {c} : client'[d] = client[d]
  BY <1>2, PurposeType, ProcTyped
<1>5. \A d \in InUse : SameUse(d)
  BY <1>4 DEF InUse, SameUse
<1>6. StoredMade'
  BY <1>1, <1>5, StoredStays
<1>7. /\ proc'[p].made[r] = c /\ c # None
      /\ \A x \in PlanRoles \ {r} : proc'[p].made[x] = proc[p].made[x]
      /\ proc[p].todo = {x \in PlanRoles : proc[p].made[x] = None}
      /\ Hand(p)
  BY <1>2, <1>3 DEF ProcType, Shape, BusesTypeOK
<1>8. MadeFor(proc[p].made[r], r, proc[p].info)'
  BY <1>2, <1>4, <1>7 DEF MadeFor, Purpose
<1>9. PlanRoles' = PlanRoles /\ ToReplace(p)' = ToReplace(p)
  BY <1>1, <1>2 DEF PlanRoles, ToReplace, Replaced
<1>10. Hand(p)'
  <2>1. proc'[p].cleanup = {} /\ proc'[p].todo \subseteq ToReplace(p)
    BY <1>2, <1>7 DEF Hand
  <2>2. \A x \in PlanRoles \ proc'[p].todo : MadeFor(proc[p].made[x], x, proc[p].info)'
    <3>1. SUFFICES ASSUME NEW x \in PlanRoles \ proc'[p].todo, x # r
                   PROVE  MadeFor(proc[p].made[x], x, proc[p].info)'
      BY <1>8
    <3>2. x \notin proc[p].todo /\ proc'[p].made[x] = proc[p].made[x]
      BY <1>2, <1>7, <3>1
    <3>3. MadeFor(proc[p].made[x], x, proc[p].info)
      BY <1>2, <1>7, <3>2 DEF Hand
    <3>4. proc[p].made[x] \in InUse
      BY <3>3 DEF InUse, MadeFor
    <3>5. QED
      BY <1>2, <1>5, <3>2, <3>3, <3>4 DEF MadeFor, SameUse
  <2>3. \A x \in PlanRoles \ ToReplace(p) : proc'[p].made[x] = proc'[p].old.clients[x]
    BY <1>2, <1>7 DEF Hand
  <2>4. ASSUME proc'[p].old # None, NEW x \in PlanRoles
        PROVE  MadeFor(proc[p].old.clients[x], x, proc[p].old.info)'
    <3>1. MadeFor(proc[p].old.clients[x], x, proc[p].old.info)
      BY <1>2, <1>7, <2>4, SMTT(30) DEF Hand
    <3>2. proc[p].old.clients[x] \in InUse
      BY <1>2, <2>4, <3>1 DEF InUse, MadeFor
    <3>3. QED
      BY <1>2, <1>5, <3>1, <3>2 DEF MadeFor, SameUse
  <2>5. ASSUME proc'[p].old # None, NEW x \in ToReplace(p)
        PROVE  proc'[p].made[x] # proc'[p].old.clients[x]
    <3>1. x \in PlanRoles
      BY DEF ToReplace
    <3>2. CASE x = r
      BY <1>2, <1>7, <2>5, <3>1, <3>2 DEF InUse
    <3>3. CASE x # r
      BY <1>2, <1>7, <2>5, <3>1, <3>3 DEF Hand
    <3>4. QED
      BY <3>2, <3>3
  <2>6. QED
    BY <1>2, <1>9, <2>1, <2>2, <2>3, <2>4, <2>5 DEF Hand
<1>11. /\ proc'[p].info # None
       /\ proc'[p].todo = {x \in PlanRoles : proc'[p].made[x] = None}
  BY <1>2, <1>7
<1>12. QED
  BY <1>1, <1>2, <1>3, <1>4, <1>5, <1>6, <1>10, <1>11, ProcTyped, BooleanHistory, Moves

\* Handle has ended, or failed.
LEMMA IdleShape ==
    ASSUME Shape, NEW p \in Procs, BuildFails(p) \/ Return(p)
    PROVE  Shape'
<1>1. UNCHANGED <<plan, wanted, stored, client, stop, changes, overlapped, deleted>>
  BY DEF BuildFails, Return, history
<1>2. reported' \in BOOLEAN /\ dropped' \in BOOLEAN /\ abandoned' \in BOOLEAN
  BY BooleanHistory DEF BuildFails, Return, history
<1>3. stop = "no"
  BY IdleFacts, StopNo
<1>4. Hand(p)'
  BY <1>1, IdleFacts, IdleType DEF Hand, NoClients, PlanRoles
<1>5. StoredMade'
  BY <1>1, StoredStays, Untouched
<1>6. QED
  BY <1>1, <1>2, <1>3, <1>4, <1>5, IdleFacts, IdleType, ProcTyped, BooleanHistory, Untouched, Moves

LEMMA StoreShape ==
    ASSUME Shape, NEW p \in Procs, Store(p)
    PROVE  Shape'
<1>1. UNCHANGED <<plan, wanted, reported, client, stop, changes,
                  overlapped, dropped, abandoned, deleted>>
  BY DEF Store, history
<1>2. stop = "no"
  BY StoreFacts, StopNo
<1>3. StoredMade'
  BY <1>1, StoreFacts DEF StoredMade, MadeFor, PlanRoles
<1>4. Hand(p)'
  BY <1>1, StoreFacts, CleanupType DEF Hand, NoClients, PlanRoles
<1>5. QED
  BY <1>1, <1>2, <1>3, <1>4, StoreFacts, ProcTyped, BooleanHistory, Untouched, Moves

LEMMA DeleteShape ==
    ASSUME Shape, NEW p \in Procs, Delete(p)
    PROVE  Shape'
<1>1. UNCHANGED <<plan, wanted, reported, client, stop, changes, overlapped, dropped, abandoned>>
      /\ deleted' \in BOOLEAN
  BY BooleanHistory DEF Delete
<1>2. stop = "no"
  BY DeleteFacts, StopNo
<1>3. StoredMade'
  BY DeleteFacts DEF StoredMade
<1>4. Hand(p)'
  BY <1>1, DeleteFacts DEF Hand, NoClients, PlanRoles
<1>5. QED
  BY <1>1, <1>2, <1>3, <1>4, DeleteFacts, ProcTyped, BooleanHistory, Untouched, Moves

LEMMA CloseClientShape ==
    ASSUME Shape, NEW p \in Procs, CloseClient(p)
    PROVE  Shape'
<1>1. UNCHANGED <<plan, wanted, reported, stored, stop, changes,
                  overlapped, dropped, abandoned, deleted>>
  BY DEF CloseClient, history
<1>2. PICK c \in proc[p].cleanup :
        /\ c \in Clients /\ client[c] # None
        /\ proc[p].at = "close"
        /\ client' \in [Clients -> Built(PlanRoles) \cup {None}]
        /\ \A d \in Clients \ {c} : client'[d] = client[d]
        /\ SameUse(c) /\ client'[c] # None
        /\ proc' \in [Procs -> ProcType]
        /\ proc'[p].at = "close" /\ proc'[p].old = proc[p].old
        /\ proc'[p].made = proc[p].made /\ proc'[p].cleanup = proc[p].cleanup \ {c}
        /\ \A q \in Procs \ {p} : proc'[q] = proc[q]
  BY CloseClientFacts
<1>3. stop = "no"
  BY <1>2, StopNo
<1>4. \A d \in Clients : SameUse(d)
  BY <1>2 DEF SameUse
<1>5. \A d \in InUse : SameUse(d)
  BY <1>4 DEF InUse
<1>6. StoredMade'
  BY <1>1, <1>5, StoredStays
<1>7. Hand(p)'
  <2>1. Hand(p) /\ NoClients' = NoClients /\ PlanRoles' = PlanRoles /\ proc[p] \in ProcType
    BY <1>1, ProcTyped DEF Shape, NoClients, PlanRoles
  <2>2. \A d \in proc'[p].cleanup : client'[d] # None
    BY <1>2, <1>4, <2>1 DEF Hand, SameUse, ProcType
  <2>3. ASSUME proc'[p].old # None, NEW x \in PlanRoles
        PROVE  MadeFor(proc[p].old.clients[x], x, proc[p].old.info)'
    <3>1. MadeFor(proc[p].old.clients[x], x, proc[p].old.info)
      BY <1>2, <2>1, <2>3 DEF Hand
    <3>2. QED
      BY <1>2, <1>4, <3>1 DEF MadeFor, SameUse
  <2>4. QED
    BY <1>2, <2>1, <2>2, <2>3 DEF Hand
<1>8. QED
  BY <1>1, <1>2, <1>3, <1>5, <1>6, <1>7, ProcTyped, BooleanHistory, Moves
\* Nobody moves: each goroutine has in hand what it had.
LEMMA ShapeRests ==
    ASSUME Shape, UNCHANGED <<plan, proc>>,
           wanted' \in Infos \cup {None}, reported' \in BOOLEAN, changes' \in 0..MaxChanges,
           stop' \in {"no", "waiting", "left", "done"},
           UNCHANGED history,
           client' \in [Clients -> Built(PlanRoles) \cup {None}],
           \A c \in InUse : SameUse(c),
           stored' \in Entries(PlanRoles) \cup {None},
           StoredMade', Stopped'
    PROVE  Shape'
<1>1. PlanRoles' = PlanRoles /\ plan' \in Plans /\ proc' \in [Procs -> ProcType]
  BY ProcTyped DEF PlanRoles
<1>2. \A q \in Procs : proc'[q].at = "build" =>
        proc'[q].info # None /\ proc'[q].todo = {r \in PlanRoles : proc'[q].made[r] = None}
  BY DEF Shape, BusesTypeOK
<1>3. /\ overlapped' \in BOOLEAN /\ dropped' \in BOOLEAN
      /\ abandoned' \in BOOLEAN /\ deleted' \in BOOLEAN
  BY BooleanHistory DEF history
<1>4. BusesTypeOK'
  BY <1>1, <1>2, <1>3 DEF BusesTypeOK, ProcType, Entries, Built
<1>5. \A q \in Procs : Hand(q)'
  BY HandStays
<1>6. QED
  BY <1>4, <1>5 DEF Shape

LEMMA BusReportedShape ==
    ASSUME Shape, NEW i \in Infos \cup {None}, BusReported(i)
    PROVE  Shape'
<1>1. UNCHANGED <<plan, stored, client, proc, stop, history>>
      /\ stop = "no" /\ wanted' = i /\ reported' = TRUE
  BY DEF BusReported
<1>2. changes' \in 0..MaxChanges
  BY DEF BusReported, Shape, BusesTypeOK
<1>3. StoredMade' /\ Stopped' /\ stop \in {"no", "waiting", "left", "done"}
  BY <1>1, StoredStays, Untouched DEF Stopped
<1>4. QED
  BY <1>1, <1>2, <1>3, ProcTyped, Untouched, ShapeRests

LEMMA CloseStoredFacts ==
    ASSUME Shape, CloseStored
    PROVE  /\ \A c \in Clients : SameUse(c)
           /\ client' \in [Clients -> Built(PlanRoles) \cup {None}]
           /\ stored # None => \A r \in PlanRoles :
                client'[stored.clients[r]] # None /\ client'[stored.clients[r]].open = FALSE
           /\ \A c \in Clients :
                (stored # None => \A r \in PlanRoles : stored.clients[r] # c)
                => client'[c] = client[c]
<1> DEFINE Its(c) == stored # None /\ \E r \in PlanRoles : stored.clients[r] = c
<1>1. client' = [c \in Clients |-> IF Its(c) THEN [client[c] EXCEPT !.open = FALSE]
                                             ELSE client[c]]
  BY DEF CloseStored
<1>2. ASSUME NEW c \in Clients, Its(c)
      PROVE  client[c] \in Built(PlanRoles) /\ client[c] # None
  BY <1>2, ProcTyped DEF Shape, StoredMade, MadeFor
<1>3. ASSUME NEW c \in Clients, Its(c)
      PROVE  /\ client'[c] \in Built(PlanRoles) /\ client'[c] # None
             /\ client'[c].open = FALSE /\ SameUse(c)
  <2>1. client'[c] = [client[c] EXCEPT !.open = FALSE]
    BY <1>1, <1>3
  <2>2. QED
    BY <1>2, <1>3, <2>1, ClosedType, ProcTyped DEF SameUse
<1>4. ASSUME NEW c \in Clients, ~Its(c)
      PROVE  client'[c] = client[c] /\ SameUse(c)
  BY <1>1, <1>4 DEF SameUse
<1>5. ASSUME NEW r \in PlanRoles, stored # None
      PROVE  stored.clients[r] \in Clients /\ Its(stored.clients[r])
  BY <1>5 DEF Shape, StoredMade, MadeFor
<1>6. DOMAIN client' = Clients /\ client' = [c \in Clients |-> client'[c]]
  BY <1>1
<1>7. \A c \in Clients : client'[c] \in Built(PlanRoles) \cup {None}
  BY <1>3, <1>4, ProcTyped
<1>8. client' \in [Clients -> Built(PlanRoles) \cup {None}]
  BY <1>6, <1>7
<1>9. QED
  BY <1>3, <1>4, <1>5, <1>8

LEMMA CloseStoredShape ==
    ASSUME Shape, CloseStored
    PROVE  Shape'
<1>1. UNCHANGED <<plan, wanted, reported, proc, changes, history>>
      /\ stored' = None /\ stop' = "waiting" /\ \A p \in Procs : proc[p].at = "idle"
  BY DEF CloseStored
<1>2. /\ StoredMade' /\ Stopped'
      /\ wanted \in Infos \cup {None} /\ reported \in BOOLEAN /\ changes \in 0..MaxChanges
  BY <1>1 DEF StoredMade, Stopped, Shape, BusesTypeOK
<1>3. \A c \in InUse : SameUse(c)
  BY CloseStoredFacts DEF InUse
<1>4. QED
  BY <1>1, <1>2, <1>3, CloseStoredFacts, ShapeRests

LEMMA CloseLeavesShape ==
    ASSUME Shape, CloseLeaves
    PROVE  Shape'
<1>1. UNCHANGED <<plan, wanted, reported, client, proc, changes, history>>
      /\ stored' = None /\ stop' = "left" /\ \A p \in Procs : proc[p].at = "idle"
  BY DEF CloseLeaves
<1>2. /\ StoredMade' /\ Stopped'
      /\ wanted \in Infos \cup {None} /\ reported \in BOOLEAN /\ changes \in 0..MaxChanges
  BY <1>1 DEF StoredMade, Stopped, Shape, BusesTypeOK
<1>3. QED
  BY <1>1, <1>2, ProcTyped, Untouched, ShapeRests

\* eg.Wait, and a step in which nothing happens.
LEMMA RestShape ==
    ASSUME Shape, WaitReturns \/ UNCHANGED busesVars
    PROVE  Shape'
<1>1. UNCHANGED <<plan, wanted, reported, stored, client, proc, changes, history>>
      /\ stop' \in {"no", "waiting", "left", "done"} /\ (stop' # "no" => stop # "no")
      /\ wanted \in Infos \cup {None} /\ reported \in BOOLEAN /\ changes \in 0..MaxChanges
  BY DEF WaitReturns, busesVars, Shape, BusesTypeOK
<1>2. StoredMade' /\ Stopped'
  BY <1>1, StoredStays, Untouched DEF Stopped, Shape
<1>3. QED
  BY <1>1, <1>2, ProcTyped, Untouched, ShapeRests

LEMMA InitShape ==
    ASSUME BusesInit
    PROVE  Shape
<1>1. PlanRoles \subseteq Roles /\ None \notin Entries(PlanRoles) /\ plan \in Plans
  BY PlanFacts DEF BusesInit
<1>2. proc \in [Procs -> ProcType]
  BY IdleType DEF BusesInit
<1>3. \A p \in Procs : Hand(p) /\ proc[p].at = "idle"
  BY IdleType DEF BusesInit, Hand
<1>4. \A p \in Procs : proc[p].at # "build"
  BY <1>3
<1>5. client \in [Clients -> Built(PlanRoles) \cup {None}]
  BY DEF BusesInit
<1>6. changes \in 0..MaxChanges
  <2>1. MaxChanges \in Nat /\ changes = 0
    BY DEF BusesInit
  <2>2. QED
    BY ONLY <2>1
<1>7. stop \in {"no", "waiting", "left", "done"} /\ reported \in BOOLEAN
      /\ overlapped \in BOOLEAN /\ dropped \in BOOLEAN /\ abandoned \in BOOLEAN
      /\ deleted \in BOOLEAN
  BY DEF BusesInit
<1>8. wanted \in Infos \cup {None} /\ stored \in Entries(PlanRoles) \cup {None}
  BY DEF BusesInit
<1>9. BusesTypeOK
  BY <1>1, <1>2, <1>4, <1>5, <1>6, <1>7, <1>8 DEF BusesTypeOK, ProcType
<1>10. QED
  BY <1>3, <1>9 DEF BusesInit, Shape, StoredMade, Stopped

LEMMA StepShape ==
    ASSUME Shape, [BusesNext]_busesVars
    PROVE  Shape'
<1>1. ASSUME NEW i \in Infos \cup {None}, BusReported(i)
      PROVE  Shape'
  BY <1>1, BusReportedShape
<1>2. ASSUME NEW p \in Procs, Handle(p)
      PROVE  Shape'
  BY <1>2, BeginShape, LoadShape, BuildShape, IdleShape, StoreShape, DeleteShape,
     CloseClientShape DEF Handle
<1>3. ASSUME CloseStored
      PROVE  Shape'
  BY <1>3, CloseStoredShape
<1>4. ASSUME CloseLeaves
      PROVE  Shape'
  BY <1>4, CloseLeavesShape
<1>5. ASSUME WaitReturns \/ UNCHANGED busesVars
      PROVE  Shape'
  BY <1>5, RestShape
<1>6. QED
  BY <1>1, <1>2, <1>3, <1>4, <1>5 DEF BusesNext
-----------------------------------------------------------------------------
(* One Handle at a time.                                                   *)

\* What the reflector has is stored.
AsWanted == IF wanted = None THEN stored = None ELSE stored # None /\ stored.info = wanted

Alone == \A p, q \in Procs : proc[p].at # "idle" /\ proc[q].at # "idle" => p = q

\* A Handle that nobody disturbs: what it has loaded is still stored, its
\* clients are open, it closes nothing that is stored, and unless the key is
\* reported again it works on what the reflector has.
AtWork(p) ==
    /\ proc[p].at = "build" =>
         /\ proc[p].old = stored
         /\ \A r \in PlanRoles \ proc[p].todo : client[proc[p].made[r]].open
    /\ stored # None => \A r \in PlanRoles : stored.clients[r] \notin proc[p].cleanup
    /\ proc[p].at \in {"load", "build"} /\ ~reported => proc[p].info = wanted
    /\ proc[p].at = "close" /\ ~reported => AsWanted

StoredOpen == stored # None => \A r \in PlanRoles : client[stored.clients[r]].open

InTurn == Alone /\ (\A p \in Procs : AtWork(p)) /\ StoredOpen

Serial == ~overlapped => InTurn

LEMMA IdleAtWork ==
    ASSUME Shape, NEW p \in Procs, proc[p].at = "idle"
    PROVE  AtWork(p)
BY DEF Shape, Hand, AtWork

LEMMA IdleAtWorkNext ==
    ASSUME Shape', NEW p \in Procs, proc'[p].at = "idle"
    PROVE  AtWork(p)'
BY DEF Shape, Hand, AtWork

\* A step of the only goroutine that is not idle.
LEMMA InTurnMoves ==
    ASSUME Shape', NEW p \in Procs,
           \A q \in Procs \ {p} : proc[q].at = "idle" /\ proc'[q] = proc[q],
           AtWork(p)', StoredOpen'
    PROVE  InTurn'
<1>1. \A q \in Procs \ {p} : AtWork(q)'
  BY IdleAtWorkNext
<1>2. QED
  BY <1>1 DEF InTurn, Alone

LEMMA OthersIdle ==
    ASSUME InTurn, NEW p \in Procs, proc[p].at # "idle"
    PROVE  \A q \in Procs \ {p} : proc[q].at = "idle"
BY DEF InTurn, Alone

LEMMA BeginInTurn ==
    ASSUME Shape, Shape', Serial, NEW p \in Procs, Begin(p), ~overlapped'
    PROVE  InTurn'
<1>1. ~overlapped /\ \A q \in Procs : proc[q].at = "idle"
  BY DEF Begin
<1>2. StoredOpen /\ UNCHANGED <<plan, wanted, stored, client>>
  BY <1>1 DEF Serial, InTurn, Begin
<1>3. StoredOpen'
  BY <1>2 DEF StoredOpen, PlanRoles
<1>4. AtWork(p)'
  BY <1>2, BeginFacts DEF AtWork, PlanRoles
<1>5. QED
  BY <1>1, <1>3, <1>4, BeginFacts, InTurnMoves

LEMMA LoadInTurn ==
    ASSUME Shape, Shape', InTurn, NEW p \in Procs, Load(p)
    PROVE  InTurn'
<1>1. UNCHANGED <<plan, wanted, reported, stored, client>> /\ PlanRoles' = PlanRoles
  BY DEF Load, PlanRoles
<1>2. StoredOpen' /\ AtWork(p)
  BY <1>1 DEF InTurn, StoredOpen
<1>3. proc[p].at = "load" /\ proc[p].cleanup = {}
  BY LoadFacts DEF Shape, Hand
<1> DEFINE M == [r \in PlanRoles |-> IF r \in proc'[p].todo THEN None ELSE stored.clients[r]]
<1>4. proc'[p].made = M
  BY LoadFacts
<1>5. ASSUME NEW r \in PlanRoles \ proc'[p].todo
      PROVE  client'[proc'[p].made[r]].open
  <2>1. proc'[p].made[r] = stored.clients[r]
    BY <1>4
  <2>2. ~Replaced(stored, proc[p].info, r)
    BY LoadFacts
  <2>3. stored # None
    BY <2>2 DEF Replaced
  <2>4. QED
    BY <1>1, <2>1, <2>3 DEF InTurn, StoredOpen
<1>6. AtWork(p)'
  BY <1>1, <1>2, <1>3, <1>5, LoadFacts DEF AtWork
<1>7. QED
  BY <1>2, <1>3, <1>6, LoadFacts, OthersIdle, InTurnMoves

LEMMA BuildInTurn ==
    ASSUME Shape, Shape', InTurn, NEW p \in Procs, Build(p)
    PROVE  InTurn'
<1>1. UNCHANGED <<plan, wanted, reported, stored>> /\ PlanRoles' = PlanRoles
  BY DEF Build, PlanRoles
<1>2. PICK r \in proc[p].todo, c \in Clients \ InUse :
        /\ r \in PlanRoles
        /\ proc[p].at = "build" /\ proc[p].info \in Infos
        /\ client' = [client EXCEPT ![c] = Purpose(r, proc[p].info)]
        /\ proc' \in [Procs -> ProcType]
        /\ proc'[p].at = "build" /\ proc'[p].info = proc[p].info
        /\ proc'[p].old = proc[p].old /\ proc'[p].cleanup = proc[p].cleanup
        /\ proc'[p].todo = proc[p].todo \ {r}
        /\ proc'[p].made = [proc[p].made EXCEPT ![r] = c]
        /\ \A q \in Procs \ {p} : proc'[q] = proc[q]
  BY BuildFacts
<1>3. Hand(p) /\ AtWork(p) /\ StoredOpen /\ StoredMade
  BY DEF InTurn, Shape
<1>4. client'[c].open /\ \A d \in Clients \ {c} : client'[d] = client[d]
  BY <1>2, ProcTyped DEF Purpose
<1>5. ASSUME NEW x \in PlanRoles \ proc'[p].todo
      PROVE  client'[proc'[p].made[x]].open
  <2>1. proc[p].made \in [PlanRoles -> Clients \cup {None}]
    BY ProcTyped DEF ProcType
  <2>2. CASE x = r
    <3>1. proc'[p].made[r] = c
      BY <1>2, <2>1
    <3>2. QED
      BY <1>4, <2>2, <3>1
  <2>3. CASE x # r
    <3>1. x \notin proc[p].todo /\ proc'[p].made[x] = proc[p].made[x]
      BY <1>2, <2>1, <2>3
    <3>2. proc[p].made[x] \in Clients /\ proc[p].made[x] # c
      BY <1>2, <1>3, <3>1 DEF Hand, MadeFor, InUse
    <3>3. QED
      BY <1>2, <1>3, <1>4, <3>1, <3>2 DEF AtWork
  <2>4. QED
    BY <2>2, <2>3
<1>6. StoredOpen'
  <2>1. SUFFICES ASSUME stored # None, NEW x \in PlanRoles
                 PROVE  client'[stored.clients[x]].open
    BY <1>1 DEF StoredOpen
  <2>2. stored.clients[x] \in Clients /\ stored.clients[x] # c
    BY <1>2, <1>3, <2>1 DEF StoredMade, MadeFor, InUse
  <2>3. QED
    BY <1>3, <1>4, <2>1, <2>2 DEF StoredOpen
<1>7. AtWork(p)'
  BY <1>1, <1>2, <1>3, <1>5 DEF AtWork
<1>8. QED
  BY <1>2, <1>6, <1>7, OthersIdle, InTurnMoves

LEMMA IdleInTurn ==
    ASSUME Shape, Shape', InTurn, NEW p \in Procs, BuildFails(p) \/ Return(p)
    PROVE  InTurn'
<1>1. UNCHANGED <<plan, stored, client>>
  BY DEF BuildFails, Return
<1>2. StoredOpen'
  BY <1>1 DEF InTurn, StoredOpen, PlanRoles
<1>3. AtWork(p)'
  BY IdleFacts, IdleType, IdleAtWorkNext
<1>4. QED
  BY <1>2, <1>3, IdleFacts, OthersIdle, InTurnMoves

LEMMA StoreInTurn ==
    ASSUME Shape, Shape', InTurn, NEW p \in Procs, Store(p)
    PROVE  InTurn'
<1>1. UNCHANGED <<plan, wanted, reported, client>> /\ PlanRoles' = PlanRoles
  BY DEF Store, PlanRoles
<1>2. Hand(p) /\ AtWork(p)
  BY DEF Shape, InTurn
<1>3. ASSUME NEW r \in PlanRoles
      PROVE  proc[p].made[r] \notin Cleanup(p)
  <2>1. SUFFICES ASSUME NEW x \in ToReplace(p), proc[p].old # None,
                        proc[p].made[r] = proc[p].old.clients[x]
                 PROVE  FALSE
    BY CleanupType
  <2>2. x \in PlanRoles
    BY DEF ToReplace
  <2>3. client[proc[p].made[r]].role = r
    BY StoreFacts DEF MadeFor
  <2>4. client[proc[p].old.clients[x]].role = x
    BY <1>2, <2>1, <2>2 DEF Hand, MadeFor
  <2>5. x = r
    BY <2>1, <2>3, <2>4
  <2>6. QED
    BY <1>2, <2>1, <2>5, StoreFacts DEF Hand
<1>4. StoredOpen'
  BY <1>1, <1>2, StoreFacts DEF StoredOpen, AtWork
<1>5. proc[p].info # None
  BY StoreFacts
<1>6. AtWork(p)'
  BY <1>1, <1>2, <1>3, <1>5, StoreFacts DEF AtWork, AsWanted
<1>7. QED
  BY <1>4, <1>6, StoreFacts, OthersIdle, InTurnMoves

LEMMA DeleteInTurn ==
    ASSUME Shape, Shape', InTurn, NEW p \in Procs, Delete(p)
    PROVE  InTurn'
<1>1. UNCHANGED <<plan, wanted, reported, client>> /\ AtWork(p)
  BY DEF Delete, InTurn
<1>2. StoredOpen'
  BY DeleteFacts DEF StoredOpen
<1>3. AtWork(p)'
  BY <1>1, DeleteFacts DEF AtWork, AsWanted
<1>4. QED
  BY <1>2, <1>3, DeleteFacts, OthersIdle, InTurnMoves

LEMMA CloseClientInTurn ==
    ASSUME Shape, Shape', InTurn, NEW p \in Procs, CloseClient(p)
    PROVE  InTurn'
<1>1. UNCHANGED <<plan, wanted, reported, stored>> /\ PlanRoles' = PlanRoles
  BY DEF CloseClient, PlanRoles
<1>2. PICK c \in proc[p].cleanup :
        /\ c \in Clients /\ proc[p].at = "close"
        /\ \A d \in Clients \ {c} : client'[d] = client[d]
        /\ proc'[p].at = "close" /\ proc'[p].cleanup = proc[p].cleanup \ {c}
        /\ \A q \in Procs \ {p} : proc'[q] = proc[q]
  BY CloseClientFacts
<1>3. AtWork(p) /\ StoredOpen /\ StoredMade
  BY DEF InTurn, Shape
<1>4. StoredOpen'
  <2>1. SUFFICES ASSUME stored # None, NEW x \in PlanRoles
                 PROVE  client'[stored.clients[x]].open
    BY <1>1 DEF StoredOpen
  <2>2. stored.clients[x] \in Clients /\ stored.clients[x] # c
    BY <1>2, <1>3, <2>1 DEF StoredMade, MadeFor, AtWork
  <2>3. QED
    BY <1>2, <1>3, <2>1, <2>2 DEF StoredOpen
<1>5. AtWork(p)'
  BY <1>1, <1>2, <1>3 DEF AtWork, AsWanted
<1>6. QED
  BY <1>2, <1>4, <1>5, OthersIdle, InTurnMoves

\* The steps outside of Handle.
LEMMA RestInTurn ==
    ASSUME Shape, Shape', InTurn,
           \/ \E i \in Infos \cup {None} : BusReported(i)
           \/ CloseStored
           \/ CloseLeaves
           \/ WaitReturns
           \/ UNCHANGED busesVars
    PROVE  InTurn'
<1>1. UNCHANGED <<plan, proc>>
  BY DEF BusReported, CloseStored, CloseLeaves, WaitReturns, busesVars
<1>2. Alone'
  BY <1>1 DEF InTurn, Alone
<1>3. CASE CloseStored \/ CloseLeaves
  BY <1>1, <1>2, <1>3, IdleAtWorkNext DEF CloseStored, CloseLeaves, InTurn, StoredOpen
<1>4. CASE ~(CloseStored \/ CloseLeaves)
  <2>1. UNCHANGED <<stored, client>> /\ (~reported' => UNCHANGED <<reported, wanted>>)
    BY <1>4 DEF BusReported, WaitReturns, busesVars
  <2>2. (\A p \in Procs : AtWork(p)') /\ StoredOpen'
    BY <1>1, <2>1 DEF InTurn, AtWork, AsWanted, StoredOpen, PlanRoles
  <2>3. QED
    BY <1>2, <2>2 DEF InTurn
<1>5. QED
  BY <1>3, <1>4

LEMMA StepSerial ==
    ASSUME Shape, Shape', Serial, [BusesNext]_busesVars
    PROVE  Serial'
<1>1. SUFFICES ASSUME ~overlapped'
               PROVE  InTurn'
  BY DEF Serial
<1>2. ~overlapped
  BY <1>1 DEF BusesNext, Handle, BusReported, Begin, Load, Build, BuildFails, Store, Delete,
     CloseClient, Return, CloseStored, CloseLeaves, WaitReturns, history, busesVars
<1>3. InTurn
  BY <1>2 DEF Serial
<1>4. ASSUME NEW p \in Procs, Handle(p)
      PROVE  InTurn'
  BY <1>1, <1>3, <1>4, BeginInTurn, LoadInTurn, BuildInTurn, IdleInTurn, StoreInTurn,
     DeleteInTurn, CloseClientInTurn DEF Handle
<1>5. QED
  BY <1>3, <1>4, RestInTurn DEF BusesNext
-----------------------------------------------------------------------------
(* The bus of a settled key.                                               *)

LEMMA HandleSettled ==
    ASSUME Shape', Serial, Serial', NEW p \in Procs, Handle(p), Shape
    PROVE  SettledStored'
<1>1. SUFFICES ASSUME ~overlapped', ~abandoned', ~reported',
                      \A q \in Procs : proc'[q].at = "idle"
               PROVE  AsWanted'
  BY DEF SettledStored, AsWanted
<1>2. BuildFails(p) \/ Return(p)
  BY <1>1, BeginFacts, LoadFacts, BuildFacts, StoreFacts, DeleteFacts, CloseClientFacts DEF Handle
<1>3. ASSUME BuildFails(p)
      PROVE  FALSE
  <2>1. abandoned' = ~(reported' \/ overlapped) /\ overlapped' = overlapped
    BY <1>3 DEF BuildFails
  <2>2. QED
    BY <1>1, <2>1
<1>4. UNCHANGED <<wanted, reported, stored, overlapped>> /\ proc[p].at = "close"
  BY <1>2, <1>3 DEF Return, history
<1>5. AsWanted
  BY <1>1, <1>4 DEF Serial, InTurn, AtWork
<1>6. QED
  BY <1>4, <1>5 DEF AsWanted

LEMMA StepSettled ==
    ASSUME Shape, Shape', Serial, Serial', SettledStored, [BusesNext]_busesVars
    PROVE  SettledStored'
<1>1. ASSUME NEW p \in Procs, Handle(p)
      PROVE  SettledStored'
  BY <1>1, HandleSettled
<1>2. ASSUME \/ \E i \in Infos \cup {None} : BusReported(i)
             \/ CloseStored
             \/ CloseLeaves
             \/ WaitReturns
      PROVE  SettledStored'
  BY <1>2 DEF BusReported, CloseStored, CloseLeaves, WaitReturns, SettledStored
<1>3. ASSUME UNCHANGED busesVars
      PROVE  SettledStored'
  BY <1>3 DEF busesVars, history, SettledStored
<1>4. QED
  BY <1>1, <1>2, <1>3 DEF BusesNext

-----------------------------------------------------------------------------
(* The clients that are forgotten.                                         *)

\* What a goroutine has in hand when it has this state.
Holds(state, c) == c \in state.cleanup \/ \E r \in PlanRoles : state.made[r] = c

LEMMA ForgottenHeld ==
    Forgotten = {c \in Clients :
        /\ client[c] # None /\ client[c].open
        /\ stored # None => \A r \in PlanRoles : stored.clients[r] # c
        /\ \A p \in Procs : ~Holds(proc[p], c)}
BY DEF Forgotten, Holds

\* A step that forgets no client.
ForgetsNone == \A c \in Forgotten' : c \in Forgotten /\ client'[c].role = client[c].role

LEMMA ForgetsNoneKeeps ==
    ASSUME ForgottenOnlyByDelete, ~overlapped, ~dropped, stop # "left", plan' = plan,
           deleted => deleted', ForgetsNone
    PROVE  ForgottenOnlyByDelete'
BY DEF ForgottenOnlyByDelete, ForgetsNone

\* A step of one goroutine that lets go of no open client.
LEMMA KeepsHold ==
    ASSUME NEW p \in Procs, plan' = plan,
           \A q \in Procs \ {p} : proc'[q] = proc[q],
           \A c \in Clients : client'[c] # None /\ client'[c].open => \/ client'[c] = client[c]
                                                                     \/ Holds(proc'[p], c),
           \A c \in Clients : Holds(proc[p], c) =>
             \/ Holds(proc'[p], c)
             \/ stored' # None /\ \E r \in PlanRoles : stored'.clients[r] = c
             \/ ~client'[c].open,
           stored # None => \A r \in PlanRoles :
             \/ Holds(proc'[p], stored.clients[r])
             \/ stored' # None /\ \E x \in PlanRoles : stored'.clients[x] = stored.clients[r]
    PROVE  ForgetsNone
<1>1. PlanRoles' = PlanRoles
  BY DEF PlanRoles
<1>2. SUFFICES ASSUME NEW c \in Forgotten'
               PROVE  c \in Forgotten /\ client'[c].role = client[c].role
  BY DEF ForgetsNone
<1>3. /\ c \in Clients /\ client'[c] # None /\ client'[c].open
      /\ stored' # None => \A r \in PlanRoles : stored'.clients[r] # c
      /\ \A q \in Procs : ~Holds(proc'[q], c)
  BY <1>1 DEF Forgotten, Holds
<1>4. client'[c] = client[c]
  BY <1>3
<1>5. ~Holds(proc[p], c) /\ (stored # None => \A r \in PlanRoles : stored.clients[r] # c)
  BY <1>3
<1>6. \A q \in Procs \ {p} : ~Holds(proc[q], c)
  BY <1>1, <1>3 DEF Holds
<1>7. QED
  BY <1>3, <1>4, <1>5, <1>6, ForgottenHeld

\* Before it has loaded the bus a goroutine holds nothing.
LEMMA HoldsNothing ==
    ASSUME Shape, NEW p \in Procs, proc[p].at \notin {"build", "close"}
    PROVE  \A c \in Clients : ~Holds(proc[p], c)
<1>1. proc[p].made = NoClients /\ proc[p].cleanup = {}
  BY DEF Shape, Hand
<1>2. \A r \in PlanRoles : proc[p].made[r] \notin Clients
  BY <1>1 DEF NoClients
<1>3. QED
  BY <1>1, <1>2 DEF Holds

LEMMA BeginForgets ==
    ASSUME Shape, NEW p \in Procs, Begin(p)
    PROVE  ForgetsNone
<1>1. UNCHANGED <<plan, client, stored>> /\ PlanRoles' = PlanRoles
  BY DEF Begin, PlanRoles
<1>2. \A c \in Clients : ~Holds(proc[p], c)
  BY BeginFacts, HoldsNothing
<1>3. QED
  BY <1>1, <1>2, BeginFacts, KeepsHold

LEMMA LoadForgets ==
    ASSUME Shape, NEW p \in Procs, Load(p)
    PROVE  ForgetsNone
<1>1. UNCHANGED <<plan, client, stored>> /\ PlanRoles' = PlanRoles
  BY DEF Load, PlanRoles
<1>2. \A c \in Clients : ~Holds(proc[p], c)
  BY LoadFacts, HoldsNothing
<1>3. QED
  BY <1>1, <1>2, LoadFacts, KeepsHold

LEMMA BuildForgets ==
    ASSUME Shape, NEW p \in Procs, Build(p)
    PROVE  ForgetsNone
<1>1. UNCHANGED <<plan, stored>> /\ PlanRoles' = PlanRoles
  BY DEF Build, PlanRoles
<1>2. PICK r \in proc[p].todo, c \in Clients \ InUse :
        /\ r \in PlanRoles
        /\ proc[p].at = "build" /\ proc[p].info \in Infos
        /\ client' = [client EXCEPT ![c] = Purpose(r, proc[p].info)]
        /\ proc' \in [Procs -> ProcType]
        /\ proc'[p].at = "build" /\ proc'[p].info = proc[p].info
        /\ proc'[p].old = proc[p].old /\ proc'[p].cleanup = proc[p].cleanup
        /\ proc'[p].todo = proc[p].todo \ {r}
        /\ proc'[p].made = [proc[p].made EXCEPT ![r] = c]
        /\ \A q \in Procs \ {p} : proc'[q] = proc[q]
  BY BuildFacts
<1>3. /\ proc[p].made \in [PlanRoles -> Clients \cup {None}]
      /\ proc[p].made[r] = None
  BY <1>2, ProcTyped DEF ProcType, Shape, BusesTypeOK
<1>4. proc'[p].made[r] = c /\ \A x \in PlanRoles \ {r} : proc'[p].made[x] = proc[p].made[x]
  BY <1>2, <1>3
<1>5. Holds(proc'[p], c) /\ \A d \in Clients \ {c} : client'[d] = client[d]
  BY <1>1, <1>2, <1>4, ProcTyped DEF Holds
<1>6. \A d \in Clients : Holds(proc[p], d) => Holds(proc'[p], d)
  BY <1>1, <1>2, <1>3, <1>4 DEF Holds
<1>7. QED
  BY <1>1, <1>2, <1>5, <1>6, KeepsHold

\* A Handle that fails before it has built a client holds those of the
\* stored bus.
LEMMA IdleForgets ==
    ASSUME Shape, InTurn, NEW p \in Procs, BuildFails(p) \/ Return(p), ~dropped'
    PROVE  ForgetsNone
<1>1. UNCHANGED <<plan, client, stored>> /\ PlanRoles' = PlanRoles
  BY DEF BuildFails, Return, PlanRoles
<1>2. Hand(p) /\ AtWork(p) /\ proc[p].made \in [PlanRoles -> Clients \cup {None}]
  BY ProcTyped DEF Shape, InTurn, ProcType
<1>3. ASSUME NEW c \in Clients, Holds(proc[p], c)
      PROVE  stored # None /\ \E r \in PlanRoles : stored.clients[r] = c
  <2>1. CASE Return(p)
    BY <1>2, <1>3, <2>1, IdleFacts DEF Hand, Holds, NoClients
  <2>2. CASE BuildFails(p)
    <3>1. proc[p].at = "build" /\ proc[p].cleanup = {} /\ proc[p].todo = ToReplace(p)
      BY <1>2, <2>2 DEF BuildFails, HasBuilt, ToReplace, Hand
    <3>2. PICK r \in PlanRoles : proc[p].made[r] = c
      BY <1>3, <3>1 DEF Holds
    <3>3. r \notin proc[p].todo
      BY <3>1, <3>2 DEF Shape, BusesTypeOK
    <3>4. proc[p].old # None /\ proc[p].made[r] = proc[p].old.clients[r]
      BY <1>2, <3>1, <3>3 DEF Hand, ToReplace, Replaced
    <3>5. QED
      BY <1>2, <3>1, <3>2, <3>4 DEF AtWork
  <2>3. QED
    BY <2>1, <2>2
<1>4. QED
  BY <1>1, <1>3, IdleFacts, KeepsHold

LEMMA StoreForgets ==
    ASSUME Shape, InTurn, NEW p \in Procs, Store(p)
    PROVE  ForgetsNone
<1>1. UNCHANGED <<plan, client>> /\ PlanRoles' = PlanRoles
  BY DEF Store, PlanRoles
<1>2. Hand(p) /\ AtWork(p)
  BY DEF Shape, InTurn
<1>3. \A c \in Clients : Holds(proc[p], c) => \E r \in PlanRoles : stored'.clients[r] = c
  BY <1>2, StoreFacts DEF Hand, Holds
<1>4. ASSUME stored # None, NEW r \in PlanRoles
      PROVE  \/ Holds(proc'[p], stored.clients[r])
             \/ stored'.clients[r] = stored.clients[r]
  <2>1. proc[p].old = stored
    BY <1>2, StoreFacts DEF AtWork
  <2>2. CASE r \in ToReplace(p)
    BY <1>4, <2>1, <2>2, CleanupType, StoreFacts DEF Holds
  <2>3. CASE r \notin ToReplace(p)
    BY <1>2, <2>1, <2>3, StoreFacts DEF Hand
  <2>4. QED
    BY <2>2, <2>3
<1>5. QED
  BY <1>1, <1>3, <1>4, StoreFacts, KeepsHold

\* deleteBus lets go of what it does not close.
LEMMA DeleteForgets ==
    ASSUME Shape, ForgottenOnlyByDelete, ~overlapped, ~dropped, stop # "left",
           NEW p \in Procs, Delete(p)
    PROVE  ForgottenOnlyByDelete'
<1>1. UNCHANGED <<plan, client>> /\ PlanRoles' = PlanRoles
      /\ deleted' = (deleted \/ stored # None)
  BY DEF Delete, PlanRoles
<1>2. SUFFICES ASSUME NEW c \in Forgotten'
               PROVE  deleted' /\ client[c].role \notin plan.closedByDelete
  BY <1>1 DEF ForgottenOnlyByDelete
<1>3. /\ c \in Clients /\ client[c] # None /\ client[c].open
      /\ \A q \in Procs : ~Holds(proc'[q], c)
  BY <1>1 DEF Forgotten, Holds
<1>4. CASE stored # None /\ \E r \in PlanRoles : stored.clients[r] = c
  <2>1. PICK r \in PlanRoles : stored.clients[r] = c
    BY <1>4
  <2>2. client[c].role = r
    BY <1>4, <2>1 DEF Shape, StoredMade, MadeFor
  <2>3. c \notin proc'[p].cleanup
    BY <1>3 DEF Holds
  <2>4. r \notin plan.closedByDelete
    BY <1>4, <2>1, <2>3, DeleteFacts
  <2>5. QED
    BY <1>1, <1>4, <2>2, <2>4
<1>5. CASE ~(stored # None /\ \E r \in PlanRoles : stored.clients[r] = c)
  <2>1. ~Holds(proc[p], c)
    BY <1>3, DeleteFacts, HoldsNothing
  <2>2. \A q \in Procs \ {p} : ~Holds(proc[q], c)
    <3>1. \A q \in Procs \ {p} : proc'[q] = proc[q]
      BY DeleteFacts
    <3>2. QED
      BY <1>3, <3>1
  <2>3. c \in Forgotten
    BY <1>3, <1>5, <2>1, <2>2, ForgottenHeld
  <2>4. QED
    BY <1>1, <2>3 DEF ForgottenOnlyByDelete
<1>6. QED
  BY <1>4, <1>5

LEMMA CloseClientForgets ==
    ASSUME Shape, NEW p \in Procs, CloseClient(p)
    PROVE  ForgetsNone
<1>1. UNCHANGED <<plan, stored>> /\ PlanRoles' = PlanRoles
  BY DEF CloseClient, PlanRoles
<1>2. PICK c \in proc[p].cleanup :
        /\ c \in Clients
        /\ \A d \in Clients \ {c} : client'[d] = client[d]
        /\ client'[c].open = FALSE
        /\ proc'[p].made = proc[p].made /\ proc'[p].cleanup = proc[p].cleanup \ {c}
        /\ \A q \in Procs \ {p} : proc'[q] = proc[q]
  BY CloseClientFacts
<1>3. \A d \in Clients \ {c} : Holds(proc[p], d) => Holds(proc'[p], d)
  BY <1>1, <1>2 DEF Holds
<1>4. QED
  BY <1>1, <1>2, <1>3, KeepsHold

LEMMA RestForgets ==
    ASSUME Shape,
           \/ \E i \in Infos \cup {None} : BusReported(i)
           \/ CloseStored
           \/ WaitReturns
           \/ UNCHANGED busesVars
    PROVE  ForgetsNone
<1>1. UNCHANGED <<plan, proc>> /\ PlanRoles' = PlanRoles
  BY DEF BusReported, CloseStored, WaitReturns, busesVars, PlanRoles
<1>2. CASE CloseStored
  <2>1. SUFFICES ASSUME NEW c \in Forgotten'
                 PROVE  c \in Forgotten /\ client'[c].role = client[c].role
    BY DEF ForgetsNone
  <2>2. /\ c \in Clients /\ client'[c] # None /\ client'[c].open
        /\ \A q \in Procs : ~Holds(proc[q], c)
    BY <1>1 DEF Forgotten, Holds
  <2>3. (stored # None => \A r \in PlanRoles : stored.clients[r] # c) /\ client'[c] = client[c]
    BY <1>2, <2>2, CloseStoredFacts
  <2>4. QED
    BY <2>2, <2>3, ForgottenHeld
<1>3. CASE ~CloseStored
  <2>1. UNCHANGED <<stored, client>>
    BY <1>3 DEF BusReported, WaitReturns, busesVars
  <2>2. QED
    BY <1>1, <2>1 DEF ForgetsNone, Forgotten
<1>4. QED
  BY <1>2, <1>3

\* What has happened stays happened.
LEMMA HistoryGrows ==
    ASSUME Shape, Shape', [BusesNext]_busesVars
    PROVE  /\ overlapped => overlapped'
           /\ dropped => dropped'
           /\ deleted => deleted'
           /\ plan' = plan
<1>1. ASSUME NEW p \in Procs, Handle(p)
      PROVE  /\ overlapped' = overlapped \/ Begin(p)
             /\ dropped' = dropped \/ BuildFails(p)
             /\ deleted' = deleted \/ Delete(p)
             /\ plan' = plan
  BY <1>1 DEF Handle, Begin, Load, Build, BuildFails, Store, Delete, CloseClient, Return, history
<1>2. ASSUME \/ \E i \in Infos \cup {None} : BusReported(i)
             \/ CloseStored
             \/ CloseLeaves
             \/ WaitReturns
             \/ UNCHANGED busesVars
      PROVE  UNCHANGED <<plan, overlapped, dropped, deleted>>
  BY <1>2 DEF BusReported, CloseStored, CloseLeaves, WaitReturns, history, busesVars
<1>3. ASSUME NEW p \in Procs, Begin(p)
      PROVE  overlapped => overlapped'
  BY <1>3 DEF Begin
<1>4. ASSUME NEW p \in Procs, BuildFails(p)
      PROVE  dropped => dropped'
  BY <1>4 DEF BuildFails
<1>5. ASSUME NEW p \in Procs, Delete(p)
      PROVE  deleted => deleted'
  BY <1>5 DEF Delete
<1>6. QED
  BY <1>1, <1>2, <1>3, <1>4, <1>5 DEF BusesNext

\* Nothing happens to a bus that Close has left.
LEMMA LeftStays ==
    ASSUME Shape, [BusesNext]_busesVars, stop = "left"
    PROVE  stop' = "left"
<1>1. \A p \in Procs : proc[p].at = "idle"
  BY DEF Shape, Stopped
<1>2. ASSUME NEW p \in Procs, Handle(p)
      PROVE  FALSE
  BY <1>1, <1>2 DEF Handle, Begin, Load, Build, BuildFails, Store, Delete, CloseClient, Return
<1>3. QED
  BY <1>2 DEF BusesNext, BusReported, CloseStored, CloseLeaves, WaitReturns, busesVars

LEMMA StepForgotten ==
    ASSUME Shape, Shape', Serial, ForgottenOnlyByDelete, [BusesNext]_busesVars
    PROVE  ForgottenOnlyByDelete'
<1>1. SUFFICES ASSUME ~overlapped', ~dropped', stop' # "left"
               PROVE  ForgottenOnlyByDelete'
  BY DEF ForgottenOnlyByDelete
<1>2. ~overlapped /\ ~dropped /\ stop # "left" /\ plan' = plan /\ (deleted => deleted')
  BY <1>1, HistoryGrows, LeftStays
<1>3. InTurn
  BY <1>2 DEF Serial
<1>4. ASSUME NEW p \in Procs, Handle(p), ~Delete(p)
      PROVE  ForgetsNone
  BY <1>1, <1>3, <1>4, BeginForgets, LoadForgets, BuildForgets, IdleForgets, StoreForgets,
     CloseClientForgets DEF Handle
<1>5. ASSUME NEW p \in Procs, Delete(p)
      PROVE  ForgottenOnlyByDelete'
  BY <1>2, <1>5, DeleteForgets
<1>6. QED
  BY <1>1, <1>2, <1>4, <1>5, RestForgets, ForgetsNoneKeeps DEF BusesNext, CloseLeaves
-----------------------------------------------------------------------------
(* The invariant and what follows from it.                                 *)

BusesIInv == Shape /\ Serial /\ SettledStored /\ ForgottenOnlyByDelete

LEMMA BusesIInvInit == BusesInit => BusesIInv
<1> SUFFICES ASSUME BusesInit
             PROVE  BusesIInv
  OBVIOUS
<1>1. Shape
  BY InitShape
<1>2. \A p \in Procs : proc[p].at = "idle"
  BY IdleType DEF BusesInit
<1>3. Serial
  BY <1>1, <1>2, IdleAtWork DEF Serial, InTurn, Alone, StoredOpen, BusesInit
<1>4. SettledStored
  BY DEF SettledStored, BusesInit
<1>5. ForgottenOnlyByDelete
  BY DEF ForgottenOnlyByDelete, Forgotten, BusesInit
<1>6. QED
  BY <1>1, <1>3, <1>4, <1>5 DEF BusesIInv

LEMMA BusesIInvStep == BusesIInv /\ [BusesNext]_busesVars => BusesIInv'
<1> SUFFICES ASSUME BusesIInv, [BusesNext]_busesVars
             PROVE  BusesIInv'
  OBVIOUS
<1>1. Shape'
  BY StepShape DEF BusesIInv
<1>2. Serial'
  BY <1>1, StepSerial DEF BusesIInv
<1>3. SettledStored'
  BY <1>1, <1>2, StepSettled DEF BusesIInv
<1>4. ForgottenOnlyByDelete'
  BY <1>1, StepForgotten DEF BusesIInv
<1>5. QED
  BY <1>1, <1>2, <1>3, <1>4 DEF BusesIInv

LEMMA BusesInvariant == BusesSpec => []BusesIInv
BY BusesIInvInit, BusesIInvStep, PTL DEF BusesSpec

\* A client is no more than what it was built for and whether it is open.
LEMMA SameClient ==
    ASSUME NEW R, NEW y \in Built(R), NEW z \in Built(R),
           y.role = z.role, y.topic = z.topic, y.mode = z.mode, y.open = z.open
    PROVE  y = z
BY DEF Built

\* What MadeFor says of a client is what Purpose says of it once it is open.
LEMMA MadeForPurpose ==
    ASSUME Shape, NEW c, NEW r \in PlanRoles, NEW info \in Infos, MadeFor(c, r, info)
    PROVE  [client[c] EXCEPT !.open = TRUE] = Purpose(r, info)
<1>1. client[c] \in Built(PlanRoles) /\ Purpose(r, info) \in Built(PlanRoles)
  BY ProcTyped, PurposeType DEF MadeFor
<1>2. ASSUME NEW x \in Built(PlanRoles)
      PROVE  LET y == [x EXCEPT !.open = TRUE]
             IN  /\ y \in Built(PlanRoles)
                 /\ y.role = x.role /\ y.topic = x.topic /\ y.mode = x.mode /\ y.open = TRUE
  BY DEF Built
<1>3. /\ Purpose(r, info).role = client[c].role /\ Purpose(r, info).topic = client[c].topic
      /\ Purpose(r, info).mode = client[c].mode /\ Purpose(r, info).open = TRUE
  BY DEF MadeFor, Purpose
<1> DEFINE y == [client[c] EXCEPT !.open = TRUE]
<1>4. /\ y \in Built(PlanRoles)
      /\ y.role = client[c].role /\ y.topic = client[c].topic
      /\ y.mode = client[c].mode /\ y.open = TRUE
  BY <1>1, <1>2
<1> HIDE DEF y
<1>5. y = Purpose(r, info)
  BY <1>1, <1>3, <1>4, SameClient
<1>6. QED
  BY <1>5 DEF y

\* Every state is typed.
THEOREM BusesTypeCorrect == BusesSpec => []BusesTypeOK
<1>1. BusesIInv => BusesTypeOK
  BY DEF BusesIInv, Shape
<1>2. QED
  BY <1>1, BusesInvariant, PTL

\* The stored clients serve the stored bus, and are open if no Handles overlapped.
THEOREM StoredClientsServe == BusesSpec => []StoredServes
<1>1. BusesIInv => StoredServes
  <2>1. SUFFICES ASSUME Shape, Serial, stored # None, NEW r \in PlanRoles
                 PROVE  LET c == client[stored.clients[r]]
                        IN  /\ c # None
                            /\ [c EXCEPT !.open = TRUE] = Purpose(r, stored.info)
                            /\ c.open \/ overlapped
    BY DEF BusesIInv, StoredServes
  <2>2. MadeFor(stored.clients[r], r, stored.info) /\ stored.info \in Infos
    BY <2>1, ProcTyped DEF Shape, StoredMade, Entries
  <2>3. client[stored.clients[r]].open \/ overlapped
    BY <2>1 DEF Serial, InTurn, StoredOpen
  <2>4. [client[stored.clients[r]] EXCEPT !.open = TRUE] = Purpose(r, stored.info)
    BY <2>1, <2>2, MadeForPurpose, Zenon
  <2>5. client[stored.clients[r]] # None
    BY <2>2 DEF MadeFor
  <2>6. QED
    BY <2>3, <2>4, <2>5, Zenon
<1>2. QED
  BY <1>1, BusesInvariant, PTL

\* A settled key's bus is stored as the reflector has it.
THEOREM SettledKeyStored == BusesSpec => []SettledStored
<1>1. BusesIInv => SettledStored
  BY DEF BusesIInv
<1>2. QED
  BY <1>1, BusesInvariant, PTL

\* Only deleteBus, a Handle that failed half-way, or a Close whose context has
\* ended, forgets a client.
THEOREM OnlyDeleteForgets == BusesSpec => []ForgottenOnlyByDelete
<1>1. BusesIInv => ForgottenOnlyByDelete
  BY DEF BusesIInv
<1>2. QED
  BY <1>1, BusesInvariant, PTL

\* What Close waits for (eg.Wait), if it gets there: consumers of deleted buses
\* that deleteBus does not close. If there are none, it waits for nobody.
THEOREM CloseWaitsForDeleted ==
    BusesSpec => [](stop = "waiting" /\ ~overlapped /\ ~dropped =>
                 \A c \in Receiving : deleted /\ client[c].role \notin plan.closedByDelete)
<1> DEFINE Waits == stop = "waiting" /\ ~overlapped /\ ~dropped =>
                      \A c \in Receiving : deleted /\ client[c].role \notin plan.closedByDelete
<1>1. BusesIInv => Waits
  <2>1. SUFFICES ASSUME BusesIInv, stop = "waiting", ~overlapped, ~dropped, NEW c \in Receiving
                 PROVE  deleted /\ client[c].role \notin plan.closedByDelete
    OBVIOUS
  <2>2. stored = None /\ \A p \in Procs : proc[p].at = "idle"
    BY <2>1 DEF BusesIInv, Shape, Stopped
  <2>3. \A p \in Procs : ~Holds(proc[p], c)
    BY <2>1, <2>2, HoldsNothing DEF BusesIInv, Receiving
  <2>4. c \in Forgotten
    BY <2>2, <2>3, ForgottenHeld DEF Receiving
  <2>5. QED
    BY <2>1, <2>4 DEF BusesIInv, ForgottenOnlyByDelete
<1>2. QED
  BY <1>1, BusesInvariant, PTL

-----------------------------------------------------------------------------
(* The reflector and the clients together.                                 *)

\* The rows of the table are buses, and the bus is one of its names.
RowsAreBuses == Bus \in Names /\ Enabled \subseteq Infos

Linked == wanted = Get(view)

\* A step of the program is one of its reflector or leaves the reflector alone.
LEMMA ReflectorStep ==
    ASSUME Bus \in Names, [Next]_vars
    PROVE  [ReflectorNext]_reflectorVars
<1>1. CASE ApplyBus
  BY <1>1 DEF ApplyBus, ReflectorNext, Watch
<1>2. CASE WatchReturnsBus
  BY <1>2 DEF WatchReturnsBus, ReflectorNext, Watch
<1>3. CASE ReflectorOnly
  BY <1>3 DEF ReflectorOnly, ReflectorNext, Watch
<1>4. CASE BusesOnly
  BY <1>4 DEF BusesOnly
<1>5. CASE UNCHANGED vars
  BY <1>5 DEF vars
<1>6. QED
  BY <1>1, <1>2, <1>3, <1>4, <1>5 DEF Next

\* What Get returns is a bus or nothing.
LEMMA GetType ==
    ASSUME RowsAreBuses, NEW map \in Content
    PROVE  Get(map) \in Infos \cup {None}
BY DEF RowsAreBuses, Content, Get

\* A step of the program is one of Buses or leaves the clients alone.
LEMMA BusesStep ==
    ASSUME RowsAreBuses, ReflectorTypeOK, ReflectorTypeOK', Linked, [Next]_vars
    PROVE  [BusesNext]_busesVars
<1>1. Get(view') \in Infos \cup {None} /\ wanted \in Infos \cup {None}
  BY GetType DEF ReflectorTypeOK, Linked, Content
<1>2. CASE ApplyBus
  BY <1>1, <1>2 DEF ApplyBus, BusesNext
<1>3. CASE WatchReturnsBus
  BY <1>1, <1>3 DEF WatchReturnsBus, BusesNext
<1>4. CASE ReflectorOnly
  BY <1>4 DEF ReflectorOnly
<1>5. CASE BusesOnly
  BY <1>5 DEF BusesOnly, BusesNext
<1>6. CASE UNCHANGED vars
  BY <1>6 DEF vars
<1>7. QED
  BY <1>2, <1>3, <1>4, <1>5, <1>6 DEF Next

\* What Handle gets is what the reflector's map has.
LEMMA LinkedStep ==
    ASSUME Bus \in Names, ReflectorTypeOK, Linked, [Next]_vars
    PROVE  Linked'
<1>1. CASE ApplyBus
  BY <1>1 DEF ApplyBus, BusReported, Linked, Get
<1>2. CASE WatchReturnsBus
  <2>1. view' = view /\ wanted' = wanted
    BY <1>2 DEF WatchReturnsBus, WatchReturns, BusReported, busesVars
  <2>2. QED
    BY <2>1 DEF Linked, Get
<1>3. CASE ReflectorOnly
  <2>1. wanted' = wanted
    BY <1>3 DEF ReflectorOnly, busesVars
  <2>2. view'[Bus] = view[Bus]
    <3>1. ASSUME NEW n \in Names \ {Bus}, ApplyKey(n)
          PROVE  view'[Bus] = view[Bus]
      BY <3>1 DEF ApplyKey, ReflectorTypeOK, Content
    <3>2. ASSUME Write
          PROVE  view' = view
      BY <3>2 DEF Write, CommitTogether, CommitRow, CommitBump, BumpFails, DropRows, watchVars
    <3>3. ASSUME ReadVersion \/ FetchPage \/ FetchLastPage \/ FetchFails
          PROVE  view' = view
      BY <3>3 DEF ReadVersion, FetchPage, FetchLastPage, FetchFails
    <3>4. QED
      BY <1>3, <3>1, <3>2, <3>3 DEF ReflectorOnly
  <2>3. QED
    BY <2>1, <2>2 DEF Linked, Get
<1>4. CASE BusesOnly
  <2>1. view' = view
    BY <1>4, SMTT(30) DEF BusesOnly, reflectorVars, watchVars
  <2>2. wanted' = wanted
    BY <1>4 DEF BusesOnly, Handle, Begin, Load, Build, BuildFails, Store, Delete, CloseClient,
       Return, CloseStored, CloseLeaves, WaitReturns
  <2>3. QED
    BY <2>1, <2>2 DEF Linked, Get
<1>5. CASE UNCHANGED vars
  BY <1>5 DEF vars, reflectorVars, watchVars, busesVars, Linked, Get
<1>6. QED
  BY <1>1, <1>2, <1>3, <1>4, <1>5 DEF Next

\* The program's reflector is a reflector: whatever module Reflector promises
\* of a Watch holds in the program (Watch).
THEOREM ImplementsReflector == Bus \in Names => (Spec => ReflectorSpec)
<1> SUFFICES ASSUME Bus \in Names
             PROVE  Spec => ReflectorSpec
  OBVIOUS
<1>1. Init => ReflectorInit
  BY DEF Init
<1>2. [Next]_vars => [ReflectorNext]_reflectorVars
  BY ReflectorStep
<1>3. QED
  BY <1>1, <1>2, PTL DEF Spec, ReflectorSpec

\* And its clients are those of module Buses: the environment that module
\* allows contains what the reflector does (Watch, Handle).
THEOREM ImplementsBuses == RowsAreBuses => (Spec => BusesSpec /\ []Linked)
<1> SUFFICES ASSUME RowsAreBuses
             PROVE  Spec => BusesSpec /\ []Linked
  OBVIOUS
<1>0. Bus \in Names
  BY DEF RowsAreBuses
<1>1. Init => BusesInit /\ Linked
  BY <1>0 DEF Init, ReflectorInit, BusesInit, Linked, Get
<1>2. Spec => []ReflectorTypeOK
  BY <1>0, ImplementsReflector, ReflectorTypeCorrect, PTL
<1>3. ReflectorTypeOK /\ Linked /\ [Next]_vars => Linked'
  BY <1>0, LinkedStep
<1>4. ReflectorTypeOK /\ ReflectorTypeOK' /\ Linked /\ [Next]_vars => [BusesNext]_busesVars
  BY BusesStep
<1>5. QED
  BY <1>1, <1>2, <1>3, <1>4, PTL DEF Spec, BusesSpec

\* From the table to the clients, for every number of rows, pages, writers,
\* goroutines and roles: a reflector that has caught up and a settled key mean
\* open clients for every role, made for the row in the table; or no bus.
THEOREM TableServed == RowsAreBuses => (Spec => []ServesTable)
<1> SUFFICES ASSUME RowsAreBuses
             PROVE  Spec => []ServesTable
  OBVIOUS
<1>1. ReflectorTypeOK /\ CaughtUp /\ BusesIInv /\ Linked => ServesTable
  <2> SUFFICES ASSUME ReflectorTypeOK, CaughtUp, BusesIInv, Linked,
                      Quiet, ~missed, Settled
               PROVE  IF Latest[Bus] = Absent THEN stored = None
                      ELSE /\ stored # None
                           /\ stored.info = Latest[Bus]
                           /\ \A r \in PlanRoles :
                                client[stored.clients[r]] = Purpose(r, Latest[Bus])
    BY DEF ServesTable
  <2>1. view = Latest /\ wanted = Get(Latest)
    BY DEF CaughtUp, Linked
  <2>2. IF wanted = None THEN stored = None ELSE stored # None /\ stored.info = wanted
    BY DEF BusesIInv, SettledStored, Settled
  <2>3. CASE Latest[Bus] = Absent
    BY <2>1, <2>2, <2>3 DEF Get
  <2>4. CASE Latest[Bus] # Absent
    <3>1. Latest[Bus] \in Infos /\ wanted = Latest[Bus]
      BY <2>1, <2>4 DEF Get, RowsAreBuses, ReflectorTypeOK, Content
    <3>2. stored # None /\ stored.info = Latest[Bus]
      BY <2>2, <3>1
    <3>3. ASSUME NEW r \in PlanRoles
          PROVE  client[stored.clients[r]] = Purpose(r, Latest[Bus])
      <4> DEFINE c == client[stored.clients[r]]
                 info == Latest[Bus]
      <4>1. MadeFor(stored.clients[r], r, info)
        BY <3>2 DEF BusesIInv, Shape, StoredMade
      <4>2. c.open
        BY <3>2 DEF BusesIInv, Serial, InTurn, StoredOpen, Settled
      <4>3. c \in Built(PlanRoles) /\ Purpose(r, info) \in Built(PlanRoles)
        BY <3>1, <4>1, ProcTyped, PurposeType DEF BusesIInv, MadeFor
      <4>4. /\ c.role = r /\ c.topic = info.topic[r.kind]
            /\ c.mode = (IF r.use = "receive" THEN info.mode ELSE None)
        BY <4>1 DEF MadeFor
      <4>5. c.open = TRUE
        BY <4>2, <4>3 DEF Built
      <4>6. /\ Purpose(r, info).role = c.role /\ Purpose(r, info).topic = c.topic
            /\ Purpose(r, info).mode = c.mode /\ Purpose(r, info).open = c.open
        BY <4>4, <4>5 DEF Purpose
      <4> HIDE DEF c, info
      <4>7. c = Purpose(r, info)
        BY <4>3, <4>6, SameClient
      <4>8. QED
        BY <4>7 DEF c, info
    <3>4. QED
      BY <2>4, <3>2, <3>3
  <2>5. QED
    BY <2>3, <2>4
<1>2. Bus \in Names
  BY DEF RowsAreBuses
<1>3. QED
  BY <1>1, <1>2, ImplementsReflector, ImplementsBuses, ReflectorTypeCorrect, WatchCatchesUp,
     BusesInvariant, PTL
=============================================================================
