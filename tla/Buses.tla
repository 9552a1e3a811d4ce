-------------------------------- MODULE Buses -------------------------------
(***************************************************************************)
(* The clients of the message queue that a program keeps for a bus: the    *)
(* job's consumers and producers (app/job/internal/data/bus.go) and the    *)
(* service's producers (app/service/internal/data/sender.go). Both are the *)
(* same algorithm with other clients: the informer's handler loads the     *)
(* stored bus, builds the clients whose topic or mode differs, stores the  *)
(* new bus and closes what it replaced. Building is a call of the broker   *)
(* and may fail.                                                           *)
(*                                                                         *)
(* A role is a kind of topic and its use: to send to it or to receive. The *)
(* plan says which roles a program has, in the order it builds them, and   *)
(* which of them deleteBus closes. Entries of different buses never meet:  *)
(* one bus is modelled.                                                    *)
(***************************************************************************)
EXTENDS Naturals, Sequences, SequencesExt

CONSTANTS
    Kinds,       \* the kinds of topic of a bus
    Topics,      \* what a topic may be: type, endpoints, name
    Modes,       \* work modes of a bus
    Plans,       \* the programs: [order, closedByDelete]
    Procs,       \* goroutines of the informer that run Handle
    None,
    MaxClients,  \* bound: clients at one time
    MaxChanges   \* bound: changes and reports of the bus by the reflector

Roles == [kind : Kinds, use : {"send", "receive"}]
Clients == 1..MaxClients
Infos == [mode : Modes, topic : [Kinds -> Topics]]

\* An entry of the sync.Map for a program with these roles, and a client.
Entries(roles) == [info : Infos, clients : [roles -> Clients]]
Built(roles) == [role : roles, topic : Topics, mode : Modes \cup {None}, open : BOOLEAN]

ASSUME BusesAssumption ==
    /\ \A pl \in Plans : /\ pl.order \in Seq(Roles)
                         /\ pl.closedByDelete \subseteq ToSet(pl.order)
                         /\ None \notin Entries(ToSet(pl.order))
    /\ None \notin Infos \cup Clients \cup Built(Roles)
    /\ MaxClients \in Nat
    /\ MaxChanges \in Nat

VARIABLES
    plan,
    wanted,      \* the bus in the reflector's map
    reported,    \* the key is or will be reported, or failed, and not yet handled
    stored,      \* the entry of the sync.Map: the bus and its clients
    client,      \* what each client was built for, and whether it is open
    proc,        \* the goroutines of the informer
    stop,        \* Close: not yet, waits for the consumers, left at once, done
    changes,
    overlapped,  \* history: two Handles have been running at one time
    dropped,     \* history: a Handle failed after it had built a client
    abandoned,   \* history: of Handles without overlap, the last failed for good
    deleted      \* history: deleteBus found the bus

history == <<overlapped, dropped, abandoned, deleted>>
busesVars == <<plan, wanted, reported, stored, client, proc, stop, changes, history>>

-----------------------------------------------------------------------------
PlanRoles == ToSet(plan.order)

NoClients == [r \in PlanRoles |-> None]

Idle == [at |-> "idle", info |-> None, old |-> None,
         made |-> NoClients, todo |-> {}, cleanup |-> {}]

\* What a client is built for. A producer does not look at the mode.
Purpose(r, info) ==
    [role |-> r, topic |-> info.topic[r.kind],
     mode |-> IF r.use = "receive" THEN info.mode ELSE None, open |-> TRUE]

\* Clients something refers to.
InUse ==
    {c \in Clients :
        \/ client[c] # None /\ client[c].open
        \/ stored # None /\ \E r \in PlanRoles : stored.clients[r] = c
        \/ \E p \in Procs : \/ c \in proc[p].cleanup
                            \/ \E r \in PlanRoles :
                                 \/ proc[p].made[r] = c
                                 \/ proc[p].old # None /\ proc[p].old.clients[r] = c}

BusesTypeOK ==
    /\ plan \in Plans
    /\ wanted \in Infos \cup {None}
    /\ reported \in BOOLEAN
    /\ stored \in Entries(PlanRoles) \cup {None}
    /\ client \in [Clients -> Built(PlanRoles) \cup {None}]
    /\ proc \in [Procs -> [at : {"idle", "load", "build", "close"},
                           info : Infos \cup {None},
                           old : Entries(PlanRoles) \cup {None},
                           made : [PlanRoles -> Clients \cup {None}],
                           todo : SUBSET PlanRoles,
                           cleanup : SUBSET Clients]]
    /\ \A p \in Procs : proc[p].at = "build" =>
         proc[p].info # None /\ proc[p].todo = {r \in PlanRoles : proc[p].made[r] = None}
    /\ stop \in {"no", "waiting", "left", "done"}
    /\ changes \in 0..MaxChanges
    /\ overlapped \in BOOLEAN
    /\ dropped \in BOOLEAN
    /\ abandoned \in BOOLEAN
    /\ deleted \in BOOLEAN

BusesInit ==
    /\ plan \in Plans
    /\ wanted = None
    /\ reported = FALSE
    /\ stored = None
    /\ client = [c \in Clients |-> None]
    /\ proc = [p \in Procs |-> Idle]
    /\ stop = "no"
    /\ changes = 0
    /\ overlapped = FALSE
    /\ dropped = FALSE
    /\ abandoned = FALSE
    /\ deleted = FALSE

-----------------------------------------------------------------------------
\* The reflector stores or deletes the bus, or its Watch returns and reports
\* the key: a Handle may have come in between, and the key is then reported
\* once more with nothing changed. It counts as reported from the first.
BusReported(i) ==
    /\ stop = "no"
    /\ changes < MaxChanges
    /\ wanted' = i
    /\ reported' = TRUE
    /\ changes' = changes + 1
    /\ UNCHANGED <<plan, stored, client, proc, stop, history>>

\* Handle: reflector.Get decides between updateBus and deleteBus.
Begin(p) ==
    /\ stop = "no"
    /\ proc[p].at = "idle"
    /\ reported
    /\ reported' = FALSE
    /\ proc' = [proc EXCEPT ![p] = [Idle EXCEPT !.at = "load", !.info = wanted]]
    /\ overlapped' = (overlapped \/ \E q \in Procs : proc[q].at # "idle")
    /\ abandoned' = FALSE
    /\ UNCHANGED <<plan, wanted, stored, client, stop, changes, dropped, deleted>>

\* Mutation: a change of the mode keeps the consumers.
ReplacedByTopic(old, info, r) == old = None \/ old.info.topic[r.kind] # info.topic[r.kind]

\* A client is built anew if its topic differs, a consumer also if the mode does.
Replaced(old, info, r) ==
    \/ old = None
    \/ old.info.topic[r.kind] # info.topic[r.kind]
    \/ r.use = "receive" /\ old.info.mode # info.mode

\* updateBus: Load, and the comparison of the loaded bus with the new one.
Load(p) ==
    /\ proc[p].at = "load"
    /\ proc[p].info # None
    /\ LET replaced == {r \in PlanRoles : Replaced(stored, proc[p].info, r)}
       IN  proc' = [proc EXCEPT
               ![p].at = "build",
               ![p].old = stored,
               ![p].todo = replaced,
               ![p].made = [r \in PlanRoles |-> IF r \in replaced THEN None
                                                ELSE stored.clients[r]]]
    /\ UNCHANGED <<plan, wanted, reported, stored, client, stop, changes, history>>

\* The role whose turn it is: the first of the plan that is still to build.
Turn(p) ==
    {r \in proc[p].todo :
        \E i \in DOMAIN plan.order :
            plan.order[i] = r /\ \A j \in 1..(i - 1) : plan.order[j] \notin proc[p].todo}

\* What the next client may be: the least number nothing refers to.
Least(S) == {c \in S : \A d \in S : c <= d}
New == Least(Clients \ InUse)

\* Mutation: the new client is not assigned.
BuildUnassigned(p) ==
    /\ proc[p].at = "build"
    /\ \E r \in Turn(p), c \in New :
         /\ client' = [client EXCEPT ![c] = Purpose(r, proc[p].info)]
         /\ proc' = [proc EXCEPT ![p].todo = @ \ {r}]
    /\ UNCHANGED <<plan, wanted, reported, stored, stop, changes, history>>

\* newMQProducer, or newMQConsumer, which also starts Receive: the next client.
Build(p) ==
    /\ proc[p].at = "build"
    /\ \E r \in Turn(p), c \in New :
         /\ client' = [client EXCEPT ![c] = Purpose(r, proc[p].info)]
         /\ proc' = [proc EXCEPT ![p].made[r] = c, ![p].todo = @ \ {r}]
    /\ UNCHANGED <<plan, wanted, reported, stored, stop, changes, history>>

\* A Handle that has built a client.
HasBuilt(p) ==
    proc[p].todo # {r \in PlanRoles : Replaced(proc[p].old, proc[p].info, r)}

\* Mutation: the error is logged and nil is returned.
BuildFailsSilently(p) ==
    /\ proc[p].at = "build"
    /\ proc[p].todo # {}
    /\ proc' = [proc EXCEPT ![p] = Idle]
    /\ dropped' = (dropped \/ HasBuilt(p))
    /\ UNCHANGED <<plan, wanted, reported, stored, client, stop, changes,
                   overlapped, abandoned, deleted>>

\* It returns an error, and so does Handle: the informer will retry the key or
\* give it up. What was built before runs on.
BuildFails(p) ==
    /\ proc[p].at = "build"
    /\ proc[p].todo # {}
    /\ proc' = [proc EXCEPT ![p] = Idle]
    /\ reported' \in {reported, TRUE}
    /\ abandoned' = ~(reported' \/ overlapped)
    /\ dropped' = (dropped \/ HasBuilt(p))
    /\ UNCHANGED <<plan, wanted, stored, client, stop, changes, overlapped, deleted>>

\* Mutation: only the producers that were replaced are closed.
CleanupProducers(p) ==
    {proc[p].old.clients[r] : r \in {x \in PlanRoles :
        x.use = "send" /\ proc[p].old # None /\ Replaced(proc[p].old, proc[p].info, x)}}

\* The old clients that updateBus has replaced.
Cleanup(p) ==
    {proc[p].old.clients[r] : r \in {x \in PlanRoles :
        proc[p].old # None /\ Replaced(proc[p].old, proc[p].info, x)}}

\* All are built: the new bus is stored.
Store(p) ==
    /\ proc[p].at = "build"
    /\ proc[p].todo = {}
    /\ stored' = [info |-> proc[p].info, clients |-> proc[p].made]
    /\ proc' = [proc EXCEPT ![p] = [Idle EXCEPT !.at = "close", !.cleanup = Cleanup(p)]]
    /\ UNCHANGED <<plan, wanted, reported, client, stop, changes, history>>

\* deleteBus: LoadAndDelete, and which of the clients it will close.
Delete(p) ==
    /\ proc[p].at = "load"
    /\ proc[p].info = None
    /\ stored' = None
    /\ proc' = [proc EXCEPT ![p] = [Idle EXCEPT
         !.at = "close",
         !.cleanup = IF stored = None THEN {}
                     ELSE {stored.clients[r] : r \in plan.closedByDelete}]]
    /\ deleted' = (deleted \/ stored # None)
    /\ UNCHANGED <<plan, wanted, reported, client, stop, changes, overlapped, dropped, abandoned>>

\* Close of one client: the job closes them last to first, the service first
\* to last, here in any order. An error is only logged. A consumer's Receive
\* returns.
CloseClient(p) ==
    /\ proc[p].at = "close"
    /\ \E c \in proc[p].cleanup :
         /\ client' = [client EXCEPT ![c].open = FALSE]
         /\ proc' = [proc EXCEPT ![p].cleanup = @ \ {c}]
    /\ UNCHANGED <<plan, wanted, reported, stored, stop, changes, history>>

Return(p) ==
    /\ proc[p].at = "close"
    /\ proc[p].cleanup = {}
    /\ proc' = [proc EXCEPT ![p] = Idle]
    /\ UNCHANGED <<plan, wanted, reported, stored, client, stop, changes, history>>

-----------------------------------------------------------------------------
\* Close: the informer has been closed and WatchAndHandle has returned, so no
\* Handle runs any more; every client of the stored bus is closed.
CloseStored ==
    /\ stop = "no"
    /\ \A p \in Procs : proc[p].at = "idle"
    /\ client' = [c \in Clients |->
         IF stored # None /\ \E r \in PlanRoles : stored.clients[r] = c
         THEN [client[c] EXCEPT !.open = FALSE] ELSE client[c]]
    /\ stored' = None
    /\ stop' = "waiting"
    /\ UNCHANGED <<plan, wanted, reported, proc, changes, history>>

\* Close of the job when its context has ended meanwhile (ctx.Done): the bus is
\* out of the map by then, its clients go on, and nobody waits for them. The
\* service's cleanup has no context.
CloseLeaves ==
    /\ stop = "no"
    /\ \A p \in Procs : proc[p].at = "idle"
    /\ \E r \in PlanRoles : r.use = "receive"
    /\ stored' = None
    /\ stop' = "left"
    /\ UNCHANGED <<plan, wanted, reported, client, proc, changes, history>>

Receiving == {c \in Clients : client[c] # None /\ client[c].open /\ client[c].role.use = "receive"}

\* eg.Wait of the job: the goroutines of all consumers it ever started. The
\* service has none.
WaitReturns ==
    /\ stop = "waiting"
    /\ Receiving = {}
    /\ stop' = "done"
    /\ UNCHANGED <<plan, wanted, reported, stored, client, proc, changes, history>>

-----------------------------------------------------------------------------
Handle(p) ==
    \/ Begin(p)
    \/ Load(p)
    \/ Build(p)
    \/ BuildFails(p)
    \/ Store(p)
    \/ Delete(p)
    \/ CloseClient(p)
    \/ Return(p)

BusesNext ==
    \/ \E i \in Infos \cup {None} : BusReported(i)
    \/ \E p \in Procs : Handle(p)
    \/ CloseStored
    \/ CloseLeaves
    \/ WaitReturns

BusesSpec == BusesInit /\ [][BusesNext]_busesVars

-----------------------------------------------------------------------------
(* Properties.                                                             *)

\* The stored clients are made for the very topics and mode of the bus they
\* are stored with, whatever Handles overlap; and they are open unless some
\* did: while an update is under way, after one that failed half-way, and
\* after the bus was deleted and created again.
StoredServes ==
    stored # None => \A r \in PlanRoles :
        LET c == client[stored.clients[r]]
        IN  /\ c # None
            /\ [c EXCEPT !.open = TRUE] = Purpose(r, stored.info)
            /\ c.open \/ overlapped

\* Whatever the order of changes and failures, a bus whose key is handled, one
\* Handle at a time, is stored as the reflector has it, unless the last Handle
\* failed and was given up: the next one makes good what was given up before.
SettledStored ==
    /\ ~overlapped /\ ~abandoned /\ ~reported /\ stop = "no"
    /\ \A p \in Procs : proc[p].at = "idle"
    => IF wanted = None THEN stored = None
       ELSE stored # None /\ stored.info = wanted

\* Open clients nobody is about to close and that are not stored.
Forgotten ==
    {c \in Clients :
        /\ client[c] # None /\ client[c].open
        /\ stored # None => \A r \in PlanRoles : stored.clients[r] # c
        /\ \A p \in Procs : c \notin proc[p].cleanup
                            /\ \A r \in PlanRoles : proc[p].made[r] # c}

\* A client is forgotten - its consumer goes on and Close waits for it - only
\* by deleteBus, which does not close the job's consumers of the retry topics,
\* or when a later client of the same Handle cannot be built, or by a Close whose
\* context has ended. Without these nothing is left to wait for once the
\* informer has ended (Close, eg.Wait).
ForgottenOnlyByDelete ==
    ~overlapped /\ ~dropped /\ stop # "left" =>
        \A c \in Forgotten : deleted /\ client[c].role \notin plan.closedByDelete
=============================================================================
