----------------------------- MODULE BusControl -----------------------------
(***************************************************************************)
(* A program of the control plane as far as buses go: its reflector and    *)
(* the clients it keeps for one of the buses. Module Reflector has the     *)
(* table, its writers and Watch; module Buses has Handle and Close, for    *)
(* which the reflector is an environment that says anything at any time.   *)
(* Here it says what Watch says: what Get returns is the reflector's map,  *)
(* and the key is reported by the Watch that changed it.                   *)
(***************************************************************************)
EXTENDS Reflector, Buses

CONSTANT Bus  \* the bus: one of the names of the table

Init == ReflectorInit /\ BusesInit

vars == <<reflectorVars, busesVars>>

\* What Get finds: nil and false if there is no such bus.
Get(map) == IF map[Bus] = Absent THEN None ELSE map[Bus]

\* Watch stores or deletes the bus; Handle can see it from now on.
ApplyBus == ApplyKey(Bus) /\ BusReported(Get(view'))

\* Watch returns, and the informer reports the bus if this Watch changed it.
WatchReturnsBus ==
    /\ WatchReturns
    /\ IF Index(fetched)[Bus] # inter[Bus] THEN BusReported(wanted)
                                           ELSE UNCHANGED busesVars

\* Writers, and what else Watch does.
ReflectorOnly ==
    /\ \/ Write
       \/ ReadVersion
       \/ FetchPage
       \/ FetchLastPage
       \/ FetchFails
       \/ \E n \in Names \ {Bus} : ApplyKey(n)
    /\ UNCHANGED busesVars

\* Handle and Close do not touch the reflector.
BusesOnly ==
    /\ \/ \E p \in Procs : Handle(p)
       \/ CloseStored
       \/ CloseLeaves
       \/ WaitReturns
    /\ UNCHANGED reflectorVars

Next == ApplyBus \/ WatchReturnsBus \/ ReflectorOnly \/ BusesOnly

Spec == Init /\ [][Next]_vars

-----------------------------------------------------------------------------
(* Properties.                                                             *)

\* The key is handled, by one Handle at a time, and none has been given up.
Settled ==
    /\ ~overlapped /\ ~abandoned /\ ~reported /\ stop = "no"
    /\ \A p \in Procs : proc[p].at = "idle"

\* From the row of the bus to its clients: once a Watch has caught up with the
\* writers and the key is settled, the program has open clients for every role,
\* made for the topics and the mode of the row in the table, and none if there
\* is no row (Watch, Handle, updateBus and deleteBus together).
ServesTable ==
    Quiet /\ ~missed /\ Settled =>
        IF Latest[Bus] = Absent THEN stored = None
        ELSE /\ stored # None
             /\ stored.info = Latest[Bus]
             /\ \A r \in PlanRoles : client[stored.clients[r]] = Purpose(r, Latest[Bus])
=============================================================================
