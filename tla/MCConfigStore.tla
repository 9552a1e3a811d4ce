---------------------------- MODULE MCConfigStore ---------------------------
(* ConfigStore for TLC: two buses, one of which has a rule; a schema that  *)
(* is created on the one bus and moved to the other and back.              *)
EXTENDS ConfigStore, TLC

CONSTANTS b1, b2, r1, on, off, t1, t2, s1

MCRequests ==
    [op : {"CreateBus", "DeleteBus"}, bus : BusNames]
    \cup {[op |-> "CreateRule", bus |-> b1, key |-> <<b1, r1>>,
           row |-> [spec |-> on, targets |-> {}]],
          [op |-> "UpdateRule", key |-> <<b1, r1>>, spec |-> off],
          [op |-> "DeleteRule", key |-> <<b1, r1>>]}
    \cup [op : {"CreateTargets"}, key : {<<b1, r1>>}, targets : {{t1}, {t2}}]
    \cup [op : {"DeleteTargets"}, key : {<<b1, r1>>}, targets : {{t1}}]
    \cup [op : {"CreateSchema"}, schema : {s1}, bus : {b1}]
    \cup [op : {"UpdateSchema"}, schema : {s1}, bus : BusNames]
    \cup [op : {"DeleteSchema"}, schemas : {{s1}}]

Sym == Permutations(Reqs)
=============================================================================
