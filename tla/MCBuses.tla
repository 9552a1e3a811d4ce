------------------------------- MODULE MCBuses ------------------------------
(* Buses for TLC: the job's producer and consumer of a retry topic and its *)
(* consumer of a source topic, closed by deleteBus as in the code; and the *)
(* service's producers of two topics.                                      *)
EXTENDS Buses, TLC

CONSTANTS retry, source

SendTo(k) == [kind |-> k, use |-> "send"]
ReceiveFrom(k) == [kind |-> k, use |-> "receive"]

Job == [order |-> <<SendTo(retry), ReceiveFrom(retry), ReceiveFrom(source)>>,
        closedByDelete |-> {SendTo(retry), ReceiveFrom(source)}]
Sender == [order |-> <<SendTo(retry), SendTo(source)>>,
           closedByDelete |-> {SendTo(retry), SendTo(source)}]

MCPlans == {Job, Sender}

Sym == Permutations(Procs) \cup Permutations(Topics) \cup Permutations(Modes)
=============================================================================
