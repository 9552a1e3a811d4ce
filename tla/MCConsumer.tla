----------------------------- MODULE MCConsumer -----------------------------
(* Consumer for TLC: messages are numbered, odd ones are retried with       *)
(* backoff and even ones with exponential decay; the first one is new, the *)
(* others were delivered to an earlier run of the job, which stopped.      *)
EXTENDS Consumer

MCStrategy == [m \in Msgs |-> IF m % 2 = 1 THEN "backoff" ELSE "decay"]
MCEarlier == [m \in Msgs |-> IF m = 1 THEN 0 ELSE 1]
=============================================================================
