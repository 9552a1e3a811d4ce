----------------------------- MODULE MCInformer -----------------------------
(* Informer for TLC: two keys and two workers, queues of one key, a retry  *)
(* delay of one or two units and one retry before Stop. k1 is reported     *)
(* twice, so that its second report comes while the first is queued,       *)
(* handled, failed or in the heap, with k2 anywhere at the time.           *)
EXTENDS Informer, TLC

CONSTANTS k1, k2

MCNotes == (k1 :> 2) @@ (k2 :> 1)
=============================================================================
