---------------------------- MODULE KeyDispatch -----------------------------
(***************************************************************************)
(* What the informer promises a handler (app/internal/informer/handler.go, *)
(* reflector.go): a key that Watch reports waits until a goroutine handles *)
(* it; it leaves what waits only into a Handle, a Handle that fails puts   *)
(* it back, and only the retrier, which handles one key at a time, may     *)
(* give it up. Several goroutines handle keys at one time, the same key    *)
(* too, and a key that waits in two places is handled twice.               *)
(*                                                                         *)
(* Informer implements it with queues, workers, a heap and a timer; module *)
(* Rules has it for an environment.                                        *)
(***************************************************************************)
EXTENDS Naturals

CONSTANTS Keys, Workers, NoKey

VARIABLES
    waiting,     \* keys that are to be handled
    working,     \* what each worker handles: a key, and the reports it has seen
    retrying,    \* what the retrier handles
    noted,       \* how often each key was reported
    applied,     \* the newest report a Handle has applied
    gaveUp       \* the newest report that was given up

history == <<noted, applied, gaveUp>>
dispatch == <<waiting, working, retrying, history>>

Nothing == [key |-> NoKey, ver |-> 0]
Seeing(k) == [key |-> k, ver |-> noted[k]]
Newer(m, n) == IF m > n THEN m ELSE n

Init ==
    /\ waiting = {}
    /\ working = [w \in Workers |-> Nothing]
    /\ retrying = Nothing
    /\ noted = [k \in Keys |-> 0]
    /\ applied = [k \in Keys |-> 0]
    /\ gaveUp = [k \in Keys |-> 0]

Report(ks) ==
    /\ waiting' = waiting \cup ks
    /\ noted' = [k \in Keys |-> IF k \in ks THEN noted[k] + 1 ELSE noted[k]]
    /\ UNCHANGED <<working, retrying, applied, gaveUp>>

\* A Handle begins; the key may be waiting in another place as well.
Taken(k) == k \in waiting /\ waiting' \in {waiting, waiting \ {k}}

Settles(counter, done) == [counter EXCEPT ![done.key] = Newer(@, done.ver)]

Work(w, k) ==
    /\ working[w] = Nothing
    /\ Taken(k)
    /\ working' = [working EXCEPT ![w] = Seeing(k)]
    /\ UNCHANGED <<retrying, history>>

WorkSucceeds(w) ==
    /\ working[w] # Nothing
    /\ applied' = Settles(applied, working[w])
    /\ working' = [working EXCEPT ![w] = Nothing]
    /\ UNCHANGED <<waiting, retrying, noted, gaveUp>>

WorkFails(w) ==
    /\ working[w] # Nothing
    /\ waiting' = waiting \cup {working[w].key}
    /\ working' = [working EXCEPT ![w] = Nothing]
    /\ UNCHANGED <<retrying, history>>

Retry(k) ==
    /\ retrying = Nothing
    /\ Taken(k)
    /\ retrying' = Seeing(k)
    /\ UNCHANGED <<working, history>>

RetrySucceeds ==
    /\ retrying # Nothing
    /\ applied' = Settles(applied, retrying)
    /\ retrying' = Nothing
    /\ UNCHANGED <<waiting, working, noted, gaveUp>>

GivesUp ==
    /\ retrying # Nothing
    /\ gaveUp' = Settles(gaveUp, retrying)
    /\ retrying' = Nothing
    /\ UNCHANGED <<waiting, working, noted, applied>>

RetryFails ==
    /\ retrying # Nothing
    /\ waiting' = waiting \cup {retrying.key}
    /\ retrying' = Nothing
    /\ UNCHANGED <<working, history>>

Next ==
    \/ \E ks \in SUBSET Keys : Report(ks)
    \/ \E w \in Workers :
         \/ \E k \in Keys : Work(w, k)
         \/ WorkSucceeds(w)
         \/ WorkFails(w)
    \/ \E k \in Keys : Retry(k)
    \/ RetrySucceeds
    \/ GivesUp
    \/ RetryFails

Spec == Init /\ [][Next]_dispatch
=============================================================================
