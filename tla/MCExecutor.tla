----------------------------- MODULE MCExecutor -----------------------------
(* Executor for TLC: two targets, contents that lack a transformer or a    *)
(* dispatcher, a pattern the matcher rejects with some of the targets.     *)
EXTENDS Executor, TLC

CONSTANTS t1, t2, a, b, noT, noD, fine, other, bad

TwoTargets(x, y) == [t \in Targets |-> IF t = t1 THEN x ELSE IF t = t2 THEN y ELSE None]

MCRuleSet ==
    [pattern : {fine}, targets : {TwoTargets(x, y) : x \in {a, b, noT, noD, None},
                                                     y \in {a, b, noT, None}}]
    \cup [pattern : {other, bad}, targets : {TwoTargets(a, b), TwoTargets(b, None)}]

Sym == Permutations(Procs) \cup Permutations(Dispatchers)
=============================================================================
