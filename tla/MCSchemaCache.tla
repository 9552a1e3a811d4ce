---------------------------- MODULE MCSchemaCache ---------------------------
(* SchemaCache for TLC: two requests at a time are enough for a fill that  *)
(* is overtaken by a writer, whose goroutine then serves a reader.         *)
EXTENDS SchemaCache, TLC

Sym == Permutations(Reqs)
=============================================================================
