------------------------------ MODULE MCStream ------------------------------
(* Small instances of Stream. *)
EXTENDS Stream

AllHandlers == {"claude", "openai", "antigravity"}

\* No usage, input or output tokens, and tokens of the cache only.
SomeTokens == {[all |-> 0, inout |-> 0], [all |-> 1, inout |-> 1],
               [all |-> 2, inout |-> 0]}
=============================================================================
