--------------------------- MODULE MCConcurrency ---------------------------
(* Small instances of Concurrency. *)
EXTENDS Concurrency, TLC

CONSTANTS u1, u2, p1, p2, p3, p4, p5

\* One user whose keys carry the limits 1 and 2, and a second user.
MixedUserOf == (p1 :> u1) @@ (p2 :> u1) @@ (p3 :> u1) @@ (p4 :> u1) @@ (p5 :> u2)
MixedLimitOf == (p1 :> 1) @@ (p2 :> 1) @@ (p3 :> 2) @@ (p4 :> 3) @@ (p5 :> 1)

\* One user, one limit.
UniformUserOf == [p \in Procs |-> u1]
UniformLimitOf == [p \in Procs |-> 2]
============================================================================
