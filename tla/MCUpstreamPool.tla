--------------------------- MODULE MCUpstreamPool ---------------------------
(* Small instances of UpstreamPool. *)
EXTENDS UpstreamPool, TLC

CONSTANTS p1, p2, p3, c1, c2

Interchangeable == Permutations(Procs) \cup Permutations(Conns)

\* Some key's count is untouched by races and by stray returns.
SomeKeyClean == stale \cup strayed # Keys
=============================================================================
