---------------------------- MODULE MCClipsPort ----------------------------
(* A small instance of ClipsPort. *)
EXTENDS ClipsPort, TLC

CONSTANTS c1, c2, c3, c4

\* Two decisions, with room for two more answers to be late between them.
MCKindsOf == (c1 :> {"decide", "ping"}) @@ (c2 :> {"facts", "config"})
               @@ (c3 :> {"config", "reload"}) @@ (c4 :> {"decide"})
============================================================================
