----------------------------- MODULE MCSession -----------------------------
(* Small instances of Session. *)
EXTENDS Session, TLC

CONSTANTS alice, bob, c1, c2
============================================================================
