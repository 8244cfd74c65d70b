---------------------------- MODULE MCAppStores ----------------------------
(* Small instances of AppStores. *)
EXTENDS AppStores, TLC

CONSTANTS alice, bob, p1, p2, p3

\* One announcement for both users and one for each of them.
MCPopupsFor == (alice :> {p1, p2}) @@ (bob :> {p1, p3})
============================================================================
