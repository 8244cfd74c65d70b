----------------------------- MODULE MCBilling -----------------------------
(* Small instances of Billing. *)
EXTENDS Billing, TLC

CONSTANTS u1, u2, r1, r2, r3, k1

\* Two requests of the first user race for its row; the second user gives
\* do_sync_all a second update.
MCUserOf == [x \in Requests \cup Fulfilments \cup TopUps |->
               IF x = r3 THEN u2 ELSE u1]
MCBalance == (u1 :> 2) @@ (u2 :> 1)

\* The two requests of the first user are alike.
Alike == Permutations({r1, r2})
============================================================================
