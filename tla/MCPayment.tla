----------------------------- MODULE MCPayment -----------------------------
(* Small instances of Payment. *)
EXTENDS Payment, TLC

CONSTANTS o1, o2, n1, n2, n3, h1, h2

\* Two notices of one order, as alipay's TRADE_SUCCESS and TRADE_FINISHED.
MCOrderOf == [n \in Notices |-> IF n = n3 THEN o2 ELSE o1]
============================================================================
