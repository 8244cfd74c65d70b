------------------------------ MODULE Delivery ------------------------------
(***************************************************************************)
(* What a streamed answer promises, without processes, mailboxes, timers   *)
(* or a connection: events are forwarded one after the other, the client   *)
(* gets them as far as they were forwarded, and they are billed at most    *)
(* once, at the end, all of them.  The client is told that the answer is complete   *)
(* only when it has got everything and nothing will be added.              *)
(***************************************************************************)
EXTENDS Integers

VARIABLES phase, forwarded, records, listening, delivered, told

Init ==
  /\ phase = "open" /\ listening = TRUE /\ told = FALSE
  /\ forwarded = 0 /\ delivered = 0 /\ records = <<>>

\* The next events; they may be the last, or the last before a crash.
Forward ==
  /\ phase = "open"
  /\ phase' \in {"open", "complete", "over"}
  /\ forwarded' \in Nat /\ forwarded' >= forwarded
  /\ UNCHANGED <<records, listening, delivered, told>>

Bill ==
  /\ phase = "complete" \/ (phase = "open" /\ forwarded > 0)
  /\ phase' = "over"
  /\ records' = <<forwarded>>
  /\ UNCHANGED <<forwarded, listening, delivered, told>>

\* An answer without usage is not billed, nor one that was stopped or crashed,
\* nor one that broke off after nothing but tokens of the cache.
Abandon ==
  /\ phase = "open"
  /\ phase' = "over"
  /\ UNCHANGED <<forwarded, records, listening, delivered, told>>

Deliver ==
  /\ listening
  /\ delivered' \in delivered..forwarded
  /\ UNCHANGED <<phase, forwarded, records, listening, told>>

\* The end, with nothing left to deliver and everything billed or about to be.
Conclude ==
  /\ listening /\ delivered = forwarded
  /\ phase = "complete" \/ (phase = "over" /\ records = <<forwarded>>)
  /\ listening' = FALSE /\ told' = TRUE
  /\ UNCHANGED <<phase, forwarded, records, delivered>>

\* An error, a timeout, or the client has gone.
Leave ==
  /\ listening
  /\ listening' = FALSE
  /\ UNCHANGED <<phase, forwarded, records, delivered, told>>

Next == Forward \/ Bill \/ Abandon \/ Deliver \/ Conclude \/ Leave

Spec == Init /\ [][Next]_<<phase, forwarded, records, listening, delivered, told>>
=============================================================================
