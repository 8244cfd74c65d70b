---------------------------- MODULE RefreshGate ----------------------------
(***************************************************************************)
(* What the client promises of a request that is answered with 401,        *)
(* without tokens, storage, callbacks or pages.  At most one request       *)
(* refreshes the session; one that is answered with 401 meanwhile waits    *)
(* for it, and all of them are sent once more, or end, together with it.   *)
(* One that was sent again never waits or refreshes a second time.         *)
(***************************************************************************)
CONSTANT Calls

VARIABLE stage    \* "idle", "sent", "waiting", "refreshing" or "again"

Refreshing == {c \in Calls : stage[c] = "refreshing"}
Held == {c \in Calls : stage[c] \in {"waiting", "refreshing"}}

Init == stage = [c \in Calls |-> "idle"]

Send(c) ==
  /\ stage[c] = "idle"
  /\ stage' = [stage EXCEPT ![c] = "sent"]

\* Answered, and not with a 401 that a refresh may cure.
End(c) ==
  /\ stage[c] \in {"sent", "again"}
  /\ stage' = [stage EXCEPT ![c] = "idle"]

Refresh(c) ==
  /\ stage[c] = "sent" /\ Refreshing = {}
  /\ stage' = [stage EXCEPT ![c] = "refreshing"]

Wait(c) ==
  /\ stage[c] = "sent" /\ Refreshing # {}
  /\ stage' = [stage EXCEPT ![c] = "waiting"]

\* The refresh is over, and with it all waiting, in one way or the other.
Release ==
  /\ Refreshing # {}
  /\ \E next \in {"again", "idle"} :
       stage' = [c \in Calls |-> IF c \in Held THEN next ELSE stage[c]]

\* The page is loaded anew and may ask who is logged in.
Reload(c) ==
  \E first \in {"idle", "sent"} :
    stage' = [d \in Calls |-> IF d = c THEN first ELSE "idle"]

Next ==
  \/ \E c \in Calls : Send(c) \/ End(c) \/ Refresh(c) \/ Wait(c) \/ Reload(c)
  \/ Release

Spec == Init /\ [][Next]_stage
============================================================================
