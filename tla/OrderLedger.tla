---------------------------- MODULE OrderLedger ----------------------------
(***************************************************************************)
(* What the payment code promises of orders and credits, without notices,  *)
(* requests, mailbox or server: an order that is pending is fulfilled, and *)
(* becomes paid in that step; each fulfilment is owed to the customer, and *)
(* what is owed is credited once or lost.  Only the administrator makes an *)
(* order pending again.                                                    *)
(***************************************************************************)
EXTENDS Integers

CONSTANT Orders

VARIABLES status, owing, credits, lost, retries

Init ==
  /\ status = [o \in Orders |-> "none"]
  /\ owing = {}
  /\ credits = [o \in Orders |-> 0]
  /\ lost = [o \in Orders |-> 0]
  /\ retries = [o \in Orders |-> 0]

Open(o) ==
  /\ status[o] = "none"
  /\ status' = [status EXCEPT ![o] = "pending"]
  /\ UNCHANGED <<owing, credits, lost, retries>>

Close(o) ==
  /\ status[o] # "none"
  /\ \E s \in {"cancelled", "refunded"} : status' = [status EXCEPT ![o] = s]
  /\ UNCHANGED <<owing, credits, lost, retries>>

Retry(o) ==
  /\ status[o] # "none"
  /\ status' = [status EXCEPT ![o] = "pending"]
  /\ retries' = [retries EXCEPT ![o] = @ + 1]
  /\ UNCHANGED <<owing, credits, lost>>

\* One order at a time; a fulfilment may be lost at once.
Fulfil(o) ==
  /\ status[o] = "pending" /\ owing = {}
  /\ status' = [status EXCEPT ![o] = "paid"]
  /\ \/ owing' = {o} /\ UNCHANGED lost
     \/ lost' = [lost EXCEPT ![o] = @ + 1] /\ UNCHANGED owing
  /\ UNCHANGED <<credits, retries>>

Settle(o) ==
  /\ o \in owing
  /\ owing' = owing \ {o}
  /\ \/ credits' = [credits EXCEPT ![o] = @ + 1] /\ UNCHANGED lost
     \/ lost' = [lost EXCEPT ![o] = @ + 1] /\ UNCHANGED credits
  /\ UNCHANGED <<status, retries>>

Next == \E o \in Orders :
          Open(o) \/ Close(o) \/ Retry(o) \/ Fulfil(o) \/ Settle(o)

Spec == Init /\ [][Next]_<<status, owing, credits, lost, retries>>
============================================================================
