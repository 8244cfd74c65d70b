------------------------------ MODULE Payment ------------------------------
(***************************************************************************)
(* Payment orders: ersub_payment_srv, the webhooks and the user's and the  *)
(* administrator's changes of an order in ersub_payment_handler.           *)
(*                                                                         *)
(* A provider that has been paid sends its notices until one of them is    *)
(* answered with success.  Each arrives in a request process of its own,   *)
(* which may ask the payment server: one process with a mailbox, in which  *)
(* a call is a few queries and a call of the billing server, one after the *)
(* other.  A call gives up after 5 s; the server does not notice and goes  *)
(* on.  A query succeeds, or the caller sees an error or exits, and then   *)
(* the statement may have been executed or not.                            *)
(*                                                                         *)
(* Amounts, signatures and the checkout pages are left out: an order has   *)
(* one amount, a notice is genuine.  MaxFaults bounds the faults of a      *)
(* behaviour and MaxRetries the administrator's retries of an order.       *)
(***************************************************************************)
EXTENDS Integers, Sequences, FiniteSets

CONSTANTS
  Orders,
  Notices,      \* TRADE_SUCCESS, TRADE_FINISHED, ... each with its own id
  OrderOf,      \* the order a notice is about
  Handlers,     \* request processes that serve notices
  Providers,    \* subset of AllProviders
  MaxFaults,
  MaxRetries,
  Nobody

AllProviders == {"alipay", "easypay", "wechat", "other"}

ASSUME PaymentAssumption ==
  /\ Notices # {} /\ OrderOf \in [Notices -> Orders]
  /\ Providers \subseteq AllProviders
  /\ MaxFaults \in Nat /\ MaxRetries \in Nat
  /\ Nobody \notin Handlers
  /\ Notices \cap Orders = {}

VARIABLES
  status,    \* payment_orders.status, "none" before the insert
  provider,  \* payment_orders.provider
  audit,     \* idempotency keys in payment_audit_logs
  owed,      \* notices the provider still sends
  acked,     \* notices answered with success
  pc,        \* where the request of a notice is
  job,       \* the notice it serves
  answer,    \* the server's reply to its call
  mailbox,   \* calls the server has not taken
  serving,   \* the call the server is in
  srv,       \* "idle", "credit" or "sync"
  faults,    \* how many faults there have been
  credits,   \* history: credits of the users table for an order
  lost,      \* history: fulfilments whose credit was not made
  retries,   \* history: retries of the administrator
  upset      \* history: orders one of whose audited notices failed

handlerVars == <<pc, job, answer>>
serverVars == <<mailbox, serving, srv>>
history == <<credits, lost, retries, upset>>
vars == <<status, provider, audit, owed, acked, handlerVars, serverVars,
          faults, history>>

Calls == [from : Handlers \cup {Nobody}, op : {"get", "fulfil"},
          order : Orders]
NoCall(o) == [from |-> Nobody, op |-> "get", order |-> o]
States == {"none", "pending", "paid", "cancelled", "refunded"}
Answers == {"none", "ok", "not_pending", "error", "paid", "unpaid"}

\* alipay and easypay log a notice before they act on it.
AuditsFirst(o) == provider[o] \in {"alipay", "easypay"}

\* notify_id is the notice's own, trade_no is the order's.
KeyOf(n) == IF provider[OrderOf[n]] = "alipay" THEN n ELSE OrderOf[n]

Init ==
  /\ status = [o \in Orders |-> "none"]
  /\ provider = [o \in Orders |-> "other"]
  /\ audit = {} /\ owed = {} /\ acked = {}
  /\ pc = [h \in Handlers |-> "idle"]
  /\ job = [h \in Handlers |-> CHOOSE n \in Notices : TRUE]
  /\ answer = [h \in Handlers |-> "none"]
  /\ mailbox = <<>>
  /\ serving = NoCall(CHOOSE o \in Orders : TRUE)
  /\ srv = "idle"
  /\ faults = 0
  /\ credits = [o \in Orders |-> 0]
  /\ lost = [o \in Orders |-> 0]
  /\ retries = [o \in Orders |-> 0]
  /\ upset = {}

Fault == faults < MaxFaults /\ faults' = faults + 1

----------------------------------------------------------------------------
(* Orders.  Only the user's cancellation looks at the status. *)

SetStatus(o, s) ==
  /\ status[o] # "none"
  /\ status' = [status EXCEPT ![o] = s]
  /\ UNCHANGED <<provider, audit, owed, acked, handlerVars, serverVars,
                 faults, credits, lost, upset>>

\* The insert; whether the checkout that follows works changes no state.
CreateOrder(o) ==
  /\ status[o] = "none"
  /\ status' = [status EXCEPT ![o] = "pending"]
  /\ \E p \in Providers : provider' = [provider EXCEPT ![o] = p]
  /\ UNCHANGED <<audit, owed, acked, handlerVars, serverVars, faults, history>>

UserCancels(o) ==
  /\ status[o] = "pending"
  /\ SetStatus(o, "cancelled")
  /\ UNCHANGED retries

AdminCancels(o) == SetStatus(o, "cancelled") /\ UNCHANGED retries

AdminRefunds(o) == SetStatus(o, "refunded") /\ UNCHANGED retries

AdminRetries(o) ==
  /\ retries[o] < MaxRetries
  /\ SetStatus(o, "pending")
  /\ retries' = [retries EXCEPT ![o] = @ + 1]

\* The customer pays, perhaps on a page that is open since before the order
\* was cancelled, and the provider has notices to send.
CustomerPays(o) ==
  LET ns == {n \in Notices : OrderOf[n] = o}
  IN /\ status[o] # "none"
     /\ ns \cap (owed \cup acked) = {}
     /\ owed' = owed \cup ns
     /\ UNCHANGED <<status, provider, audit, acked, handlerVars, serverVars,
                    faults, history>>

OrderStep(o) ==
  \/ CreateOrder(o) \/ UserCancels(o) \/ AdminCancels(o)
  \/ AdminRefunds(o) \/ AdminRetries(o) \/ CustomerPays(o)

----------------------------------------------------------------------------
(* The request of a notice.  It fails with status 500: an error, or a call *)
(* or a query that exits.                                                  *)

Goes(h, p) == pc' = [pc EXCEPT ![h] = p]

Orphaned(call, h) ==
  IF call.from = h THEN [call EXCEPT !.from = Nobody] ELSE call

\* A call of the dead process is still served; nobody reads the reply.
Fails(h) ==
  /\ Goes(h, "idle")
  /\ answer' = [answer EXCEPT ![h] = "none"]
  /\ mailbox' = [i \in DOMAIN mailbox |-> Orphaned(mailbox[i], h)]
  /\ serving' = Orphaned(serving, h)
  /\ upset' = upset \cup
       (IF pc[h] \in {"call", "fulfil"} THEN {OrderOf[job[h]]} ELSE {})
  /\ UNCHANGED <<status, provider, audit, owed, acked, job, srv, credits,
                 lost, retries>>

Call(h, op) ==
  mailbox' = Append(mailbox, [from |-> h, op |-> op,
                              order |-> OrderOf[job[h]]])

Deliver(n, h) ==
  /\ n \in owed /\ pc[h] = "idle"
  /\ Goes(h, "start")
  /\ job' = [job EXCEPT ![h] = n]
  /\ UNCHANGED <<status, provider, audit, owed, acked, answer, serverVars,
                 faults, history>>

\* ON CONFLICT DO NOTHING: a key that is there answers for the order.
LogNotice(h) ==
  LET k == KeyOf(job[h])
  IN /\ AuditsFirst(OrderOf[job[h]])
     /\ audit' = audit \cup {k}
     /\ Goes(h, IF k \in audit THEN "done" ELSE "call")
     /\ UNCHANGED <<mailbox, faults>>

\* An error of the insert is taken for a new row.
LogFails(h) ==
  /\ AuditsFirst(OrderOf[job[h]])
  /\ Fault
  /\ audit' \in {audit, audit \cup {KeyOf(job[h])}}
  /\ Goes(h, "call")
  /\ UNCHANGED mailbox

AskStatus(h) ==
  /\ provider[OrderOf[job[h]]] = "wechat"
  /\ Call(h, "get")
  /\ Goes(h, "ask")
  /\ UNCHANGED <<audit, faults>>

NoCheckLogsFirst(h) ==
  LET k == KeyOf(job[h])
  IN /\ provider[OrderOf[job[h]]] = "other"
     /\ audit' = audit \cup {k}
     /\ Goes(h, IF k \in audit THEN "done" ELSE "call")
     /\ UNCHANGED <<mailbox, faults>>

NoCheck(h) ==
  /\ provider[OrderOf[job[h]]] = "other"
  /\ Goes(h, "call")
  /\ UNCHANGED <<audit, mailbox, faults>>

Start(h) ==
  /\ pc[h] = "start"
  /\ LogNotice(h) \/ LogFails(h) \/ AskStatus(h) \/ NoCheck(h)
  /\ UNCHANGED <<status, provider, owed, acked, job, answer, serving, srv,
                 history>>

CallFulfil(h) ==
  /\ pc[h] = "call"
  /\ Call(h, "fulfil")
  /\ Goes(h, "fulfil")
  /\ UNCHANGED <<status, provider, audit, owed, acked, job, answer, serving,
                 srv, faults, history>>

IsSuccessOnError(o, a) == a # "unpaid"

IsSuccessFirstOnly(o, a) == a \in {"ok", "paid"}

\* What success means to each provider's handler.
IsSuccess(o, a) ==
  \/ a \in {"ok", "paid"}
  \/ a = "not_pending" /\ provider[o] \in {"wechat", "easypay"}

\* {ok, _} of get_order with another status: go on to fulfil.
Answered(h) ==
  /\ pc[h] \in {"ask", "fulfil"} /\ answer[h] # "none"
  /\ \/ /\ answer[h] = "unpaid" \/ IsSuccess(OrderOf[job[h]], answer[h])
        /\ Goes(h, IF answer[h] = "unpaid" THEN "call" ELSE "done")
        /\ answer' = [answer EXCEPT ![h] = "none"]
        /\ UNCHANGED <<status, provider, audit, owed, acked, job, serverVars,
                       faults, history>>
     \/ /\ answer[h] # "unpaid" /\ ~IsSuccess(OrderOf[job[h]], answer[h])
        /\ Fails(h)
        /\ UNCHANGED faults

Acknowledge(h) ==
  /\ pc[h] = "done"
  /\ Goes(h, "idle")
  /\ owed' = owed \ {job[h]} /\ acked' = acked \cup {job[h]}
  /\ UNCHANGED <<status, provider, audit, job, answer, serverVars, faults,
                 history>>

\* The 5 s of a call are over, a query exits, the connection breaks or the
\* answer does not arrive.
Dies(h) ==
  /\ pc[h] # "idle"
  /\ Fault
  /\ Fails(h)

HandlerStep(h) ==
  Start(h) \/ CallFulfil(h) \/ Answered(h) \/ Acknowledge(h)

----------------------------------------------------------------------------
(* The payment server. *)

Reply(h, a) ==
  answer' = IF h = Nobody THEN answer ELSE [answer EXCEPT ![h] = a]

\* get_order.
TakeGet ==
  LET c == Head(mailbox)
  IN /\ c.op = "get"
     /\ Reply(c.from, IF status[c.order] = "paid" THEN "paid" ELSE "unpaid")
     /\ UNCHANGED <<status, serving, srv, faults, lost>>

FulfilAnyStatus ==
  LET c == Head(mailbox)
  IN /\ c.op = "fulfil"
     /\ status' = [status EXCEPT ![c.order] = "paid"]
     /\ serving' = c /\ srv' = "credit"
     /\ UNCHANGED <<answer, faults, lost>>

FulfilSkipsCredit ==
  LET c == Head(mailbox)
  IN /\ c.op = "fulfil" /\ status[c.order] = "pending"
     /\ status' = [status EXCEPT ![c.order] = "paid"]
     /\ serving' = c /\ srv' = "sync"
     /\ UNCHANGED <<answer, faults, lost>>

\* UPDATE ... SET status = 'paid' WHERE id = $1 AND status = 'pending'.
Fulfil ==
  LET c == Head(mailbox)
  IN /\ c.op = "fulfil" /\ status[c.order] = "pending"
     /\ status' = [status EXCEPT ![c.order] = "paid"]
     /\ serving' = c /\ srv' = "credit"
     /\ UNCHANGED <<answer, faults, lost>>

NotPending ==
  LET c == Head(mailbox)
  IN /\ c.op = "fulfil" /\ status[c.order] # "pending"
     /\ Reply(c.from, "not_pending")
     /\ UNCHANGED <<status, serving, srv, faults, lost>>

\* The query answers {error, _}; an UPDATE may have been executed before.
QueryFails ==
  LET c == Head(mailbox)
  IN /\ Fault
     /\ Reply(c.from, "error")
     /\ \/ UNCHANGED <<status, lost>>
        \/ /\ c.op = "fulfil" /\ status[c.order] = "pending"
           /\ status' = [status EXCEPT ![c.order] = "paid"]
           /\ lost' = [lost EXCEPT ![c.order] = @ + 1]
     /\ UNCHANGED <<serving, srv>>

TakeCall ==
  /\ srv = "idle" /\ mailbox # <<>>
  /\ TakeGet \/ Fulfil \/ NotPending \/ QueryFails
  /\ mailbox' = Tail(mailbox)
  /\ UNCHANGED <<provider, audit, owed, acked, pc, job, credits, retries,
                 upset>>

\* update_user_balance; its result is not looked at.
Credit ==
  /\ srv = "credit"
  /\ \/ /\ credits' = [credits EXCEPT ![serving.order] = @ + 1]
        /\ UNCHANGED <<faults, lost>>
     \/ /\ Fault
        /\ lost' = [lost EXCEPT ![serving.order] = @ + 1]
        /\ UNCHANGED credits
  /\ srv' = "sync"
  /\ UNCHANGED <<status, provider, audit, owed, acked, handlerVars, mailbox,
                 serving, retries, upset>>

\* sync_balance has returned.
Synced ==
  /\ srv = "sync"
  /\ Reply(serving.from, "ok")
  /\ srv' = "idle"
  /\ UNCHANGED <<status, provider, audit, owed, acked, pc, job, mailbox,
                 serving, faults, history>>

\* A query or sync_balance exits: the server dies and with it the requests
\* that wait for it.  The statement under way was executed or not.
Waiting(h) == pc[h] \in {"ask", "fulfil"} /\ answer[h] = "none"

Interrupted ==
  \/ srv = "idle" /\ mailbox # <<>> /\ UNCHANGED <<status, credits, lost>>
  \/ /\ srv = "idle" /\ mailbox # <<>>
     /\ LET c == Head(mailbox)
        IN /\ c.op = "fulfil" /\ status[c.order] = "pending"
           /\ status' = [status EXCEPT ![c.order] = "paid"]
           /\ lost' = [lost EXCEPT ![c.order] = @ + 1]
     /\ UNCHANGED credits
  \/ /\ srv = "credit"
     /\ \/ /\ credits' = [credits EXCEPT ![serving.order] = @ + 1]
           /\ UNCHANGED lost
        \/ /\ lost' = [lost EXCEPT ![serving.order] = @ + 1]
           /\ UNCHANGED credits
     /\ UNCHANGED status
  \/ srv = "sync" /\ UNCHANGED <<status, credits, lost>>

Crash ==
  /\ Fault
  /\ Interrupted
  /\ mailbox' = <<>> /\ srv' = "idle"
  /\ serving' = [serving EXCEPT !.from = Nobody]
  /\ pc' = [h \in Handlers |-> IF Waiting(h) THEN "idle" ELSE pc[h]]
  /\ upset' = upset \cup {OrderOf[job[h]] :
                            h \in {g \in Handlers : Waiting(g)
                                                    /\ pc[g] = "fulfil"}}
  /\ UNCHANGED <<provider, audit, owed, acked, job, answer, retries>>

ServerStep == TakeCall \/ Credit \/ Synced

Next ==
  \/ \E o \in Orders : OrderStep(o)
  \/ \E n \in Notices, h \in Handlers : Deliver(n, h)
  \/ \E h \in Handlers : HandlerStep(h) \/ Dies(h)
  \/ ServerStep
  \/ Crash

Spec == Init /\ [][Next]_vars

\* A provider repeats a notice and is served now and then: the number of
\* request processes is a bound of the model, not of cowboy.
Fairness ==
  /\ \A n \in Notices : SF_vars(\E h \in Handlers : Deliver(n, h))
  /\ \A h \in Handlers : WF_vars(HandlerStep(h))
  /\ WF_vars(ServerStep)

FairSpec == Spec /\ Fairness

----------------------------------------------------------------------------
TypeOK ==
  /\ status \in [Orders -> States]
  /\ provider \in [Orders -> AllProviders]
  /\ audit \subseteq Notices \cup Orders
  /\ owed \subseteq Notices /\ acked \subseteq Notices
  /\ pc \in [Handlers -> {"idle", "start", "ask", "call", "fulfil", "done"}]
  /\ job \in [Handlers -> Notices]
  /\ answer \in [Handlers -> Answers]
  /\ mailbox \in Seq(Calls)
  /\ serving \in Calls
  /\ srv \in {"idle", "credit", "sync"}
  /\ faults \in 0..MaxFaults
  /\ credits \in [Orders -> Nat] /\ lost \in [Orders -> Nat]
  /\ retries \in [Orders -> 0..MaxRetries]
  /\ upset \subseteq Orders
  \* a reply is for a process that waits for one of its kind
  /\ \A h \in Handlers : answer[h] # "none" => pc[h] \in {"ask", "fulfil"}

UnderWay(o) == IF srv = "credit" /\ serving.order = o THEN 1 ELSE 0

Fulfilments(o) == credits[o] + lost[o] + UnderWay(o)

\* However often a notice is sent, however many requests serve it at once and
\* wherever they or the server stop, an order is fulfilled once, and once more
\* for every retry of the administrator.
FulfilledOnce == \A o \in Orders : Fulfilments(o) <= 1 + retries[o]

\* An order is not paid before its credit is on the way: it was made, it is
\* the server's next step, or a fault has kept it from being made.
PaidIsCredited ==
  \A o \in Orders : status[o] = "paid" => Fulfilments(o) >= 1

\* A provider stops sending when it is told of success.  For wechat and the
\* signed JSON webhooks this means that the order has left pending; alipay and
\* easypay log the notice first, so there it may also mean that another
\* request is at it, or that one has failed, after which nobody will.
AtWork(o, h) == OrderOf[job[h]] = o /\ pc[h] \in {"call", "fulfil"}

Settled(o) ==
  \/ status[o] # "pending"
  \/ retries[o] > 0
  \/ AuditsFirst(o) /\ (o \in upset \/ \E h \in Handlers : AtWork(o, h))

SuccessIsTrue == \A n \in acked : Settled(OrderOf[n])

\* The fulfilment the server is about to credit.
Owing == IF srv = "credit" THEN {serving.order} ELSE {}

Ledger == INSTANCE OrderLedger WITH owing <- Owing

\* Repeated notices, requests that die, a mailbox and a server that crashes
\* between its queries implement the plain ledger, in which an order changes
\* by one fulfilment, closing or retry at a time.
ImplementsOrderLedger == Ledger!Spec

\* A customer's payment arrives: where the order is looked at before success
\* is answered, a notice that is still sent ends pending (or a retry made it
\* pending again behind the answer).
PaymentArrives ==
  \A n \in Notices :
    LET o == OrderOf[n]
    IN (n \in owed /\ status[o] = "pending" /\ ~AuditsFirst(o))
         ~> (status[o] # "pending" \/ retries[o] > 0)

\* A notice is not sent for ever, except by the JSON webhooks: after a lost
\* answer they are told order_not_pending every time.
ProviderStops ==
  \A n \in Notices :
    (n \in owed /\ provider[OrderOf[n]] # "other") ~> (n \notin owed)

============================================================================
