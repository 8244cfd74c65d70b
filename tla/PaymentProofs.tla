--------------------------- MODULE PaymentProofs ---------------------------
(***************************************************************************)
(* Proofs about Payment for any number of orders, notices, request         *)
(* processes, faults and retries.                                          *)
(***************************************************************************)
EXTENDS Payment, TLAPS

USE PaymentAssumption

----------------------------------------------------------------------------
(* The mailbox: who waits for what. *)

\* h waits for the reply to call c.
Asks(h, c) ==
  /\ pc[h] \in {"ask", "fulfil"} /\ answer[h] = "none"
  /\ c.order = OrderOf[job[h]]

\* A call that is not orphaned is the only one of a request that waits for it.
Mail ==
  /\ \A i \in 1..Len(mailbox) :
       mailbox[i].from # Nobody => Asks(mailbox[i].from, mailbox[i])
  /\ \A i, j \in 1..Len(mailbox) :
       i # j /\ mailbox[i].from # Nobody => mailbox[i].from # mailbox[j].from
  /\ srv # "idle" /\ serving.from # Nobody
       => /\ Asks(serving.from, serving)
          /\ \A i \in 1..Len(mailbox) : mailbox[i].from # serving.from

Shape == TypeOK /\ Mail

\* Appending a call keeps the calls before it.
LEMMA AppendCall ==
  ASSUME TypeOK, NEW c \in Calls, mailbox' = Append(mailbox, c)
  PROVE  /\ mailbox' \in Seq(Calls) /\ Len(mailbox') = Len(mailbox) + 1
         /\ mailbox'[Len(mailbox) + 1] = c
         /\ \A i \in 1..Len(mailbox) : mailbox'[i] = mailbox[i]
BY DEF TypeOK

\* Taking the first call moves the others one place up.
LEMMA TakeFirst ==
  ASSUME TypeOK, mailbox # <<>>, mailbox' = Tail(mailbox)
  PROVE  /\ mailbox' \in Seq(Calls) /\ Len(mailbox) \in Nat \ {0}
         /\ Len(mailbox') = Len(mailbox) - 1
         /\ Head(mailbox) = mailbox[1] /\ Head(mailbox) \in Calls
         /\ \A i \in 1..Len(mailbox') :
              mailbox'[i] = mailbox[i + 1] /\ i + 1 \in 1..Len(mailbox)
                /\ i + 1 # 1
BY DEF TypeOK

\* The calls of a dead request stay, without their sender.
LEMMA OrphanCalls ==
  ASSUME TypeOK, NEW h \in Handlers,
         mailbox' = [i \in DOMAIN mailbox |-> Orphaned(mailbox[i], h)],
         serving' = Orphaned(serving, h)
  PROVE  /\ mailbox' \in Seq(Calls) /\ Len(mailbox') = Len(mailbox)
         /\ serving' \in Calls /\ serving'.order = serving.order
         /\ serving'.from = IF serving.from = h THEN Nobody ELSE serving.from
         /\ \A i \in 1..Len(mailbox) :
              /\ mailbox'[i].order = mailbox[i].order
              /\ mailbox'[i].op = mailbox[i].op
              /\ mailbox'[i].from = IF mailbox[i].from = h THEN Nobody
                                    ELSE mailbox[i].from
<1>1. ASSUME NEW c \in Calls
      PROVE  /\ Orphaned(c, h) \in Calls /\ Orphaned(c, h).order = c.order
             /\ Orphaned(c, h).op = c.op
             /\ Orphaned(c, h).from = IF c.from = h THEN Nobody ELSE c.from
  BY DEF Orphaned, Calls
<1>2. /\ mailbox \in Seq(Calls) /\ serving \in Calls
      /\ DOMAIN mailbox = 1..Len(mailbox) /\ Len(mailbox) \in Nat
      /\ \A i \in 1..Len(mailbox) : mailbox[i] \in Calls
  BY DEF TypeOK
<1>3. mailbox' \in [1..Len(mailbox) -> Calls]
  BY <1>1, <1>2
<1>4. mailbox' \in Seq(Calls) /\ Len(mailbox') = Len(mailbox)
  BY <1>2, <1>3
<1> QED BY <1>1, <1>2, <1>4

----------------------------------------------------------------------------
(* The shape of the state under every step. *)

\* The user, the administrator, the customer and the provider do not touch the
\* mailbox, and a notice is given to an idle request, which waits for nothing.
LEMMA OrderShape ==
  ASSUME Shape, NEW o \in Orders, OrderStep(o)
  PROVE  Shape'
<1>1. TypeOK'
  <2>1. CASE CreateOrder(o)
    BY <2>1 DEF Shape, TypeOK, CreateOrder, handlerVars, serverVars, history,
                States
  <2>2. ASSUME NEW s \in {"pending", "cancelled", "refunded"}, SetStatus(o, s),
               retries' \in [Orders -> 0..MaxRetries]
        PROVE  TypeOK'
    BY <2>2 DEF Shape, TypeOK, SetStatus, handlerVars, serverVars, States
  <2>3. CASE CustomerPays(o)
    BY <2>3 DEF Shape, TypeOK, CustomerPays, handlerVars, serverVars, history
  <2>4. AdminRetries(o) => retries' \in [Orders -> 0..MaxRetries]
    BY DEF Shape, TypeOK, AdminRetries
  <2>5. retries' = retries => retries' \in [Orders -> 0..MaxRetries]
    BY DEF Shape, TypeOK
  <2> QED BY <2>1, <2>2, <2>3, <2>4, <2>5
          DEF OrderStep, UserCancels, AdminCancels, AdminRefunds, AdminRetries
<1>2. UNCHANGED <<handlerVars, serverVars>>
  BY DEF OrderStep, CreateOrder, CustomerPays, UserCancels, AdminCancels,
         AdminRefunds, AdminRetries, SetStatus
<1> QED BY <1>1, <1>2 DEF Shape, Mail, Asks, handlerVars, serverVars

\* A request that fails leaves its call behind as an orphan.
LEMMA FailShape ==
  ASSUME Shape, NEW h \in Handlers, Fails(h), faults' \in 0..MaxFaults
  PROVE  Shape'
<1>1. /\ mailbox' \in Seq(Calls) /\ Len(mailbox') = Len(mailbox)
      /\ serving' \in Calls /\ serving'.order = serving.order
      /\ serving'.from = IF serving.from = h THEN Nobody ELSE serving.from
      /\ \A i \in 1..Len(mailbox) :
           /\ mailbox'[i].order = mailbox[i].order
           /\ mailbox'[i].from = IF mailbox[i].from = h THEN Nobody
                                 ELSE mailbox[i].from
  BY OrphanCalls DEF Fails, Shape
<1>2. TypeOK'
  <2>1. upset' \subseteq Orders
    BY DEF Fails, Shape, TypeOK
  <2>2. /\ pc' \in [Handlers -> {"idle", "start", "ask", "call", "fulfil",
                                 "done"}]
        /\ answer' \in [Handlers -> Answers]
        /\ \A g \in Handlers : answer'[g] # "none" => pc'[g] \in {"ask", "fulfil"}
    BY DEF Fails, Goes, Shape, TypeOK, Answers
  <2> QED BY <1>1, <2>1, <2>2 DEF Fails, Shape, TypeOK
<1>3. ASSUME NEW c \in Calls, c.from # Nobody, c.from # h, Asks(c.from, c)
      PROVE  /\ pc'[c.from] \in {"ask", "fulfil"} /\ answer'[c.from] = "none"
             /\ c.order = OrderOf[job'[c.from]]
  <2>1. c.from \in Handlers
    BY <1>3 DEF Calls
  <2> QED BY <1>3, <2>1 DEF Fails, Goes, Shape, TypeOK, Asks
<1>4. ASSUME NEW i \in 1..Len(mailbox'), mailbox'[i].from # Nobody
      PROVE  /\ mailbox[i].from = mailbox'[i].from
             /\ pc'[mailbox'[i].from] \in {"ask", "fulfil"}
             /\ answer'[mailbox'[i].from] = "none"
             /\ mailbox'[i].order = OrderOf[job'[mailbox'[i].from]]
  <2>1. i \in 1..Len(mailbox) /\ mailbox[i].from = mailbox'[i].from
          /\ mailbox[i].from # h
    BY <1>1, <1>4
  <2>2. mailbox[i] \in Calls
    BY <2>1 DEF Shape, TypeOK
  <2>3. Asks(mailbox[i].from, mailbox[i])
    BY <2>1, <1>4 DEF Shape, Mail
  <2> QED BY <1>1, <1>3, <1>4, <2>1, <2>2, <2>3
<1>5. ASSUME srv' # "idle", serving'.from # Nobody
      PROVE  /\ srv # "idle" /\ serving.from = serving'.from
             /\ pc'[serving'.from] \in {"ask", "fulfil"}
             /\ answer'[serving'.from] = "none"
             /\ serving'.order = OrderOf[job'[serving'.from]]
  <2>1. serving.from = serving'.from /\ serving.from # h /\ srv # "idle"
    BY <1>1, <1>5 DEF Fails
  <2>2. serving \in Calls
    BY DEF Shape, TypeOK
  <2>3. Asks(serving.from, serving)
    BY <2>1, <1>5 DEF Shape, Mail
  <2> QED BY <1>1, <1>3, <1>5, <2>1, <2>2, <2>3
<1>6. ASSUME NEW i \in 1..Len(mailbox'), NEW j \in 1..Len(mailbox'), i # j,
             mailbox'[i].from # Nobody
      PROVE  mailbox'[i].from # mailbox'[j].from
  BY <1>1, <1>4, <1>6 DEF Shape, Mail
<1>7. ASSUME srv' # "idle", serving'.from # Nobody, NEW i \in 1..Len(mailbox')
      PROVE  mailbox'[i].from # serving'.from
  BY <1>1, <1>5, <1>7 DEF Shape, Mail
<1> QED BY <1>2, <1>4, <1>5, <1>6, <1>7 DEF Shape, Mail, Asks

\* Calls that are there keep their senders waiting while another request moves.
LEMMA OthersKeepAsking ==
  ASSUME Shape, NEW h \in Handlers, pc[h] \notin {"ask", "fulfil"} \/ answer[h] # "none",
         \A g \in Handlers \ {h} :
           pc'[g] = pc[g] /\ answer'[g] = answer[g] /\ job'[g] = job[g],
         UNCHANGED serverVars
  PROVE  Mail' /\ \A i \in 1..Len(mailbox) : mailbox[i].from # h
<1>1. ASSUME NEW c \in Calls, c.from # Nobody, Asks(c.from, c)
      PROVE  /\ pc'[c.from] \in {"ask", "fulfil"} /\ answer'[c.from] = "none"
             /\ c.order = OrderOf[job'[c.from]] /\ c.from # h
  <2>1. c.from \in Handlers
    BY <1>1 DEF Calls
  <2>2. c.from # h
    BY <1>1 DEF Asks
  <2> QED BY <1>1, <2>1, <2>2 DEF Asks
<1>2. UNCHANGED <<mailbox, serving, srv>>
  BY DEF serverVars
<1>3. ASSUME NEW i \in 1..Len(mailbox), mailbox[i].from # Nobody
      PROVE  /\ pc'[mailbox[i].from] \in {"ask", "fulfil"}
             /\ answer'[mailbox[i].from] = "none"
             /\ mailbox[i].order = OrderOf[job'[mailbox[i].from]]
             /\ mailbox[i].from # h
  <2>1. mailbox[i] \in Calls
    BY DEF Shape, TypeOK
  <2> QED BY <1>1, <1>3, <2>1 DEF Shape, Mail
<1>4. ASSUME srv # "idle", serving.from # Nobody
      PROVE  /\ pc'[serving.from] \in {"ask", "fulfil"}
             /\ answer'[serving.from] = "none"
             /\ serving.order = OrderOf[job'[serving.from]]
  <2>1. serving \in Calls
    BY DEF Shape, TypeOK
  <2> QED BY <1>1, <1>4, <2>1 DEF Shape, Mail
<1>5. Mail'
  BY <1>2, <1>3, <1>4 DEF Mail, Asks, Shape
<1> QED BY <1>3, <1>5

\* A request that calls the server waits for that call and no other.
LEMMA CallShape ==
  ASSUME Shape, NEW h \in Handlers, NEW op \in {"get", "fulfil"}, NEW p \in {"ask", "fulfil"},
         pc[h] \in {"start", "call"}, Call(h, op), Goes(h, p),
         UNCHANGED <<answer, job, serving, srv>>
  PROVE  mailbox' \in Seq(Calls) /\ Mail'
<1> DEFINE c == [from |-> h, op |-> op, order |-> OrderOf[job[h]]]
<1>1. c \in Calls /\ h # Nobody
  BY DEF Shape, TypeOK, Calls
<1>2. mailbox' = Append(mailbox, c)
  BY DEF Call
<1>3. /\ mailbox' \in Seq(Calls) /\ Len(mailbox') = Len(mailbox) + 1
      /\ mailbox'[Len(mailbox) + 1] = c
      /\ \A i \in 1..Len(mailbox) : mailbox'[i] = mailbox[i]
  <2> HIDE DEF c
  <2> QED BY <1>1, <1>2, AppendCall DEF Shape
<1>4. answer[h] = "none"
  BY DEF Shape, TypeOK
<1>5. ASSUME NEW d \in Calls, d.from # Nobody, Asks(d.from, d)
      PROVE  /\ pc'[d.from] \in {"ask", "fulfil"} /\ answer'[d.from] = "none"
             /\ d.order = OrderOf[job'[d.from]] /\ d.from # h
  <2>1. d.from \in Handlers
    BY <1>5 DEF Calls
  <2>2. d.from # h
    BY <1>5 DEF Asks
  <2> QED BY <1>5, <2>1, <2>2 DEF Asks, Goes, Shape, TypeOK
<1>6. ASSUME NEW i \in 1..Len(mailbox), mailbox[i].from # Nobody
      PROVE  /\ pc'[mailbox[i].from] \in {"ask", "fulfil"}
             /\ answer'[mailbox[i].from] = "none"
             /\ mailbox[i].order = OrderOf[job'[mailbox[i].from]]
             /\ mailbox[i].from # h
  <2>1. mailbox[i] \in Calls
    BY DEF Shape, TypeOK
  <2> QED BY <1>5, <1>6, <2>1 DEF Shape, Mail
<1>7. ASSUME srv # "idle", serving.from # Nobody
      PROVE  /\ pc'[serving.from] \in {"ask", "fulfil"}
             /\ answer'[serving.from] = "none"
             /\ serving.order = OrderOf[job'[serving.from]]
             /\ serving.from # h
  <2>1. serving \in Calls
    BY DEF Shape, TypeOK
  <2> QED BY <1>5, <1>7, <2>1 DEF Shape, Mail
<1>8. /\ pc'[h] \in {"ask", "fulfil"} /\ answer'[h] = "none"
      /\ c.order = OrderOf[job'[h]] /\ c.from = h
  BY <1>4 DEF Goes, Shape, TypeOK
<1>9. Len(mailbox) \in Nat
  BY DEF Shape, TypeOK
<1>10. \A i \in 1..Len(mailbox') :
         mailbox'[i] = IF i \in 1..Len(mailbox) THEN mailbox[i] ELSE c
  BY <1>3, <1>9
<1>11. Mail'
  <2> HIDE DEF c
  <2>1. \A i \in 1..Len(mailbox') :
          mailbox'[i].from # Nobody
            => /\ pc'[mailbox'[i].from] \in {"ask", "fulfil"}
               /\ answer'[mailbox'[i].from] = "none"
               /\ mailbox'[i].order = OrderOf[job'[mailbox'[i].from]]
    BY <1>6, <1>8, <1>10
  <2>2. \A i, j \in 1..Len(mailbox') :
          i # j /\ mailbox'[i].from # Nobody => mailbox'[i].from # mailbox'[j].from
    BY <1>1, <1>3, <1>6, <1>8, <1>9, <1>10 DEF Shape, Mail
  <2>3. srv' # "idle" /\ serving'.from # Nobody
          => /\ pc'[serving'.from] \in {"ask", "fulfil"}
             /\ answer'[serving'.from] = "none"
             /\ serving'.order = OrderOf[job'[serving'.from]]
             /\ \A i \in 1..Len(mailbox') : mailbox'[i].from # serving'.from
    BY <1>7, <1>8, <1>10 DEF Shape, Mail
  <2> QED BY <2>1, <2>2, <2>3 DEF Mail, Asks
<1> QED BY <1>3, <1>11

\* Every step of a request, and its death.
LEMMA HandlerShape ==
  ASSUME Shape, NEW h \in Handlers,
         HandlerStep(h) \/ Dies(h) \/ \E n \in Notices : Deliver(n, h)
  PROVE  Shape'
<1>1. ASSUME NEW n \in Notices, Deliver(n, h) PROVE Shape'
  <2>1. Mail'
    BY <1>1, OthersKeepAsking DEF Deliver, Goes, Shape, TypeOK
  <2> QED BY <1>1, <2>1 DEF Shape, TypeOK, Deliver, Goes, serverVars, history
<1>2. CASE Start(h)
  <2>1. OrderOf[job[h]] \in Orders /\ job[h] \in Notices /\ KeyOf(job[h]) \in Notices \cup Orders
    BY DEF Shape, TypeOK, KeyOf
  <2>2. CASE LogNotice(h) \/ LogFails(h)
    <3>1. /\ audit' \subseteq Notices \cup Orders
          /\ pc' = [pc EXCEPT ![h] = "done"] \/ pc' = [pc EXCEPT ![h] = "call"]
          /\ faults' \in 0..MaxFaults /\ mailbox' = mailbox
      BY <2>1, <2>2 DEF LogNotice, LogFails, Goes, Fault, Shape, TypeOK
    <3>2. Mail'
      BY <1>2, <3>1, OthersKeepAsking DEF Start, Shape, TypeOK, serverVars
    <3> QED BY <1>2, <3>1, <3>2 DEF Start, Shape, TypeOK, history
  <2>3. CASE AskStatus(h)
    <3>1. mailbox' \in Seq(Calls) /\ Mail'
      BY <1>2, <2>3, CallShape DEF Start, AskStatus, history
    <3> QED BY <1>2, <2>3, <3>1 DEF Start, AskStatus, Goes, Shape, TypeOK, history
  <2>4. CASE NoCheck(h)
    <3>1. Mail'
      BY <1>2, <2>4, OthersKeepAsking DEF Start, NoCheck, Goes, Shape, TypeOK,
                                          serverVars
    <3> QED BY <1>2, <2>4, <3>1 DEF Start, NoCheck, Goes, Shape, TypeOK, history
  <2> QED BY <1>2, <2>2, <2>3, <2>4 DEF Start
<1>3. CASE CallFulfil(h)
  <2>1. mailbox' \in Seq(Calls) /\ Mail'
    BY <1>3, CallShape DEF CallFulfil
  <2> QED BY <1>3, <2>1 DEF CallFulfil, Goes, Shape, TypeOK, history
<1>4. CASE Answered(h)
  <2>1. CASE Fails(h) /\ UNCHANGED faults
    BY <2>1, FailShape DEF Shape, TypeOK
  <2>2. CASE ~(Fails(h) /\ UNCHANGED faults)
    <3>1. /\ Goes(h, IF answer[h] = "unpaid" THEN "call" ELSE "done")
          /\ answer' = [answer EXCEPT ![h] = "none"]
          /\ UNCHANGED <<status, provider, audit, owed, acked, job, serverVars,
                         faults, history>>
          /\ answer[h] # "none"
      BY <1>4, <2>2 DEF Answered
    <3>2. Mail'
      BY <3>1, OthersKeepAsking DEF Goes, Shape, TypeOK
    <3> QED BY <3>1, <3>2 DEF Goes, Shape, TypeOK, serverVars, history, Answers
  <2> QED BY <2>1, <2>2
<1>5. CASE Acknowledge(h)
  <2>1. Mail'
    BY <1>5, OthersKeepAsking DEF Acknowledge, Goes, Shape, TypeOK
  <2> QED BY <1>5, <2>1 DEF Acknowledge, Goes, Shape, TypeOK, serverVars, history
<1>6. CASE Dies(h)
  <2>1. faults' \in 0..MaxFaults
    BY <1>6 DEF Dies, Fault, Shape, TypeOK
  <2> QED BY <1>6, <2>1, FailShape DEF Dies
<1> QED BY <1>1, <1>2, <1>3, <1>4, <1>5, <1>6 DEF HandlerStep

\* A reply to the first call leaves the other calls with those who wait.
LEMMA ReplyShape ==
  ASSUME Shape, srv = "idle", mailbox # <<>>, NEW a \in Answers,
         Reply(Head(mailbox).from, a), mailbox' = Tail(mailbox),
         UNCHANGED <<pc, job, serving, srv>>
  PROVE  /\ answer' \in [Handlers -> Answers] /\ mailbox' \in Seq(Calls)
         /\ \A h \in Handlers : answer'[h] # "none" => pc'[h] \in {"ask", "fulfil"}
         /\ Mail'
<1> DEFINE c == Head(mailbox)
<1>1. /\ mailbox' \in Seq(Calls) /\ Len(mailbox) \in Nat \ {0}
      /\ Len(mailbox') = Len(mailbox) - 1
      /\ c = mailbox[1] /\ c \in Calls
      /\ \A i \in 1..Len(mailbox') :
           mailbox'[i] = mailbox[i + 1] /\ i + 1 \in 1..Len(mailbox)
             /\ i + 1 # 1
  BY TakeFirst DEF Shape
<1>2. 1 \in 1..Len(mailbox)
  BY <1>1
<1>3. c.from # Nobody => c.from \in Handlers /\ Asks(c.from, c)
  <2>1. c.from # Nobody => c.from \in Handlers
    BY <1>1 DEF Calls
  <2> QED BY <1>1, <1>2, <2>1 DEF Shape, Mail
<1>4. answer' = IF c.from = Nobody THEN answer ELSE [answer EXCEPT ![c.from] = a]
  BY DEF Reply
<1> HIDE DEF c
<1>5. /\ answer' \in [Handlers -> Answers]
      /\ \A h \in Handlers : answer'[h] # "none" => pc'[h] \in {"ask", "fulfil"}
  BY <1>3, <1>4 DEF Shape, TypeOK, Asks
<1>6. ASSUME NEW i \in 1..Len(mailbox'), mailbox'[i].from # Nobody
      PROVE  /\ pc'[mailbox'[i].from] \in {"ask", "fulfil"}
             /\ answer'[mailbox'[i].from] = "none"
             /\ mailbox'[i].order = OrderOf[job'[mailbox'[i].from]]
  <2>1. mailbox'[i] = mailbox[i + 1] /\ i + 1 \in 1..Len(mailbox) /\ i + 1 # 1
    BY <1>1
  <2>2. Asks(mailbox[i + 1].from, mailbox[i + 1])
    BY <1>6, <2>1 DEF Shape, Mail
  <2>3. mailbox[i + 1].from # c.from
    BY <1>1, <1>2, <1>6, <2>1 DEF Shape, Mail
  <2>4. mailbox[i + 1].from \in Handlers
    <3>1. mailbox[i + 1] \in Calls
      BY <2>1 DEF Shape, TypeOK
    <3> QED BY <3>1, <1>6, <2>1 DEF Calls
  <2> QED BY <1>4, <2>1, <2>2, <2>3, <2>4 DEF Asks, Shape, TypeOK
<1>7. \A i, j \in 1..Len(mailbox') :
        i # j /\ mailbox'[i].from # Nobody => mailbox'[i].from # mailbox'[j].from
  <2>1. \A i, j \in 1..Len(mailbox') : i # j => i + 1 # j + 1
    BY <1>1
  <2> QED BY <1>1, <2>1 DEF Shape, Mail
<1>8. srv' = "idle"
  OBVIOUS
<1>9. Mail'
  BY <1>6, <1>7, <1>8 DEF Mail, Asks
<1> QED BY <1>1, <1>5, <1>9

\* The server takes a call, credits, or is done with it.
LEMMA ServerShape ==
  ASSUME Shape, ServerStep
  PROVE  Shape'
<1>1. CASE TakeCall
  <2> DEFINE c == Head(mailbox)
  <2>1. /\ c \in Calls /\ c.order \in Orders /\ c.from \in Handlers \cup {Nobody}
        /\ srv = "idle" /\ mailbox # <<>> /\ mailbox' = Tail(mailbox)
    <3>1. srv = "idle" /\ mailbox # <<>> /\ mailbox' = Tail(mailbox)
      BY <1>1 DEF TakeCall
    <3>2. c \in Calls
      BY <3>1, TakeFirst DEF Shape
    <3> QED BY <3>1, <3>2 DEF Calls
  <2>2. CASE TakeGet \/ NotPending \/ QueryFails
    <3>1. PICK a \in Answers : Reply(c.from, a)
      BY <2>2 DEF TakeGet, NotPending, QueryFails, Answers
    <3>2. UNCHANGED <<pc, job, serving, srv>>
      BY <1>1, <2>2 DEF TakeCall, TakeGet, NotPending, QueryFails
    <3>3. /\ answer' \in [Handlers -> Answers] /\ mailbox' \in Seq(Calls)
          /\ \A h \in Handlers : answer'[h] # "none" => pc'[h] \in {"ask", "fulfil"}
          /\ Mail'
      BY <2>1, <3>1, <3>2, ReplyShape
    <3>4. /\ status' \in [Orders -> States] /\ lost' \in [Orders -> Nat]
          /\ faults' \in 0..MaxFaults
      <4>1. CASE UNCHANGED <<status, lost>>
        BY <2>2, <4>1 DEF TakeGet, NotPending, QueryFails, Fault, Shape, TypeOK
      <4>2. ASSUME status' = [status EXCEPT ![c.order] = "paid"],
                   lost' = [lost EXCEPT ![c.order] = @ + 1]
            PROVE  status' \in [Orders -> States] /\ lost' \in [Orders -> Nat]
        <5> HIDE DEF c
        <5> QED BY <2>1, <4>2 DEF Shape, TypeOK, States
      <4>3. faults' \in 0..MaxFaults
        BY <2>2 DEF TakeGet, NotPending, QueryFails, Fault, Shape, TypeOK
      <4> QED BY <2>2, <4>1, <4>2, <4>3 DEF TakeGet, NotPending, QueryFails
    <3> QED BY <1>1, <3>2, <3>3, <3>4 DEF TakeCall, Shape, TypeOK
  <2>3. CASE Fulfil
    <3>1. /\ mailbox' \in Seq(Calls) /\ Len(mailbox) \in Nat \ {0}
          /\ Len(mailbox') = Len(mailbox) - 1
          /\ c = mailbox[1]
          /\ \A i \in 1..Len(mailbox') :
               mailbox'[i] = mailbox[i + 1] /\ i + 1 \in 1..Len(mailbox)
                 /\ i + 1 # 1
      BY <2>1, TakeFirst DEF Shape
    <3>2. /\ serving' = c /\ srv' = "credit"
          /\ status' \in [Orders -> States]
          /\ UNCHANGED <<pc, job, answer, faults, lost>>
      BY <1>1, <2>1, <2>3 DEF TakeCall, Fulfil, Shape, TypeOK, States
    <3> HIDE DEF c
    <3>3. TypeOK'
      BY <1>1, <2>1, <3>1, <3>2 DEF TakeCall, Shape, TypeOK
    <3>4. c.from # Nobody => Asks(c.from, c)
      BY <3>1 DEF Shape, Mail
    <3>5. \A i \in 1..Len(mailbox') :
            mailbox'[i].from # Nobody => Asks(mailbox[i + 1].from, mailbox[i + 1])
      BY <3>1 DEF Shape, Mail
    <3>6. \A i, j \in 1..Len(mailbox') :
            i # j /\ mailbox'[i].from # Nobody => mailbox'[i].from # mailbox'[j].from
      <4>1. \A i, j \in 1..Len(mailbox') : i # j => i + 1 # j + 1
        BY <3>1
      <4> QED BY <3>1, <4>1 DEF Shape, Mail
    <3>7. c.from # Nobody
            => \A i \in 1..Len(mailbox') : mailbox'[i].from # c.from
      BY <3>1 DEF Shape, Mail
    <3>8. Mail'
      BY <3>1, <3>2, <3>4, <3>5, <3>6, <3>7 DEF Mail, Asks
    <3> QED BY <3>3, <3>8 DEF Shape
  <2> QED BY <1>1, <2>2, <2>3 DEF TakeCall
<1>2. CASE Credit
  <2>1. serving.order \in Orders
    BY DEF Shape, TypeOK, Calls
  <2>2. /\ credits' \in [Orders -> Nat] /\ lost' \in [Orders -> Nat]
        /\ faults' \in 0..MaxFaults
    <3>1. [credits EXCEPT ![serving.order] = @ + 1] \in [Orders -> Nat]
      BY <2>1 DEF Shape, TypeOK
    <3>2. [lost EXCEPT ![serving.order] = @ + 1] \in [Orders -> Nat]
      BY <2>1 DEF Shape, TypeOK
    <3>3. /\ credits \in [Orders -> Nat] /\ lost \in [Orders -> Nat]
          /\ faults' \in 0..MaxFaults
      BY <1>2 DEF Credit, Fault, Shape, TypeOK
    <3> QED BY <1>2, <3>1, <3>2, <3>3 DEF Credit
  <2>3. TypeOK'
    BY <1>2, <2>2 DEF Credit, Shape, TypeOK, handlerVars
  <2>4. Mail'
    BY <1>2 DEF Credit, Shape, Mail, Asks, handlerVars
  <2> QED BY <2>3, <2>4 DEF Shape
<1>3. CASE Synced
  <2> DEFINE h == serving.from
  <2>1. h \in Handlers \cup {Nobody} /\ (h # Nobody => Asks(h, serving))
          /\ (h # Nobody => \A i \in 1..Len(mailbox) : mailbox[i].from # h)
    BY <1>3 DEF Synced, Shape, Mail, TypeOK, Calls
  <2>2. /\ answer' = IF h = Nobody THEN answer ELSE [answer EXCEPT ![h] = "ok"]
        /\ srv' = "idle"
        /\ UNCHANGED <<status, provider, audit, owed, acked, pc, job, mailbox,
                       serving, faults, history>>
    BY <1>3 DEF Synced, Reply
  <2> HIDE DEF h
  <2>3. TypeOK'
    BY <2>1, <2>2 DEF Shape, TypeOK, Asks, Answers, history
  <2>4. ASSUME NEW i \in 1..Len(mailbox), mailbox[i].from # Nobody
        PROVE  answer'[mailbox[i].from] = "none"
    <3>1. mailbox[i] \in Calls
      BY DEF Shape, TypeOK
    <3>2. mailbox[i].from \in Handlers
      BY <2>4, <3>1 DEF Calls
    <3> QED BY <2>1, <2>2, <2>4, <3>2 DEF Shape, Mail, Asks, TypeOK
  <2>5. Mail'
    BY <2>2, <2>4 DEF Shape, Mail, Asks
  <2> QED BY <2>3, <2>5 DEF Shape
<1> QED BY <1>1, <1>2, <1>3 DEF ServerStep

\* A crash empties the mailbox, and nobody waits any longer.
LEMMA CrashShape ==
  ASSUME Shape, Crash
  PROVE  Shape'
<1>1. /\ status' \in [Orders -> States] /\ credits' \in [Orders -> Nat]
      /\ lost' \in [Orders -> Nat]
  <2>1. serving.order \in Orders
    BY DEF Shape, TypeOK, Calls
  <2>2. mailbox # <<>> => Head(mailbox) \in Calls
    BY DEF Shape, TypeOK
  <2>3. mailbox # <<>> => Head(mailbox).order \in Orders
    BY <2>2 DEF Calls
  <2>4. \A o \in Orders :
          /\ [status EXCEPT ![o] = "paid"] \in [Orders -> States]
          /\ [credits EXCEPT ![o] = @ + 1] \in [Orders -> Nat]
          /\ [lost EXCEPT ![o] = @ + 1] \in [Orders -> Nat]
    BY DEF Shape, TypeOK, States
  <2>5. /\ status \in [Orders -> States] /\ credits \in [Orders -> Nat]
        /\ lost \in [Orders -> Nat]
    BY DEF Shape, TypeOK
  <2>6. CASE UNCHANGED <<status, credits, lost>>
    BY <2>5, <2>6
  <2>7. CASE /\ mailbox # <<>> /\ credits' = credits
             /\ status' = [status EXCEPT ![Head(mailbox).order] = "paid"]
             /\ lost' = [lost EXCEPT ![Head(mailbox).order] = @ + 1]
    BY <2>3, <2>4, <2>5, <2>7
  <2>8. CASE /\ credits' = [credits EXCEPT ![serving.order] = @ + 1]
             /\ UNCHANGED <<lost, status>>
    BY <2>1, <2>4, <2>5, <2>8
  <2>9. CASE /\ lost' = [lost EXCEPT ![serving.order] = @ + 1]
             /\ UNCHANGED <<credits, status>>
    BY <2>1, <2>4, <2>5, <2>9
  <2> QED BY <2>6, <2>7, <2>8, <2>9 DEF Crash, Interrupted
<1>2. mailbox' = <<>> /\ mailbox' \in Seq(Calls) /\ Len(mailbox') = 0
        /\ srv' = "idle"
  BY DEF Crash
<1>3. serving' \in Calls
  BY DEF Crash, Shape, TypeOK, Calls
<1>4. faults' \in 0..MaxFaults /\ upset' \subseteq Orders
  BY DEF Crash, Fault, Shape, TypeOK
<1>5. /\ pc' \in [Handlers -> {"idle", "start", "ask", "call", "fulfil", "done"}]
      /\ \A h \in Handlers : answer[h] # "none" => pc'[h] \in {"ask", "fulfil"}
  BY DEF Crash, Waiting, Shape, TypeOK
<1>6. UNCHANGED <<provider, audit, owed, acked, job, answer, retries>>
  BY DEF Crash
<1>7. TypeOK'
  BY <1>1, <1>2, <1>3, <1>4, <1>5, <1>6 DEF Shape, TypeOK
<1>8. Mail'
  BY <1>2 DEF Mail
<1> QED BY <1>7, <1>8 DEF Shape

\* No step breaks it.
LEMMA ShapeStep == Shape /\ [Next]_vars => Shape'
<1>1. CASE UNCHANGED vars
  BY <1>1 DEF vars, handlerVars, serverVars, history, Shape, TypeOK, Mail, Asks
<1> QED BY <1>1, OrderShape, HandlerShape, ServerShape, CrashShape DEF Next

\* It holds in the beginning.
LEMMA ShapeInit == Init => Shape
<1> SUFFICES ASSUME Init PROVE Shape
  OBVIOUS
<1>1. (CHOOSE n \in Notices : TRUE) \in Notices
  OBVIOUS
<1>2. (CHOOSE o \in Orders : TRUE) \in Orders
  OBVIOUS
<1> QED BY <1>1, <1>2 DEF Init, Shape, TypeOK, Mail, States, AllProviders, Answers,
                          NoCall, Calls

\* Shape is inductive.
LEMMA ShapeHolds == Spec => []Shape
BY ShapeInit, ShapeStep, PTL DEF Spec

----------------------------------------------------------------------------
(* What a step does to one order. *)

Same(o) == status'[o] = status[o] /\ retries'[o] = retries[o]

\* The moves of an order: created, closed by a user or the administrator,
\* retried, or fulfilled, which takes it from pending to paid.
OrderMoves(o) ==
  \/ Fulfilments(o)' = Fulfilments(o) /\ Same(o)
  \/ /\ Fulfilments(o)' = Fulfilments(o) /\ retries'[o] = retries[o]
     /\ status[o] = "none" /\ status'[o] = "pending"
  \/ /\ Fulfilments(o)' = Fulfilments(o) /\ retries'[o] = retries[o]
     /\ status[o] # "none" /\ status'[o] \in {"cancelled", "refunded"}
  \/ /\ Fulfilments(o)' = Fulfilments(o) /\ retries'[o] = retries[o] + 1
     /\ status[o] # "none" /\ status'[o] = "pending"
  \/ /\ Fulfilments(o)' = Fulfilments(o) + 1 /\ retries'[o] = retries[o]
     /\ status[o] = "pending" /\ status'[o] = "paid"

\* The fulfilments are counted by a natural number.
LEMMA FulfilmentsNat ==
  ASSUME TypeOK, NEW o \in Orders
  PROVE  Fulfilments(o) \in Nat
BY DEF TypeOK, Fulfilments, UnderWay

\* The server's counts stay when it does nothing to them.
LEMMA CountsStay ==
  ASSUME NEW o, UNCHANGED <<credits, lost, srv>>, serving'.order = serving.order
  PROVE  Fulfilments(o)' = Fulfilments(o)
BY DEF Fulfilments, UnderWay

\* How a step changes an order, its retries and its fulfilments.
LEMMA StepMoves ==
  ASSUME Shape, [Next]_vars, NEW o \in Orders
  PROVE  OrderMoves(o)
<1>1. ASSUME NEW p \in Orders, OrderStep(p) PROVE OrderMoves(o)
  <2>1. Fulfilments(o)' = Fulfilments(o)
    <3>1. UNCHANGED <<credits, lost, srv, serving>>
      BY <1>1 DEF OrderStep, CreateOrder, UserCancels, AdminCancels, AdminRefunds,
                  AdminRetries, CustomerPays, SetStatus, serverVars, history
    <3> QED BY <3>1, CountsStay
  <2>2. CASE CreateOrder(p)
    BY <2>1, <2>2 DEF CreateOrder, history, OrderMoves, Same, Shape, TypeOK
  <2>3. CASE UserCancels(p) \/ AdminCancels(p) \/ AdminRefunds(p)
    BY <2>1, <2>3 DEF UserCancels, AdminCancels, AdminRefunds, SetStatus,
                      OrderMoves, Same, Shape, TypeOK
  <2>4. CASE AdminRetries(p)
    BY <2>1, <2>4 DEF AdminRetries, SetStatus, OrderMoves, Same, Shape, TypeOK
  <2>5. CASE CustomerPays(p)
    BY <2>1, <2>5 DEF CustomerPays, history, OrderMoves, Same
  <2> QED BY <1>1, <2>2, <2>3, <2>4, <2>5 DEF OrderStep
<1>2. ASSUME NEW h \in Handlers,
             HandlerStep(h) \/ Dies(h) \/ \E n \in Notices : Deliver(n, h)
      PROVE  OrderMoves(o)
  <2>1. UNCHANGED <<credits, lost, srv, status, retries>>
    BY <1>2 DEF HandlerStep, Start, CallFulfil, Answered, Acknowledge, Dies, Fails,
                Deliver, serverVars, history
  <2>2. CASE Fails(h)
    <3>1. serving'.order = serving.order
      BY <2>2, OrphanCalls DEF Fails, Shape
    <3> QED BY <2>1, <3>1, CountsStay DEF OrderMoves, Same
  <2>3. CASE ~Fails(h)
    <3>1. serving' = serving
      BY <1>2, <2>3 DEF HandlerStep, Start, CallFulfil, Answered, Acknowledge,
                        Dies, Deliver, serverVars
    <3> QED BY <2>1, <3>1, CountsStay DEF OrderMoves, Same
  <2> QED BY <2>2, <2>3
<1>3. CASE TakeCall
  <2> DEFINE c == Head(mailbox)
  <2>1. srv = "idle" /\ UNCHANGED <<credits, retries>>
    BY <1>3 DEF TakeCall
  <2>2. CASE UNCHANGED <<status, lost, srv, serving>>
    BY <2>1, <2>2, CountsStay DEF OrderMoves, Same
  <2>3. CASE Fulfil
    BY <2>1, <2>3 DEF Fulfil, OrderMoves, Same, Fulfilments, UnderWay, Shape, TypeOK
  <2>4. CASE /\ status[c.order] = "pending"
             /\ status' = [status EXCEPT ![c.order] = "paid"]
             /\ lost' = [lost EXCEPT ![c.order] = @ + 1]
             /\ UNCHANGED <<serving, srv>>
    <3> HIDE DEF c
    <3> QED BY <2>1, <2>4 DEF OrderMoves, Same, Fulfilments, UnderWay, Shape, TypeOK
  <2> QED BY <1>3, <2>2, <2>3, <2>4 DEF TakeCall, TakeGet, NotPending, QueryFails
<1>4. CASE Credit
  <2>1. serving.order \in Orders
    BY DEF Shape, TypeOK, Calls
  <2>2. CASE credits' = [credits EXCEPT ![serving.order] = @ + 1] /\ UNCHANGED lost
    BY <1>4, <2>1, <2>2 DEF Credit, OrderMoves, Same, Fulfilments, UnderWay, Shape,
                            TypeOK
  <2>3. CASE lost' = [lost EXCEPT ![serving.order] = @ + 1] /\ UNCHANGED credits
    BY <1>4, <2>1, <2>3 DEF Credit, OrderMoves, Same, Fulfilments, UnderWay, Shape,
                            TypeOK
  <2> QED BY <1>4, <2>2, <2>3 DEF Credit
<1>5. CASE Synced
  <2>1. UNCHANGED <<status, credits, lost, retries, serving>>
          /\ srv = "sync" /\ srv' = "idle"
    BY <1>5 DEF Synced, history
  <2> QED BY <2>1 DEF OrderMoves, Same, Fulfilments, UnderWay
<1>6. CASE Crash
  <2> DEFINE c == Head(mailbox)
  <2>1. serving'.order = serving.order /\ srv' = "idle" /\ UNCHANGED retries
    BY <1>6 DEF Crash, Shape, TypeOK, Calls
  <2>2. serving.order \in Orders
    BY DEF Shape, TypeOK, Calls
  <2>3. CASE srv # "credit" /\ UNCHANGED <<status, credits, lost>>
    BY <2>1, <2>3 DEF OrderMoves, Same, Fulfilments, UnderWay
  <2>4. CASE /\ srv = "idle" /\ status[c.order] = "pending"
             /\ status' = [status EXCEPT ![c.order] = "paid"]
             /\ lost' = [lost EXCEPT ![c.order] = @ + 1]
             /\ UNCHANGED credits
    <3> HIDE DEF c
    <3> QED BY <2>1, <2>4 DEF OrderMoves, Same, Fulfilments, UnderWay, Shape, TypeOK
  <2>5. CASE /\ srv = "credit" /\ UNCHANGED <<status, lost>>
             /\ credits' = [credits EXCEPT ![serving.order] = @ + 1]
    BY <2>1, <2>2, <2>5 DEF OrderMoves, Same, Fulfilments, UnderWay, Shape, TypeOK
  <2>6. CASE /\ srv = "credit" /\ UNCHANGED <<status, credits>>
             /\ lost' = [lost EXCEPT ![serving.order] = @ + 1]
    <3>1. lost'[o] = IF serving.order = o THEN lost[o] + 1 ELSE lost[o]
      BY <2>6 DEF Shape, TypeOK
    <3>2. credits[o] \in Nat /\ lost[o] \in Nat
      BY DEF Shape, TypeOK
    <3>3. Fulfilments(o)' = credits[o] + lost'[o]
      BY <2>1, <2>6, <3>1, <3>2 DEF Fulfilments, UnderWay
    <3> QED BY <2>1, <2>6, <3>1, <3>2, <3>3 DEF OrderMoves, Same, Fulfilments, UnderWay
  <2> QED BY <1>6, <2>3, <2>4, <2>5, <2>6 DEF Crash, Interrupted
<1>7. CASE UNCHANGED vars
  BY <1>7, CountsStay DEF vars, serverVars, history, OrderMoves, Same
<1> QED BY <1>1, <1>2, <1>3, <1>4, <1>5, <1>6, <1>7 DEF Next, ServerStep

----------------------------------------------------------------------------
(* The theorems about credits. *)

\* The types of all variables; a reply is only for one that waits for it.
THEOREM TypeCorrect == Spec => []TypeOK
BY ShapeHolds, PTL DEF Shape

\* An order that is not fulfilled yet has one fulfilment to spend, and every
\* retry gives it another.
Budget ==
  \A o \in Orders :
    Fulfilments(o) + (IF status[o] \in {"none", "pending"} THEN 1 ELSE 0)
      <= 1 + retries[o]

\* However often a notice comes and wherever a process stops, an order is
\* fulfilled at most once more than it was retried.
THEOREM NoSecondCredit == Spec => []FulfilledOnce
<1>1. Init => Budget
  BY DEF Init, Budget, Fulfilments, UnderWay
<1>2. Shape /\ Budget /\ [Next]_vars => Budget'
  <2> SUFFICES ASSUME Shape, Budget, [Next]_vars, NEW o \in Orders
               PROVE  Fulfilments(o)'
                        + (IF status'[o] \in {"none", "pending"} THEN 1 ELSE 0)
                        <= 1 + retries'[o]
    BY DEF Budget
  <2>1. OrderMoves(o)
    BY StepMoves
  <2>2. Fulfilments(o) \in Nat /\ retries[o] \in Nat
    BY FulfilmentsNat DEF Shape, TypeOK
  <2>3. Fulfilments(o) + (IF status[o] \in {"none", "pending"} THEN 1 ELSE 0)
          <= 1 + retries[o]
    BY DEF Budget
  <2> QED BY <2>1, <2>2, <2>3 DEF OrderMoves, Same
<1>3. Shape /\ Budget => FulfilledOnce
  <2> SUFFICES ASSUME Shape, Budget, NEW o \in Orders
               PROVE  Fulfilments(o) <= 1 + retries[o]
    BY DEF FulfilledOnce
  <2>1. Fulfilments(o) \in Nat /\ retries[o] \in Nat
    BY FulfilmentsNat DEF Shape, TypeOK
  <2> QED BY <2>1 DEF Budget
<1> QED BY <1>1, <1>2, <1>3, ShapeHolds, PTL DEF Spec

\* An order becomes paid in the step that begins its fulfilment.
THEOREM PaidMeansCredited == Spec => []PaidIsCredited
<1>1. Init => PaidIsCredited
  BY DEF Init, PaidIsCredited
<1>2. Shape /\ PaidIsCredited /\ [Next]_vars => PaidIsCredited'
  <2> SUFFICES ASSUME Shape, PaidIsCredited, [Next]_vars, NEW o \in Orders,
                      status'[o] = "paid"
               PROVE  Fulfilments(o)' >= 1
    BY DEF PaidIsCredited
  <2>1. OrderMoves(o) /\ Fulfilments(o) \in Nat
    BY StepMoves, FulfilmentsNat DEF Shape
  <2>2. status[o] = "paid" => Fulfilments(o) >= 1
    BY DEF PaidIsCredited
  <2> QED BY <2>1, <2>2 DEF OrderMoves, Same
<1> QED BY <1>1, <1>2, ShapeHolds, PTL DEF Spec

----------------------------------------------------------------------------
(* The payment code implements the plain ledger of orders and credits. *)

\* What the ledger sees does not change.
Unseen == UNCHANGED <<status, credits, lost, retries, srv>>
            /\ serving'.order = serving.order

\* The user's and the administrator's changes of an order are the ledger's.
LEMMA OrderRefines ==
  ASSUME NEW o \in Orders, OrderStep(o)
  PROVE  Ledger!Open(o) \/ Ledger!Close(o) \/ Ledger!Retry(o) \/ Unseen
<1>1. UNCHANGED <<credits, lost, srv, serving>>
  BY DEF OrderStep, CreateOrder, UserCancels, AdminCancels, AdminRefunds,
         AdminRetries, CustomerPays, SetStatus, serverVars, history
<1>2. Owing' = Owing
  BY <1>1 DEF Owing
<1>3. CASE CreateOrder(o)
  BY <1>1, <1>2, <1>3 DEF CreateOrder, history, Ledger!Open
<1>4. CASE UserCancels(o) \/ AdminCancels(o) \/ AdminRefunds(o)
  BY <1>1, <1>2, <1>4 DEF UserCancels, AdminCancels, AdminRefunds, SetStatus,
                          Ledger!Close
<1>5. CASE AdminRetries(o)
  BY <1>1, <1>2, <1>5 DEF AdminRetries, SetStatus, Ledger!Retry
<1>6. CASE CustomerPays(o)
  BY <1>1, <1>6 DEF CustomerPays, history, Unseen
<1> QED BY <1>3, <1>4, <1>5, <1>6 DEF OrderStep

\* The requests never touch what the ledger sees, not even when they die and
\* leave a call behind.
LEMMA RequestRefines ==
  ASSUME Shape, NEW h \in Handlers,
         HandlerStep(h) \/ Dies(h) \/ \E n \in Notices : Deliver(n, h)
  PROVE  Unseen
<1>1. UNCHANGED <<credits, lost, srv, status, retries>>
  BY DEF HandlerStep, Start, CallFulfil, Answered, Acknowledge, Dies, Fails,
         Deliver, serverVars, history
<1>2. CASE Fails(h)
  BY <1>1, <1>2, OrphanCalls DEF Fails, Shape, Unseen
<1>3. CASE ~Fails(h)
  <2>1. serving' = serving
    BY <1>3 DEF HandlerStep, Start, CallFulfil, Answered, Acknowledge,
                Dies, Deliver, serverVars
  <2> QED BY <1>1, <2>1 DEF Unseen
<1> QED BY <1>2, <1>3

\* A call that the server takes fulfils its order or changes nothing.
LEMMA TakeRefines ==
  ASSUME Shape, TakeCall
  PROVE  Unseen \/ \E o \in Orders : Ledger!Fulfil(o)
<1> DEFINE c == Head(mailbox)
<1>1. srv = "idle" /\ UNCHANGED <<credits, retries>> /\ c.order \in Orders
  BY TakeFirst DEF TakeCall, Shape, Calls
<1>2. Owing = {}
  BY <1>1 DEF Owing
<1>3. CASE UNCHANGED <<status, lost, srv, serving>>
  BY <1>1, <1>3 DEF Unseen
<1>4. CASE Fulfil
  <2>1. /\ status[c.order] = "pending" /\ UNCHANGED lost
        /\ status' = [status EXCEPT ![c.order] = "paid"]
        /\ serving' = c /\ srv' = "credit"
    BY <1>4 DEF Fulfil
  <2>2. Owing' = {c.order}
    BY <2>1 DEF Owing
  <2> QED BY <1>1, <1>2, <2>1, <2>2 DEF Ledger!Fulfil
<1>5. CASE /\ status[c.order] = "pending"
           /\ status' = [status EXCEPT ![c.order] = "paid"]
           /\ lost' = [lost EXCEPT ![c.order] = @ + 1]
           /\ UNCHANGED <<serving, srv>>
  <2>1. Owing' = Owing
    BY <1>5 DEF Owing
  <2> QED BY <1>1, <1>2, <1>5, <2>1 DEF Ledger!Fulfil
<1> QED BY <1>3, <1>4, <1>5 DEF TakeCall, TakeGet, NotPending, QueryFails

\* The credit, and a crash at the credit, settle what is owed; a crash at the
\* update of the order may lose the fulfilment at once.
LEMMA ServerRefines ==
  ASSUME Shape, Credit \/ Synced \/ Crash
  PROVE  \/ UNCHANGED <<status, Owing, credits, lost, retries>>
         \/ \E o \in Orders : Ledger!Settle(o) \/ Ledger!Fulfil(o)
<1>1. serving.order \in Orders
  BY DEF Shape, TypeOK, Calls
<1>2. ASSUME srv = "credit", srv' # "credit", UNCHANGED <<status, retries>>,
             \/ /\ credits' = [credits EXCEPT ![serving.order] = @ + 1]
                /\ UNCHANGED lost
             \/ /\ lost' = [lost EXCEPT ![serving.order] = @ + 1]
                /\ UNCHANGED credits
      PROVE  Ledger!Settle(serving.order)
  <2>1. Owing = {serving.order} /\ Owing' = {}
    BY <1>2 DEF Owing
  <2> QED BY <1>2, <2>1 DEF Ledger!Settle
<1>3. CASE Credit
  <2>1. srv = "credit" /\ srv' # "credit" /\ UNCHANGED <<status, retries>>
    BY <1>3 DEF Credit
  <2>2. \/ /\ credits' = [credits EXCEPT ![serving.order] = @ + 1]
           /\ UNCHANGED lost
        \/ /\ lost' = [lost EXCEPT ![serving.order] = @ + 1]
           /\ UNCHANGED credits
    BY <1>3 DEF Credit
  <2> QED BY <1>1, <1>2, <2>1, <2>2
<1>4. CASE Synced
  BY <1>4 DEF Synced, history, Owing
<1>5. CASE Crash
  <2>1. srv' = "idle" /\ UNCHANGED retries /\ Owing' = {}
    BY <1>5 DEF Crash, Owing
  <2>2. CASE srv # "credit" /\ UNCHANGED <<status, credits, lost>>
    BY <2>1, <2>2 DEF Owing
  <2>3. CASE srv = "credit" /\ UNCHANGED status
    BY <1>1, <1>2, <1>5, <2>1, <2>3 DEF Crash, Interrupted
  <2>4. CASE srv = "idle" /\ mailbox # <<>> /\ ~UNCHANGED <<status, credits, lost>>
    <3> DEFINE c == Head(mailbox)
    <3>1. c \in Calls
      BY <2>4 DEF Shape, TypeOK
    <3>2. c.order \in Orders
      BY <3>1 DEF Calls
    <3>3. /\ status[c.order] = "pending" /\ UNCHANGED credits
          /\ status' = [status EXCEPT ![c.order] = "paid"]
          /\ lost' = [lost EXCEPT ![c.order] = @ + 1]
      BY <1>5, <2>4 DEF Crash, Interrupted
    <3>4. Owing = {}
      BY <2>4 DEF Owing
    <3> QED BY <2>1, <3>2, <3>3, <3>4 DEF Ledger!Fulfil
  <2> QED BY <1>5, <2>2, <2>3, <2>4 DEF Crash, Interrupted
<1> QED BY <1>3, <1>4, <1>5

\* Every step of the payment code is a step of the ledger or changes nothing in
\* it, so no order of notices, deaths and crashes credits an order twice, or
\* moves it in a way the ledger does not know.
THEOREM LedgerRefinement == Spec => ImplementsOrderLedger
<1>1. Init => Ledger!Init
  BY DEF Init, Ledger!Init, Owing
<1>2. ASSUME Shape, [Next]_vars
      PROVE  [Ledger!Next]_<<status, Owing, credits, lost, retries>>
  <2>1. Unseen => UNCHANGED <<status, Owing, credits, lost, retries>>
    BY DEF Unseen, Owing
  <2>2. ASSUME NEW o \in Orders, OrderStep(o)
        PROVE  Ledger!Next \/ Unseen
    BY <2>2, OrderRefines DEF Ledger!Next
  <2>3. CASE TakeCall
    BY <1>2, <2>1, <2>3, TakeRefines DEF Ledger!Next
  <2>4. CASE Credit \/ Synced \/ Crash
    BY <1>2, <2>4, ServerRefines DEF Ledger!Next
  <2>5. CASE UNCHANGED vars
    BY <2>5 DEF vars, serverVars, history, Owing
  <2> QED
    BY <1>2, <2>1, <2>2, <2>3, <2>4, <2>5, RequestRefines DEF Next, ServerStep
<1> QED
  BY <1>1, <1>2, ShapeHolds, PTL
  DEF Spec, ImplementsOrderLedger, Ledger!Spec

----------------------------------------------------------------------------
(* What a step does to one request. *)

Stays(h) == pc'[h] = pc[h] /\ job'[h] = job[h]

\* The moves of a request, from its notice to its end.
RequestMoves(h) ==
  \/ Stays(h)
  \/ pc[h] = "idle" /\ pc'[h] = "start" /\ job'[h] \in owed
  \/ /\ job'[h] = job[h] /\ pc[h] = "start"
     /\ \/ pc'[h] \in {"ask", "call"}
        \/ /\ pc'[h] = "done"
           /\ AuditsFirst(OrderOf[job[h]]) /\ KeyOf(job[h]) \in audit
  \/ job'[h] = job[h] /\ pc[h] = "call" /\ pc'[h] = "fulfil"
  \/ /\ job'[h] = job[h] /\ pc[h] \in {"ask", "fulfil"}
     /\ \/ pc'[h] = "call"
        \/ pc'[h] = "done" /\ answer[h] \in {"ok", "paid", "not_pending"}
  \/ /\ job'[h] = job[h] /\ pc'[h] = "idle"
     /\ pc[h] \in {"call", "fulfil"} => OrderOf[job[h]] \in upset'

\* One request moves, the others stay.
LEMMA OneMoves ==
  ASSUME Shape, NEW g \in Handlers, NEW h \in Handlers, NEW p,
         Goes(g, p), job' = job, h # g
  PROVE  RequestMoves(h)
BY DEF Goes, RequestMoves, Stays, Shape, TypeOK

\* How a step changes a request.
LEMMA RequestsMove ==
  ASSUME Shape, [Next]_vars, NEW h \in Handlers
  PROVE  RequestMoves(h)
<1>1. CASE UNCHANGED handlerVars
  BY <1>1 DEF handlerVars, RequestMoves, Stays
<1>2. ASSUME NEW n \in Notices, NEW g \in Handlers, Deliver(n, g)
      PROVE  RequestMoves(h)
  BY <1>2 DEF Deliver, Goes, RequestMoves, Stays, Shape, TypeOK
<1>3. ASSUME NEW g \in Handlers, Start(g)
      PROVE  RequestMoves(h)
  <2>1. job' = job /\ pc[g] = "start"
    BY <1>3 DEF Start
  <2>2. \/ Goes(g, "call") \/ Goes(g, "ask")
        \/ /\ Goes(g, "done")
           /\ AuditsFirst(OrderOf[job[g]]) /\ KeyOf(job[g]) \in audit
    BY <1>3 DEF Start, LogNotice, LogFails, AskStatus, NoCheck
  <2>3. CASE h = g
    BY <2>1, <2>2, <2>3 DEF Goes, RequestMoves, Shape, TypeOK
  <2> QED BY <2>1, <2>2, <2>3, OneMoves
<1>4. ASSUME NEW g \in Handlers, CallFulfil(g)
      PROVE  RequestMoves(h)
  BY <1>4, OneMoves DEF CallFulfil, Goes, RequestMoves, Shape, TypeOK
<1>5. ASSUME NEW g \in Handlers, Fails(g)
      PROVE  RequestMoves(h)
  <2>1. /\ job' = job /\ Goes(g, "idle")
        /\ pc[g] \in {"call", "fulfil"} => OrderOf[job[g]] \in upset'
    BY <1>5 DEF Fails
  <2>2. CASE h = g
    BY <2>1, <2>2 DEF Goes, RequestMoves, Shape, TypeOK
  <2> QED BY <2>1, <2>2, OneMoves
<1>6. ASSUME NEW g \in Handlers, Answered(g), ~Fails(g)
      PROVE  RequestMoves(h)
  <2>1. /\ job' = job /\ pc[g] \in {"ask", "fulfil"}
        /\ \/ Goes(g, "call")
           \/ Goes(g, "done") /\ answer[g] \in {"ok", "paid", "not_pending"}
    BY <1>6 DEF Answered, IsSuccess
  <2>2. CASE h = g
    BY <2>1, <2>2 DEF Goes, RequestMoves, Shape, TypeOK
  <2> QED BY <2>1, <2>2, OneMoves
<1>7. ASSUME NEW g \in Handlers, Acknowledge(g)
      PROVE  RequestMoves(h)
  BY <1>7, OneMoves DEF Acknowledge, Goes, RequestMoves, Shape, TypeOK
<1>8. CASE TakeCall \/ Credit \/ Synced
  BY <1>8 DEF TakeCall, Credit, Synced, handlerVars, RequestMoves, Stays
<1>9. CASE Crash
  <2>1. /\ job' = job
        /\ pc'[h] = IF Waiting(h) THEN "idle" ELSE pc[h]
        /\ Waiting(h) /\ pc[h] = "fulfil" => OrderOf[job[h]] \in upset'
    BY <1>9 DEF Crash
  <2> QED BY <2>1 DEF RequestMoves, Stays, Waiting
<1>10. ASSUME NEW p \in Orders, OrderStep(p)
       PROVE  UNCHANGED handlerVars
  BY <1>10 DEF OrderStep, CreateOrder, UserCancels, AdminCancels, AdminRefunds,
               AdminRetries, CustomerPays, SetStatus
<1> QED
  BY <1>1, <1>2, <1>3, <1>4, <1>5, <1>6, <1>7, <1>8, <1>9, <1>10
  DEF Next, HandlerStep, Dies, ServerStep, vars

----------------------------------------------------------------------------
(* What success tells the provider. *)

Exists(o) == status[o] # "none"

\* The order has left pending, and comes back only by a retry.
Left(o) == Exists(o) /\ (status[o] # "pending" \/ retries[o] > 0)

Good(o) == Exists(o) /\ Settled(o)

\* Only orders that exist are paid for and looked at.
Known ==
  /\ \A n \in owed : Exists(OrderOf[n])
  /\ \A h \in Handlers : pc[h] # "idle" => Exists(OrderOf[job[h]])

\* A reply that may mean success is about an order that has left pending.
Replies ==
  /\ srv # "idle" => Left(serving.order)
  /\ \A h \in Handlers :
       answer[h] \in {"ok", "paid", "not_pending"} => Left(OrderOf[job[h]])

\* So is everything that is or will be answered with success.
Told ==
  /\ \A n \in acked : Good(OrderOf[n])
  /\ \A h \in Handlers : pc[h] = "done" => Good(OrderOf[job[h]])
  /\ \A n \in Notices : n \in audit => Good(OrderOf[n])
  /\ \A o \in Orders : o \in audit => Good(o)

Facts == Shape /\ Known /\ Replies /\ Told

\* An order that exists goes on to exist.
LEMMA ExistsStays ==
  ASSUME Shape, [Next]_vars, NEW o \in Orders, Exists(o)
  PROVE  Exists(o)' /\ provider'[o] = provider[o]
<1>1. Exists(o)'
  BY StepMoves DEF OrderMoves, Same, Exists
<1>2. ASSUME NEW p \in Orders, CreateOrder(p)
      PROVE  provider'[o] = provider[o]
  BY <1>2 DEF CreateOrder, Exists, Shape, TypeOK
<1>3. provider' = provider \/ \E p \in Orders : CreateOrder(p)
  BY DEF Next, OrderStep, UserCancels, AdminCancels, AdminRefunds, AdminRetries,
         CustomerPays, SetStatus, Deliver, HandlerStep, Start, CallFulfil,
         Answered, Acknowledge, Dies, Fails, ServerStep, TakeCall, Credit,
         Synced, Crash, vars
<1> QED BY <1>1, <1>2, <1>3

\* An order that has left pending, or was retried, stays so.
LEMMA LeftStays ==
  ASSUME Shape, [Next]_vars, NEW o \in Orders, Left(o)
  PROVE  Left(o)'
<1>1. OrderMoves(o) /\ retries[o] \in Nat
  BY StepMoves DEF Shape, TypeOK
<1> QED BY <1>1 DEF OrderMoves, Same, Left, Exists

\* What a request knows stays true.
LEMMA KnownStays ==
  ASSUME Shape, Known, [Next]_vars
  PROVE  Known'
<1>1. ASSUME NEW o \in Orders, Exists(o) PROVE Exists(o)'
  BY <1>1, ExistsStays
<1>2. ASSUME NEW n \in owed' PROVE Exists(OrderOf[n]) /\ n \in Notices
  <2>1. ASSUME NEW o \in Orders, CustomerPays(o)
        PROVE  Exists(OrderOf[n]) /\ n \in Notices
    BY <2>1, <1>2 DEF CustomerPays, Exists, Known, Shape, TypeOK
  <2>2. owed' \subseteq owed \/ \E o \in Orders : CustomerPays(o)
    BY DEF Next, OrderStep, CreateOrder, UserCancels, AdminCancels, AdminRefunds,
           AdminRetries, SetStatus, Deliver, HandlerStep, Start, CallFulfil,
           Answered, Acknowledge, Dies, Fails, ServerStep, TakeCall, Credit,
           Synced, Crash, vars
  <2> QED BY <1>2, <2>1, <2>2 DEF Known, Shape, TypeOK
<1>3. \A n \in Notices : OrderOf[n] \in Orders
  OBVIOUS
<1>4. \A n \in owed' : Exists(OrderOf[n])'
  BY <1>1, <1>2, <1>3
<1>5. ASSUME NEW h \in Handlers, pc'[h] # "idle"
      PROVE  job'[h] \in Notices /\ Exists(OrderOf[job'[h]])
  BY <1>5, RequestsMove DEF RequestMoves, Stays, Known, Shape, TypeOK
<1>6. ASSUME NEW h \in Handlers, pc'[h] # "idle"
      PROVE  status'[OrderOf[job'[h]]] # "none"
  <2> DEFINE o == OrderOf[job'[h]]
  <2>1. o \in Orders /\ Exists(o)
    BY <1>3, <1>5, <1>6
  <2> HIDE DEF o
  <2>2. status'[o] # "none"
    BY <1>1, <2>1 DEF Exists
  <2> QED BY <2>2 DEF o
<1> QED BY <1>4, <1>6 DEF Known, Exists

\* An order that success was told of stays as it must be.
LEMMA GoodStays ==
  ASSUME Facts, [Next]_vars, NEW o \in Orders, Good(o)
  PROVE  Good(o)'
<1>1. Shape /\ Exists(o)
  BY DEF Facts, Good
<1>2. Exists(o)' /\ provider'[o] = provider[o]
  BY <1>1, ExistsStays
<1>3. CASE Left(o)
  <2>1. Left(o)'
    BY <1>1, <1>3, LeftStays
  <2> QED BY <2>1 DEF Left, Good, Settled
<1>4. CASE AuditsFirst(o) /\ o \in upset
  <2>1. upset \subseteq upset'
    BY DEF Next, OrderStep, CreateOrder, UserCancels, AdminCancels, AdminRefunds,
           AdminRetries, CustomerPays, SetStatus, Deliver, HandlerStep, Start,
           CallFulfil, Answered, Acknowledge, Dies, Fails, ServerStep, TakeCall,
           Credit, Synced, Crash, history, vars
  <2> QED BY <1>2, <1>4, <2>1 DEF Good, Settled, AuditsFirst
<1>5. ASSUME NEW h \in Handlers, AuditsFirst(o), AtWork(o, h)
      PROVE  Good(o)'
  <2>1. RequestMoves(h)
    BY <1>1, RequestsMove
  <2>2. AuditsFirst(o)'
    BY <1>2, <1>5 DEF AuditsFirst
  <2>3. CASE job'[h] = job[h] /\ pc'[h] \in {"call", "fulfil"}
    BY <1>2, <1>5, <2>2, <2>3 DEF Good, Settled, AtWork
  <2>4. CASE o \in upset'
    BY <1>2, <2>2, <2>4 DEF Good, Settled
  <2>5. CASE answer[h] \in {"ok", "paid", "not_pending"}
    <3>1. Left(o)
      BY <1>5, <2>5 DEF AtWork, Facts, Replies
    <3>2. Left(o)'
      BY <1>1, <3>1, LeftStays
    <3> QED BY <3>2 DEF Left, Good, Settled
  <2> QED BY <1>5, <2>1, <2>3, <2>4, <2>5 DEF RequestMoves, Stays, AtWork
<1> QED BY <1>3, <1>4, <1>5 DEF Good, Settled, Left

\* A reply that may mean success, new or old.
LEMMA ReplyIsTrue ==
  ASSUME Facts, [Next]_vars, NEW h \in Handlers,
         answer'[h] \in {"ok", "paid", "not_pending"}
  PROVE  job'[h] = job[h] /\ Left(OrderOf[job[h]])
<1> DEFINE Success == {"ok", "paid", "not_pending"}
<1>1. CASE answer'[h] = answer[h]
  <2>1. pc[h] # "idle"
    BY <1>1 DEF Facts, Shape, TypeOK
  <2>2. RequestMoves(h)
    BY RequestsMove DEF Facts
  <2> QED BY <1>1, <2>1, <2>2 DEF RequestMoves, Stays, Facts, Replies
<1>2. CASE TakeCall /\ answer'[h] # answer[h]
  <2> DEFINE c == Head(mailbox)
  <2>1. /\ c = mailbox[1] /\ 1 \in 1..Len(mailbox) /\ mailbox # <<>>
        /\ c \in Calls
    BY <1>2 DEF TakeCall, Facts, Shape, TypeOK
  <2>2. c.from # Nobody => Asks(c.from, c)
    BY <2>1 DEF Facts, Shape, Mail
  <2>3. job' = job
    BY <1>2 DEF TakeCall
  <2>4. ASSUME NEW a, Reply(c.from, a)
        PROVE  c.from = h /\ h # Nobody /\ answer'[h] = a
    <3> HIDE DEF c
    <3> QED BY <1>2, <2>4 DEF Reply, Facts, Shape, TypeOK
  <2>5. h = c.from /\ h # Nobody /\ status[c.order] # "pending"
    <3>1. CASE TakeGet
      <4>1. Reply(c.from, IF status[c.order] = "paid" THEN "paid" ELSE "unpaid")
        BY <3>1 DEF TakeGet
      <4> HIDE DEF c
      <4> QED BY <4>1, <2>4
    <3>2. CASE Fulfil
      BY <1>2, <3>2 DEF Fulfil
    <3>3. CASE NotPending
      <4>1. Reply(c.from, "not_pending") /\ status[c.order] # "pending"
        BY <3>3 DEF NotPending
      <4> HIDE DEF c
      <4> QED BY <4>1, <2>4
    <3>4. CASE QueryFails
      <4>1. Reply(c.from, "error")
        BY <3>4 DEF QueryFails
      <4> HIDE DEF c
      <4> QED BY <4>1, <2>4
    <3> HIDE DEF c
    <3> QED BY <1>2, <3>1, <3>2, <3>3, <3>4 DEF TakeCall
  <2> HIDE DEF c
  <2> QED BY <2>2, <2>3, <2>5 DEF Asks, Left, Facts, Known
<1>3. CASE Synced /\ answer'[h] # answer[h]
  <2>1. serving.from = h /\ h # Nobody /\ srv # "idle" /\ job' = job
    BY <1>3 DEF Synced, Reply, Facts, Shape, TypeOK
  <2>2. serving.order = OrderOf[job[h]]
    BY <2>1 DEF Facts, Shape, Mail, Asks
  <2> QED BY <2>1, <2>2 DEF Facts, Replies
<1>4. TakeCall \/ Synced \/ answer'[h] = answer[h] \/ answer'[h] = "none"
  <2>1. ASSUME NEW g \in Handlers, Fails(g) \/ Answered(g)
        PROVE  answer'[h] = answer[h] \/ answer'[h] = "none"
    BY <2>1 DEF Fails, Answered, Facts, Shape, TypeOK
  <2>2. \/ UNCHANGED answer \/ TakeCall \/ Synced
        \/ \E g \in Handlers : Fails(g) \/ Answered(g)
    BY DEF Next, OrderStep, CreateOrder, UserCancels, AdminCancels, AdminRefunds,
           AdminRetries, CustomerPays, SetStatus, Deliver, HandlerStep, Start,
           CallFulfil, Acknowledge, Dies, ServerStep, Credit, Crash, handlerVars,
           vars
  <2> QED BY <2>1, <2>2
<1> QED BY <1>1, <1>2, <1>3, <1>4

\* The server is at an order it has just made paid, or stays at its order.
LEMMA RepliesStay ==
  ASSUME Facts, [Next]_vars
  PROVE  Replies'
<1>1. Shape /\ Shape'
  BY ShapeStep DEF Facts
<1>2. ASSUME NEW o \in Orders, Left(o)
      PROVE  status'[o] # "none" /\ (status'[o] # "pending" \/ retries'[o] > 0)
  BY <1>1, <1>2, LeftStays DEF Left, Exists
<1>3. serving'.order \in Orders /\ serving.order \in Orders
  BY <1>1 DEF Shape, TypeOK, Calls
<1>4. ASSUME srv' # "idle"
      PROVE  \/ srv # "idle" /\ serving'.order = serving.order
             \/ status'[serving'.order] = "paid"
  <2>1. ASSUME NEW g \in Handlers, Fails(g)
        PROVE  srv' = srv /\ serving'.order = serving.order
    BY <1>1, <2>1, OrphanCalls DEF Fails, Shape
  <2>2. CASE TakeCall
    <3>1. Fulfil \/ (UNCHANGED <<srv, serving>> /\ srv = "idle")
      BY <2>2 DEF TakeCall, TakeGet, NotPending, QueryFails
    <3>2. Fulfil => status'[serving'.order] = "paid"
      BY <1>1, <1>3 DEF Fulfil, Shape, TypeOK
    <3> QED BY <1>4, <3>1, <3>2
  <2>3. CASE Credit \/ Synced \/ Crash
    BY <1>4, <2>3 DEF Credit, Synced, Crash
  <2>4. \/ UNCHANGED <<srv, serving>> \/ \E g \in Handlers : Fails(g)
        \/ TakeCall \/ Credit \/ Synced \/ Crash
    BY DEF Next, OrderStep, CreateOrder, UserCancels, AdminCancels, AdminRefunds,
           AdminRetries, CustomerPays, SetStatus, Deliver, HandlerStep, Start,
           CallFulfil, Answered, Acknowledge, Dies, ServerStep, serverVars, vars
  <2> QED BY <1>4, <2>1, <2>2, <2>3, <2>4
<1>5. srv' # "idle" => status'[serving'.order] # "none"
        /\ (status'[serving'.order] # "pending" \/ retries'[serving'.order] > 0)
  BY <1>2, <1>3, <1>4 DEF Facts, Replies
<1>6. ASSUME NEW h \in Handlers, answer'[h] \in {"ok", "paid", "not_pending"}
      PROVE  LET o == OrderOf[job'[h]]
             IN status'[o] # "none" /\ (status'[o] # "pending" \/ retries'[o] > 0)
  <2>1. job'[h] = job[h] /\ Left(OrderOf[job[h]])
    BY <1>6, ReplyIsTrue
  <2>2. OrderOf[job[h]] \in Orders
    BY <1>1 DEF Shape, TypeOK
  <2> QED BY <2>1, <2>2, <1>2
<1> QED BY <1>5, <1>6 DEF Replies, Left, Exists

\* Whatever joins the log is at work; whatever ends with success has left.
LEMMA ToldStays ==
  ASSUME Facts, [Next]_vars
  PROVE  Told'
<1>1. Shape /\ Shape' /\ Known
  BY ShapeStep DEF Facts
<1>2. ASSUME NEW o \in Orders, Good(o) PROVE Good(o)'
  BY <1>2, GoodStays
<1>3. \A n \in Notices : OrderOf[n] \in Orders
  OBVIOUS
<1>4. ASSUME NEW n \in acked' PROVE n \in Notices /\ Good(OrderOf[n])
  <2>1. ASSUME NEW g \in Handlers, Acknowledge(g)
        PROVE  n \in Notices /\ Good(OrderOf[n])
    BY <1>1, <1>4, <2>1 DEF Acknowledge, Facts, Told, Shape, TypeOK
  <2>2. acked' = acked \/ \E g \in Handlers : Acknowledge(g)
    BY DEF Next, OrderStep, CreateOrder, UserCancels, AdminCancels, AdminRefunds,
           AdminRetries, CustomerPays, SetStatus, Deliver, HandlerStep, Start,
           CallFulfil, Answered, Dies, Fails, ServerStep, TakeCall, Credit,
           Synced, Crash, vars
  <2> QED BY <1>1, <1>4, <2>1, <2>2 DEF Facts, Told, Shape, TypeOK
<1>5. \A n \in acked' : Good(OrderOf[n])'
  <2> TAKE n \in acked'
  <2>1. OrderOf[n] \in Orders /\ Good(OrderOf[n])
    BY <1>3, <1>4
  <2> QED BY <2>1, <1>2
<1>6. ASSUME NEW h \in Handlers, pc'[h] = "done"
      PROVE  job'[h] \in Notices /\ Good(OrderOf[job'[h]])
  <2>1. RequestMoves(h) /\ job'[h] \in Notices /\ job[h] \in Notices
    BY <1>1, RequestsMove DEF Shape, TypeOK
  <2>2. KeyOf(job[h]) \in {job[h], OrderOf[job[h]]}
    BY DEF KeyOf
  <2>3. KeyOf(job[h]) \in audit => Good(OrderOf[job[h]])
    BY <1>3, <2>1, <2>2 DEF Facts, Told
  <2>4. answer[h] \in {"ok", "paid", "not_pending"} => Good(OrderOf[job[h]])
    BY DEF Facts, Replies, Left, Good, Settled
  <2>5. pc[h] = "done" => Good(OrderOf[job[h]])
    BY DEF Facts, Told
  <2> QED BY <1>6, <2>1, <2>3, <2>4, <2>5 DEF RequestMoves, Stays
<1>7. ASSUME NEW h \in Handlers, pc'[h] = "done", NEW o \in Orders,
             o = OrderOf[job'[h]]
      PROVE  Good(o)'
  BY <1>2, <1>6, <1>7
<1>8. ASSUME NEW k \in audit', k \notin audit
      PROVE  \E g \in Handlers :
               /\ k = KeyOf(job[g]) /\ AuditsFirst(OrderOf[job[g]])
               /\ pc[g] = "start" /\ pc'[g] = "call" /\ job'[g] = job[g]
  <2>1. ASSUME NEW g \in Handlers, Start(g)
        PROVE  /\ k = KeyOf(job[g]) /\ AuditsFirst(OrderOf[job[g]])
               /\ pc[g] = "start" /\ pc'[g] = "call" /\ job'[g] = job[g]
    <3>1. LogNotice(g) \/ LogFails(g)
      BY <1>8, <2>1 DEF Start, AskStatus, NoCheck
    <3>2. k = KeyOf(job[g]) /\ AuditsFirst(OrderOf[job[g]]) /\ Goes(g, "call")
      BY <1>8, <3>1 DEF LogNotice, LogFails
    <3> QED BY <1>1, <2>1, <3>2 DEF Start, Goes, Shape, TypeOK
  <2>2. audit' = audit \/ \E g \in Handlers : Start(g)
    BY DEF Next, OrderStep, CreateOrder, UserCancels, AdminCancels, AdminRefunds,
           AdminRetries, CustomerPays, SetStatus, Deliver, HandlerStep,
           CallFulfil, Answered, Acknowledge, Dies, Fails, ServerStep, TakeCall,
           Credit, Synced, Crash, vars
  <2> QED BY <1>8, <2>1, <2>2
<1>9. ASSUME NEW g \in Handlers, NEW o \in Orders, o = OrderOf[job[g]],
             AuditsFirst(o), pc[g] = "start", pc'[g] = "call", job'[g] = job[g]
      PROVE  Good(o)'
  <2>1. Exists(o)
    BY <1>1, <1>9 DEF Known
  <2>2. Exists(o)' /\ provider'[o] = provider[o]
    BY <1>1, <2>1, ExistsStays
  <2>3. AuditsFirst(o)' /\ AtWork(o, g)'
    BY <1>9, <2>2 DEF AuditsFirst, AtWork
  <2> QED BY <2>2, <2>3 DEF Good, Settled
<1>10. ASSUME NEW n \in Notices, n \in audit'
       PROVE  Good(OrderOf[n])'
  <2>1. CASE n \in audit
    BY <1>2, <1>3, <2>1 DEF Facts, Told
  <2>2. CASE n \notin audit
    <3>1. PICK g \in Handlers :
            /\ n = KeyOf(job[g]) /\ AuditsFirst(OrderOf[job[g]])
            /\ pc[g] = "start" /\ pc'[g] = "call" /\ job'[g] = job[g]
      BY <1>8, <1>10, <2>2
    <3>2. n = job[g]
      BY <1>1, <3>1 DEF KeyOf, Shape, TypeOK
    <3> QED BY <1>3, <1>9, <3>1, <3>2
  <2> QED BY <2>1, <2>2
<1>11. ASSUME NEW o \in Orders, o \in audit'
       PROVE  Good(o)'
  <2>1. CASE o \in audit
    BY <1>2, <2>1 DEF Facts, Told
  <2>2. CASE o \notin audit
    <3>1. PICK g \in Handlers :
            /\ o = KeyOf(job[g]) /\ AuditsFirst(OrderOf[job[g]])
            /\ pc[g] = "start" /\ pc'[g] = "call" /\ job'[g] = job[g]
      BY <1>8, <1>11, <2>2
    <3>2. o = OrderOf[job[g]]
      BY <1>1, <3>1 DEF KeyOf, Shape, TypeOK
    <3> QED BY <1>9, <3>1, <3>2
  <2> QED BY <2>1, <2>2
<1>12. ASSUME NEW h \in Handlers, pc'[h] = "done"
       PROVE  Good(OrderOf[job[h]])'
  <2>1. PICK o \in Orders : o = OrderOf[job'[h]]
    BY <1>3, <1>6, <1>12
  <2>2. Good(o)'
    BY <1>7, <1>12, <2>1
  <2> QED BY <2>1, <2>2 DEF Good, Exists, Settled, AuditsFirst, AtWork
<1> QED BY <1>5, <1>10, <1>11, <1>12 DEF Told

\* A provider that is told of success has nothing left to send: the order has
\* left pending, or another request is at it or has failed at it.
THEOREM SuccessMeansSettled == Spec => []SuccessIsTrue
<1>1. Init => Facts
  <2> SUFFICES ASSUME Init PROVE Known /\ Replies /\ Told
    BY ShapeInit DEF Facts
  <2> QED BY DEF Init, Known, Replies, Told
<1>2. Facts /\ [Next]_vars => Facts'
  <2> SUFFICES ASSUME Facts, [Next]_vars PROVE Facts'
    OBVIOUS
  <2> QED BY ShapeStep, KnownStays, RepliesStay, ToldStays DEF Facts
<1>3. Facts => SuccessIsTrue
  BY DEF Facts, Told, Good, SuccessIsTrue
<1> QED BY <1>1, <1>2, <1>3, PTL DEF Spec
=============================================================================
