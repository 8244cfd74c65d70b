---------------------------- MODULE StreamProofs ----------------------------
(***************************************************************************)
(* Proofs about Stream for every handler, any pieces of the body and any   *)
(* number of messages.                                                     *)
(***************************************************************************)
EXTENDS Stream, SequenceTheorems, TLAPS

USE StreamAssumption DEF sent

----------------------------------------------------------------------------
(* Types. *)

LEMMA SmallSeqs ==
  ASSUME NEW S, NEW a \in S, NEW b \in S
  PROVE  <<a>> \in Seq(S) /\ <<a, b>> \in Seq(S) /\ <<>> \in Seq(S)
OBVIOUS

LEMMA Cut ==
  ASSUME NEW S, NEW s \in Seq(S), NEW i \in DOMAIN s
  PROVE  SubSeq(s, 1, i - 1) \o SubSeq(s, i + 1, Len(s)) \in Seq(S)
<1>1. i \in 1..Len(s) /\ Len(s) \in Nat
  BY LenProperties
<1>2. SubSeq(s, 1, i - 1) \in Seq(S) /\ SubSeq(s, i + 1, Len(s)) \in Seq(S)
  <2>1. \A j \in 1..(i - 1) : s[j] \in S
    BY <1>1, ElementOfSeq
  <2>2. \A j \in (i + 1)..Len(s) : s[j] \in S
    BY <1>1, ElementOfSeq
  <2> QED BY <1>1, <2>1, <2>2, SubSeqProperties
<1> QED BY <1>2, ConcatProperties

LEMMA First ==
  ASSUME NEW S, NEW s \in Seq(S), s # <<>>
  PROVE  Head(s) \in S /\ Tail(s) \in Seq(S)
BY HeadTailProperties, EmptySeq

LEMMA TellType ==
  ASSUME TypeOK, NEW ms \in Seq(FromFsm), Tell(ms)
  PROVE  mailbox' \in Seq(FromFsm)
BY ConcatProperties DEF TypeOK, Tell

LEMMA Words ==
  /\ \A t \in {"headers", "error", "failover", "done"} : Msg(t, 0) \in FromFsm
  /\ \A t \in {"headers", "error", "failover"} : <<Msg(t, 0)>> \in Seq(FromFsm)
  /\ \A n \in Nat : <<Msg("chunk", n)>> \in Seq(FromFsm)
                    /\ LastWords(n) \in Seq(FromFsm)
<1>1. \A t \in {"headers", "error", "failover", "done"} : Msg(t, 0) \in FromFsm
  BY DEF Msg, FromFsm
<1>2. \A n \in Nat : Msg("chunk", n) \in FromFsm
  BY DEF Msg, FromFsm
<1> QED BY <1>1, <1>2, SmallSeqs DEF LastWords

LEMMA EndsType ==
  ASSUME TypeOK, NEW how \in {"failed", "word", "crash", "stop"}, Ends(how)
  PROVE  /\ fsm' \in [at : {"dead"}, fin : BOOLEAN, accumulated : Nat, inout : Nat]
         /\ fsm'.at = "dead" /\ fsm'.accumulated = fsm.accumulated
         /\ fsm'.inout = fsm.inout
         /\ inbox' \in Seq(FromGun) /\ gun' = "closed" /\ fate' = how
<1>1. inbox' \in Seq(FromGun)
  BY EmptySeq DEF Ends
<1> QED BY <1>1 DEF TypeOK, Ends, At

LEMMA AtType ==
  ASSUME TypeOK, NEW point \in {"connecting", "collecting", "streaming"}, At(point)
  PROVE  /\ fsm' \in [at : {point}, fin : BOOLEAN, accumulated : Nat, inout : Nat]
         /\ fsm'.at = point /\ fsm'.accumulated = fsm.accumulated
         /\ fsm'.inout = fsm.inout
BY DEF TypeOK, At

LEMMA InitType == Init => TypeOK
<1> SUFFICES ASSUME Init PROVE TypeOK
  OBVIOUS
<1>1. mailbox \in Seq(FromFsm) /\ inbox \in Seq(FromGun) /\ records \in Seq(Nat)
  BY EmptySeq DEF Init
<1> QED BY <1>1 DEF Init, TypeOK, Over

LEMMA FsmType == ASSUME TypeOK, FsmStep PROVE TypeOK'
<1> USE DEF Over
<1>1. CASE Open
  <2>1. mailbox' \in Seq(FromFsm)
    BY <1>1, TellType, Words DEF Open, TypeOK
  <2> QED BY <1>1, <2>1, AtType, EndsType DEF Open, TypeOK, reqVars
<1>2. CASE Connect
  <2> DEFINE m == Head(inbox)
  <2>1. m \in FromGun /\ Tail(inbox) \in Seq(FromGun)
    BY <1>2, First DEF Connect, TypeOK
  <2>2. mailbox' \in Seq(FromFsm)
    BY <1>2, TellType, Words DEF Connect, TypeOK
  <2>3. /\ fsm' \in [at : {"connecting", "judging", "streaming", "dead"},
                     fin : BOOLEAN, accumulated : Nat, inout : Nat]
        /\ inbox' \in Seq(FromGun) /\ gun' \in {gun, "closed"}
        /\ fate' \in {fate, "word", "crash", "stop"}
    <3>1. CASE At("streaming") /\ inbox' = Tail(inbox) /\ UNCHANGED <<gun, fate>>
      BY <3>1, <2>1, AtType
    <3>2. CASE /\ fsm' = [fsm EXCEPT !.at = "judging", !.fin = m.fin]
               /\ inbox' = Tail(inbox) /\ UNCHANGED <<gun, fate>>
      BY <3>2, <2>1 DEF TypeOK, FromGun
    <3>3. CASE Ends("word") \/ Ends("stop") \/ Ends("crash")
      BY <3>3, EndsType
    <3> QED BY <1>2, <3>1, <3>2, <3>3 DEF Connect
  <2> QED BY <1>2, <2>2, <2>3 DEF Connect, TypeOK, reqVars
<1>3. CASE Judge
  <2>1. mailbox' \in Seq(FromFsm)
    BY <1>3, TellType, Words DEF Judge, TypeOK
  <2> QED BY <1>3, <2>1, AtType, EndsType DEF Judge, TypeOK, reqVars
<1>4. CASE collect_error_body
  <2>1. mailbox' \in Seq(FromFsm)
    BY <1>4, TellType, Words DEF collect_error_body, TypeOK
  <2>2. \A i \in BodyAt :
          SubSeq(inbox, 1, i - 1) \o SubSeq(inbox, i + 1, Len(inbox)) \in Seq(FromGun)
    BY Cut DEF BodyAt, TypeOK
  <2>3. /\ fsm' \in [at : {"collecting", "dead"}, fin : BOOLEAN, accumulated : Nat, inout : Nat]
        /\ inbox' \in Seq(FromGun) /\ gun' \in {gun, "closed"}
        /\ fate' \in {fate, "word"}
    <3>1. CASE Ends("word")
      BY <3>1, EndsType
    <3>2. CASE \E i \in BodyAt :
            /\ inbox' = SubSeq(inbox, 1, i - 1) \o SubSeq(inbox, i + 1, Len(inbox))
            /\ UNCHANGED <<fsm, gun, fate>>
      BY <1>4, <2>2, <3>2 DEF collect_error_body, TypeOK
    <3> QED BY <1>4, <3>1, <3>2 DEF collect_error_body
  <2> QED BY <1>4, <2>1, <2>3 DEF collect_error_body, TypeOK, reqVars
<1>5. CASE Streaming
  <2> DEFINE m == Head(inbox)
  <2>1. m \in FromGun /\ Tail(inbox) \in Seq(FromGun)
    BY <1>5, First DEF Streaming, TypeOK
  <2>2. m.tokens \in Nat /\ m.inout \in Nat
    BY <2>1 DEF FromGun
  <2>3. CASE Forward(m)
    <3>1. mailbox' \in Seq(FromFsm)
      BY <2>3, <2>2, TellType, Words DEF Forward
    <3>2. /\ fsm' \in [at : {"streaming", "done", "dead"}, fin : BOOLEAN,
                       accumulated : Nat, inout : Nat]
          /\ inbox' \in Seq(FromGun) /\ gun' \in {gun, "closed"}
          /\ fate' \in {fate, "crash"}
      <4>1. CASE m.ok
        <5>1. fsm' = [at |-> IF m.fin THEN "done" ELSE "streaming", fin |-> fsm.fin,
                      accumulated |-> fsm.accumulated + m.tokens,
                      inout |-> fsm.inout + m.inout]
          BY <2>3, <4>1, <1>5 DEF Forward, TypeOK, Streaming
        <5>2. /\ fsm.fin \in BOOLEAN /\ fsm.accumulated + m.tokens \in Nat
              /\ fsm.inout + m.inout \in Nat
          BY <2>2 DEF TypeOK
        <5>3. inbox' = Tail(inbox) /\ gun' \in {gun, "closed"} /\ fate' = fate
          BY <2>3, <4>1 DEF Forward
        <5> QED BY <5>1, <5>2, <5>3, <2>1
      <4>2. CASE ~m.ok
        BY <2>3, <4>2, EndsType DEF Forward
      <4> QED BY <4>1, <4>2
    <3>3. forwarded' \in Nat /\ billable' \in Nat
      BY <2>2, <2>3 DEF Forward, TypeOK
    <3>4. UNCHANGED <<handler, reqVars, messages, records>>
      BY <1>5, <2>3 DEF Streaming, Forward
    <3> QED BY <3>1, <3>2, <3>3, <3>4 DEF TypeOK, reqVars
  <2>4. CASE /\ Tell(<<Msg("error", 0)>>)
             /\ record_partial_usage(fsm.accumulated, fsm.inout)
             /\ Ends("word") /\ UNCHANGED sent
    <3>1. mailbox' \in Seq(FromFsm)
      BY <2>4, TellType, Words
    <3>2. records' \in Seq(Nat)
      BY <2>4, AppendProperties DEF record_partial_usage, TypeOK
    <3> QED BY <1>5, <2>4, <3>1, <3>2, EndsType DEF Streaming, TypeOK, reqVars
  <2>5. CASE /\ Ends("stop") \/ Ends("crash")
             /\ UNCHANGED <<mailbox, records, sent>>
    BY <1>5, <2>5, EndsType DEF Streaming, TypeOK, reqVars
  <2> QED BY <1>5, <2>3, <2>4, <2>5 DEF Streaming
<1>6. CASE Finalize
  <2>1. records' \in Seq(Nat)
    BY <1>6, AppendProperties DEF Finalize, TypeOK
  <2> QED BY <1>6, <2>1, EndsType DEF Finalize, TypeOK, reqVars
<1> QED BY <1>1, <1>2, <1>3, <1>4, <1>5, <1>6 DEF FsmStep

LEMMA ClientType ==
  ASSUME TypeOK, Fails \/ (\E d \in BOOLEAN : Finishes(d))
  PROVE  /\ req' = "over"
         /\ client' \in [head : BOOLEAN, error : BOOLEAN, done : BOOLEAN,
                         fin : BOOLEAN, tokens : Nat]
         /\ client'.tokens = client.tokens
BY DEF TypeOK, Fails, Finishes

LEMMA Gets ==
  ASSUME TypeOK, NEW n \in Nat, client' = [client EXCEPT !.tokens = @ + n]
  PROVE  /\ client' = [head |-> client.head, error |-> client.error,
                       done |-> client.done, fin |-> client.fin,
                       tokens |-> client.tokens + n]
         /\ client' \in [head : BOOLEAN, error : BOOLEAN, done : BOOLEAN,
                         fin : BOOLEAN, tokens : Nat]
<1> DEFINE total == client.tokens + n
<1>1. /\ client \in [head : BOOLEAN, error : BOOLEAN, done : BOOLEAN,
                     fin : BOOLEAN, tokens : Nat]
      /\ total \in Nat /\ client' = [client EXCEPT !.tokens = total]
  BY DEF TypeOK
<1> HIDE DEF total
<1>2. client' = [head |-> client.head, error |-> client.error,
                 done |-> client.done, fin |-> client.fin, tokens |-> total]
  BY <1>1
<1> QED BY <1>1, <1>2 DEF total

LEMMA ReqType == ASSUME TypeOK, ReqStep \/ Kill PROVE TypeOK'
<1> USE DEF Over, fsmVars, gunVars
<1>1. CASE Start
  BY <1>1, ClientType DEF Start, Goes, TypeOK
<1>2. CASE Wait
  <2>1. mailbox' \in Seq(FromFsm)
    BY <1>2, First DEF Wait, TypeOK
  <2> QED BY <1>2, <2>1, ClientType DEF Wait, TypeOK
<1>3. CASE WaitTimesOut
  <2>1. Stop \in FromGun
    BY DEF Stop, Gun, NoUsage, FromGun
  <2>2. inbox' \in Seq(FromGun)
    BY <1>3, <2>1, AppendProperties DEF WaitTimesOut, TypeOK
  <2> QED BY <1>3, <2>2 DEF WaitTimesOut, Goes, TypeOK
<1>4. CASE StopReturns
  BY <1>4, ClientType DEF StopReturns, Goes, TypeOK
<1>5. CASE stream_loop
  <2>1. Head(mailbox) \in FromFsm /\ mailbox' \in Seq(FromFsm)
    BY <1>5, First DEF stream_loop, TypeOK
  <2>2. Head(mailbox).tokens \in Nat
    BY <2>1 DEF FromFsm
  <2>3. /\ req' \in {"looping", "over"}
        /\ client' \in [head : BOOLEAN, error : BOOLEAN, done : BOOLEAN,
                         fin : BOOLEAN, tokens : Nat]
    <3>1. CASE /\ client' = [client EXCEPT !.tokens = @ + Head(mailbox).tokens]
               /\ UNCHANGED req
      <4>1. req = "looping"
        BY <1>5 DEF stream_loop
      <4> QED BY <4>1, <3>1, <2>2, Gets
    <3>2. CASE Finishes(TRUE) \/ Finishes(FALSE)
      BY <3>2, ClientType, Zenon
    <3> QED BY <1>5, <3>1, <3>2 DEF stream_loop
  <2> QED BY <1>5, <2>1, <2>3 DEF stream_loop, TypeOK
<1>6. CASE LoopTimesOut
  BY <1>6, ClientType DEF LoopTimesOut, TypeOK
<1>7. CASE Kill
  BY <1>7 DEF Kill, Goes, TypeOK
<1> QED BY <1>1, <1>2, <1>3, <1>4, <1>5, <1>6, <1>7 DEF ReqStep

LEMMA GunType == ASSUME TypeOK, GunStep PROVE TypeOK'
<1>1. \A t \in {"response", "data", "error", "DOWN", "other"}, ok, fin \in BOOLEAN,
        u \in Tokens \cup {NoUsage} : Gun(t, ok, fin, u) \in FromGun
  BY DEF Gun, NoUsage, FromGun
<1>2. ASSUME NEW m \in FromGun, NEW state \in {"asked", "body", "over"},
             Sends(m, state), messages' \in Nat
      PROVE  TypeOK'
  <2>1. inbox' \in Seq(FromGun)
    BY <1>2, AppendProperties DEF Sends, TypeOK
  <2> QED BY <1>2, <2>1 DEF Sends, TypeOK, reqVars
<1>3. messages' \in Nat
  <2>1. UNCHANGED messages \/ Counted
    BY Zenon DEF GunStep, Response, Piece, Unexpected, Breaks
  <2> QED BY <2>1 DEF Counted, TypeOK
<1>4. \E m \in FromGun, state \in {"asked", "body", "over"} : Sends(m, state)
  <2>1. CASE Response
    BY <2>1, <1>1 DEF Response
  <2>2. CASE Piece
    BY <2>2, <1>1 DEF Piece
  <2>3. CASE Unexpected
    BY <2>3, <1>1 DEF Unexpected
  <2>4. CASE Breaks
    BY <2>4, <1>1 DEF Breaks
  <2> QED BY <2>1, <2>2, <2>3, <2>4 DEF GunStep
<1> QED BY <1>2, <1>3, <1>4

LEMMA TypeStep == TypeOK /\ [Next]_vars => TypeOK'
<1> SUFFICES ASSUME TypeOK, [Next]_vars PROVE TypeOK'
  OBVIOUS
<1>1. CASE UNCHANGED vars
  BY <1>1 DEF vars, reqVars, fsmVars, gunVars, TypeOK
<1> QED BY <1>1, FsmType, ReqType, GunType DEF Next

\* Every value the processes and their mailboxes hold has its type.
THEOREM TypeCorrect == Spec => []TypeOK
<1> QED BY InitType, TypeStep, PTL DEF Spec

----------------------------------------------------------------------------
(* What is logged. *)

\* What is forwarded is what is accumulated, of either kind, until it is logged.
Book ==
  /\ fate = "none" <=> fsm.at # "dead"
  /\ fate = "none" => /\ records = <<>> /\ fsm.accumulated = forwarded
                       /\ fsm.inout = billable
  /\ billable <= forwarded
  /\ fsm.at \in {"opening", "connecting", "judging", "collecting"} => forwarded = 0
  /\ UsageAccounted

LEMMA BookInit == Init => Book
BY DEF Init, Book, UsageAccounted

LEMMA BookSame ==
  ASSUME Book, UNCHANGED <<fsm, records, fate, sent>>
  PROVE  Book'
BY DEF Book, UsageAccounted

\* Nothing is logged at an end that logs nothing.
LEMMA BookEnds ==
  ASSUME TypeOK, Book, NEW how \in {"failed", "word", "crash", "stop"}, Ends(how),
         fate = "none", records' = records, billable' \in Nat, forwarded' \in Nat,
         billable' <= forwarded', how = "word" => forwarded' = 0
  PROVE  Book'
<1>1. fsm'.at = "dead" /\ fate' = how
  BY EndsType
<1> QED BY <1>1 DEF Book, UsageAccounted

LEMMA BookLogged ==
  ASSUME TypeOK, Book, Ends("word"), fate = "none", UNCHANGED sent,
         \/ records' = Append(records, forwarded)
         \/ records' = records /\ billable = 0
  PROVE  Book'
<1>1. fsm'.at = "dead" /\ fate' = "word"
  BY EndsType
<1>2. records = <<>> /\ Append(records, forwarded) = <<forwarded>>
  BY DEF Book
<1> QED BY <1>1, <1>2 DEF Book, UsageAccounted

LEMMA BookFsm == ASSUME TypeOK, Book, FsmStep PROVE Book'
<1> USE DEF TypeOK
<1>1. CASE Open
  <2>1. CASE At("connecting") /\ UNCHANGED fate
    BY <1>1, <2>1, AtType DEF Open, Book, UsageAccounted
  <2>2. CASE Ends("failed")
    BY <1>1, <2>2, BookEnds DEF Open, Book
  <2> QED BY <1>1, <2>1, <2>2 DEF Open
<1>2. CASE Connect
  <2> DEFINE m == Head(inbox)
  <2>1. CASE At("streaming") /\ UNCHANGED fate
    BY <1>2, <2>1, AtType DEF Connect, Book, UsageAccounted
  <2>2. CASE fsm' = [fsm EXCEPT !.at = "judging", !.fin = m.fin] /\ UNCHANGED fate
    BY <1>2, <2>2 DEF Connect, Book, UsageAccounted
  <2>3. CASE Ends("word") \/ Ends("stop") \/ Ends("crash")
    BY <1>2, <2>3, BookEnds DEF Connect, Book
  <2> QED BY <1>2, <2>1, <2>2, <2>3 DEF Connect
<1>3. CASE Judge
  <2>1. CASE At("collecting") /\ UNCHANGED fate
    BY <1>3, <2>1, AtType DEF Judge, Book, UsageAccounted
  <2>2. CASE Ends("word") \/ Ends("crash")
    BY <1>3, <2>2, BookEnds DEF Judge, Book
  <2> QED BY <1>3, <2>1, <2>2 DEF Judge
<1>4. CASE collect_error_body
  <2>1. CASE Ends("word")
    BY <1>4, <2>1, BookEnds DEF collect_error_body, Book
  <2>2. CASE UNCHANGED <<fsm, fate>>
    BY <1>4, <2>2, BookSame DEF collect_error_body
  <2> QED BY <1>4, <2>1, <2>2 DEF collect_error_body
<1>5. CASE Streaming
  <2> DEFINE m == Head(inbox)
  <2>1. m \in FromGun /\ m.tokens \in Nat /\ m.inout \in Nat /\ m.inout <= m.tokens
    <3>1. m \in FromGun
      BY <1>5, First DEF Streaming
    <3> QED BY <3>1 DEF FromGun
  <2>2. fsm.at = "streaming" /\ fate = "none"
    BY <1>5 DEF Streaming, Book
  <2>3. CASE Forward(m)
    <3>1. CASE m.ok
      <4>1. /\ fsm' = [fsm EXCEPT !.accumulated = @ + m.tokens,
                                  !.inout = @ + m.inout,
                                  !.at = IF m.fin THEN "done" ELSE @]
            /\ forwarded' = forwarded + m.tokens /\ billable' = billable + m.inout
            /\ UNCHANGED <<records, fate>>
        BY <2>3, <3>1 DEF Forward
      <4>2. /\ fsm'.at = (IF m.fin THEN "done" ELSE "streaming")
            /\ fsm'.accumulated = fsm.accumulated + m.tokens
            /\ fsm'.inout = fsm.inout + m.inout
        BY <4>1, <2>2
      <4> QED BY <4>1, <4>2, <2>1, <2>2 DEF Book, UsageAccounted
    <3>2. CASE ~m.ok
      <4>1. Ends("crash") /\ records' = records
        BY <2>3, <3>2 DEF Forward
      <4>2. forwarded' = forwarded + m.tokens /\ billable' = billable + m.inout
        BY <2>3 DEF Forward
      <4>3. billable \in Nat /\ forwarded \in Nat /\ billable <= forwarded
        BY DEF Book
      <4>4. ASSUME NEW n \in Nat, NEW k \in Nat, k <= n,
                   forwarded' = forwarded + n, billable' = billable + k
            PROVE  billable' \in Nat /\ forwarded' \in Nat /\ billable' <= forwarded'
        BY <4>3, <4>4
      <4>5. billable' \in Nat /\ forwarded' \in Nat /\ billable' <= forwarded'
        BY <2>1, <4>2, <4>4
      <4> QED BY <2>2, <4>1, <4>5, BookEnds
    <3> QED BY <3>1, <3>2
  <2>4. CASE /\ record_partial_usage(fsm.accumulated, fsm.inout)
             /\ Ends("word") /\ UNCHANGED sent
    BY <2>2, <2>4, BookLogged DEF record_partial_usage, Book
  <2>5. CASE (Ends("stop") \/ Ends("crash")) /\ UNCHANGED <<records, sent>>
    <3>1. forwarded' = forwarded /\ billable' = billable
      BY <2>5
    <3>2. billable' \in Nat /\ forwarded' \in Nat /\ billable' <= forwarded'
      BY <3>1 DEF Book
    <3> QED BY <2>2, <2>5, <3>2, BookEnds
  <2> QED BY <1>5, <2>3, <2>4, <2>5 DEF Streaming
<1>6. CASE Finalize
  BY <1>6, BookLogged DEF Finalize, Book
<1> QED BY <1>1, <1>2, <1>3, <1>4, <1>5, <1>6 DEF FsmStep

LEMMA BookStep == TypeOK /\ Book /\ [Next]_vars => Book'
<1> SUFFICES ASSUME TypeOK, Book, [Next]_vars PROVE Book'
  OBVIOUS
<1>1. CASE UNCHANGED vars
  BY <1>1, BookSame DEF vars, fsmVars
<1>2. CASE ReqStep \/ Kill
  BY <1>2, BookSame DEF ReqStep, Kill, Start, Wait, WaitTimesOut, StopReturns,
     stream_loop, LoopTimesOut, fsmVars
<1>3. CASE GunStep
  BY <1>3, BookSame DEF GunStep, Response, Piece, Unexpected, Breaks, Sends
<1> QED BY <1>1, <1>2, <1>3, BookFsm DEF Next

\* A stream that is over is logged once, with the tokens of all its forwarded
\* events, unless it crashed, was stopped, or broke off with no input or output
\* tokens reported.
THEOREM UsageLogged == Spec => []UsageAccounted
<1>1. Spec => [](TypeOK /\ Book)
  BY InitType, BookInit, TypeStep, BookStep, PTL DEF Spec
<1>2. Book => UsageAccounted
  BY DEF Book
<1> QED BY <1>1, <1>2, PTL

----------------------------------------------------------------------------
(* What is delivered.  A path from a to b along a sequence of messages adds  *)
(* up their tokens, never beyond b: it stands for a sum, which would have to *)
(* be recursive.                                                             *)

Path(s, a, b) ==
  \E f \in [0..Len(s) -> 0..b] :
     /\ f[0] = a /\ f[Len(s)] = b
     /\ \A i \in 1..Len(s) : f[i] = f[i - 1] + s[i].tokens

LEMMA PathEmpty == ASSUME NEW a \in Nat, NEW b \in Nat PROVE Path(<<>>, a, b) <=> a = b
<1>1. Len(<<>>) = 0
  BY EmptySeq
<1>2. Path(<<>>, a, b) => a = b
  BY <1>1 DEF Path
<1>3. ASSUME a = b PROVE Path(<<>>, a, b)
  <2> DEFINE f == [i \in 0..0 |-> a]
  <2>1. f \in [0..0 -> 0..b] /\ f[0] = a
    BY <1>3
  <2> HIDE DEF f
  <2>2. \A i \in 1..0 : f[i] = f[i - 1] + (<<>>)[i].tokens
    OBVIOUS
  <2> QED BY <1>1, <1>3, <2>1, <2>2 DEF Path
<1> QED BY <1>2, <1>3

LEMMA PathAppend ==
  ASSUME NEW s \in Seq(FromFsm), NEW m \in FromFsm, NEW a \in Nat, NEW b \in Nat,
         Path(s, a, b)
  PROVE  Path(Append(s, m), a, b + m.tokens)
<1> DEFINE t == Append(s, m)
           k == Len(s)
<1>1. /\ k \in Nat /\ Len(t) = k + 1 /\ t[k + 1] = m
      /\ \A i \in 1..k : t[i] = s[i]
  BY AppendProperties, LenProperties
<1>2. m.tokens \in Nat
  BY DEF FromFsm
<1> HIDE DEF t
<1>3. PICK f \in [0..k -> 0..b] :
        /\ f[0] = a /\ f[k] = b
        /\ \A i \in 1..k : f[i] = f[i - 1] + s[i].tokens
  BY DEF Path
<1> HIDE DEF k
<1> DEFINE g == [i \in 0..(k + 1) |-> IF i = k + 1 THEN b + m.tokens ELSE f[i]]
<1>4. g \in [0..(k + 1) -> 0..(b + m.tokens)] /\ g[0] = a /\ g[k + 1] = b + m.tokens
  BY <1>1, <1>2, <1>3
<1>5. \A i \in 1..(k + 1) : g[i] = g[i - 1] + t[i].tokens
  <2> SUFFICES ASSUME NEW i \in 1..(k + 1) PROVE g[i] = g[i - 1] + t[i].tokens
    OBVIOUS
  <2>1. CASE i = k + 1
    BY <1>1, <1>2, <1>3, <2>1
  <2>2. CASE i # k + 1
    <3>1. i \in 1..k /\ i - 1 \in 0..k /\ i \in 0..k /\ i - 1 # k + 1
      BY <1>1, <2>2
    <3>2. g[i] = f[i] /\ g[i - 1] = f[i - 1]
      BY <3>1, <1>1, <2>2
    <3>3. t[i] = s[i] /\ f[i] = f[i - 1] + s[i].tokens
      BY <3>1, <1>1, <1>3
    <3> QED BY <3>2, <3>3
  <2> QED BY <2>1, <2>2
<1> HIDE DEF g
<1>6. \E h \in [0..Len(t) -> 0..(b + m.tokens)] :
        /\ h[0] = a /\ h[Len(t)] = b + m.tokens
        /\ \A i \in 1..Len(t) : h[i] = h[i - 1] + t[i].tokens
  BY <1>1, <1>4, <1>5
<1> QED BY <1>6 DEF Path, t

LEMMA PathTail ==
  ASSUME NEW s \in Seq(FromFsm), s # <<>>, NEW a \in Nat, NEW b \in Nat,
         Path(s, a, b)
  PROVE  Path(Tail(s), a + Head(s).tokens, b)
<1> DEFINE t == Tail(s)
           k == Len(t)
<1>1. /\ t \in Seq(FromFsm) /\ k \in Nat /\ Len(s) = k + 1
      /\ \A i \in 1..k : t[i] = s[i + 1]
      /\ Head(s) = s[1]
  BY HeadTailProperties, LenProperties, EmptySeq
<1> HIDE DEF t, k
<1>2. PICK f \in [0..(k + 1) -> 0..b] :
        /\ f[0] = a /\ f[k + 1] = b
        /\ \A i \in 1..(k + 1) : f[i] = f[i - 1] + s[i].tokens
  BY <1>1 DEF Path
<1> DEFINE g == [i \in 0..k |-> f[i + 1]]
<1>3. g \in [0..k -> 0..b] /\ g[k] = b
  BY <1>1, <1>2
<1>4. g[0] = a + Head(s).tokens
  BY <1>1, <1>2
<1>5. ASSUME NEW i \in 1..k PROVE g[i] = g[i - 1] + t[i].tokens
  <2>1. i \in 0..k /\ i - 1 \in 0..k /\ i + 1 \in 1..(k + 1) /\ (i + 1) - 1 = i
        /\ (i - 1) + 1 = i
    BY <1>1
  <2>2. g[i] = f[i + 1] /\ g[i - 1] = f[i]
    BY <2>1
  <2>3. f[i + 1] = f[i] + s[i + 1].tokens
    BY <2>1, <1>2
  <2> QED BY <2>2, <2>3, <1>1
<1> HIDE DEF g
<1>6. \E h \in [0..Len(t) -> 0..b] :
        /\ h[0] = a + Head(s).tokens /\ h[Len(t)] = b
        /\ \A i \in 1..Len(t) : h[i] = h[i - 1] + t[i].tokens
  BY <1>3, <1>4, <1>5 DEF k
<1> QED BY <1>6 DEF Path, t

LEMMA PathBound ==
  ASSUME NEW s \in Seq(FromFsm), NEW a \in Nat, NEW b \in Nat, Path(s, a, b)
  PROVE  a <= b
<1>1. Len(s) \in Nat
  BY LenProperties
<1>2. PICK f \in [0..Len(s) -> 0..b] : f[0] = a
  BY DEF Path
<1>3. f[0] \in 0..b
  BY <1>1, <1>2
<1> QED BY <1>2, <1>3

\* Only chunks report tokens, and nothing follows the end.
Letters(s) ==
  \A i \in 1..Len(s) : /\ s[i].type # "chunk" => s[i].tokens = 0
                       /\ s[i].type = "done" => i = Len(s)

NoEnd(s) == \A i \in 1..Len(s) : s[i].type # "done"

LEMMA MailAppend ==
  ASSUME NEW s \in Seq(FromFsm), NEW m \in FromFsm, Letters(s), NoEnd(s),
         m.type # "chunk" => m.tokens = 0
  PROVE  /\ Letters(Append(s, m))
         /\ m.type # "done" => NoEnd(Append(s, m))
<1> DEFINE t == Append(s, m)
           k == Len(s)
<1>1. /\ k \in Nat /\ Len(t) = k + 1 /\ t[k + 1] = m
      /\ \A i \in 1..k : t[i] = s[i]
  BY AppendProperties, LenProperties
<1> HIDE DEF t
<1>2. \A i \in 1..(k + 1) : i = k + 1 \/ i \in 1..k
  BY <1>1
<1>3. Letters(t)
  BY <1>1, <1>2 DEF Letters, NoEnd
<1>4. m.type # "done" => NoEnd(t)
  BY <1>1, <1>2 DEF NoEnd
<1> QED BY <1>3, <1>4 DEF t

LEMMA MailTail ==
  ASSUME NEW s \in Seq(FromFsm), s # <<>>, Letters(s)
  PROVE  /\ Letters(Tail(s)) /\ (NoEnd(s) => NoEnd(Tail(s)) /\ Head(s).type # "done")
         /\ Head(s).type = "done" => Tail(s) = <<>> /\ ~NoEnd(s)
         /\ Head(s).type # "chunk" => Head(s).tokens = 0
         /\ ~NoEnd(Tail(s)) => ~NoEnd(s)
<1> DEFINE t == Tail(s)
           k == Len(t)
<1>1. /\ t \in Seq(FromFsm) /\ k \in Nat /\ Len(s) = k + 1
      /\ \A i \in 1..k : t[i] = s[i + 1]
      /\ Head(s) = s[1]
  BY HeadTailProperties, LenProperties, EmptySeq
<1> HIDE DEF t, k
<1>2. Letters(t)
  BY <1>1 DEF Letters, k
<1>3. NoEnd(s) => NoEnd(t) /\ Head(s).type # "done"
  BY <1>1 DEF NoEnd, k
<1>4. ASSUME Head(s).type = "done" PROVE t = <<>> /\ ~NoEnd(s)
  <2>1. k = 0 /\ ~NoEnd(s)
    BY <1>1, <1>4 DEF Letters, NoEnd
  <2> QED BY <2>1, <1>1, EmptySeq DEF k
<1>5. Head(s).type # "chunk" => Head(s).tokens = 0
  BY <1>1 DEF Letters
<1> QED BY <1>2, <1>3, <1>4, <1>5 DEF t

\* The client has, or finds in the mailbox, what was forwarded; the end comes
\* after all of it, and with it what is logged.
Mail ==
  /\ Letters(mailbox)
  /\ req \notin Over => Path(mailbox, client.tokens, forwarded)
  /\ client.done => req \in Over /\ client.tokens = forwarded
  /\ fsm.at \notin {"done", "dead"} => NoEnd(mailbox) /\ ~client.done
  /\ fsm.at = "dead" /\ (client.done \/ ~NoEnd(mailbox)) => records = <<forwarded>>

LEMMA MailInit == Init => Mail
<1> SUFFICES ASSUME Init PROVE Mail
  OBVIOUS
<1>1. Letters(mailbox) /\ NoEnd(mailbox)
  BY EmptySeq DEF Init, Letters, NoEnd
<1>2. Path(mailbox, client.tokens, forwarded)
  BY PathEmpty DEF Init
<1> QED BY <1>1, <1>2 DEF Init, Mail

\* What a step of the stream process does to the mailbox: nothing, one message
\* that is not the end, or the last words.
Quiet ==
  /\ UNCHANGED <<mailbox, forwarded>>
  /\ fsm.at # "done" => fsm'.at # "done" /\ UNCHANGED records

Speaks(m) ==
  /\ m.type # "done" /\ (m.type # "chunk" => m.tokens = 0)
  /\ Tell(<<m>>) /\ forwarded' = forwarded + m.tokens
  /\ fsm.at # "done" /\ fsm'.at # "done"

SaysLast(n) ==
  /\ Tell(LastWords(n)) /\ forwarded' = forwarded + n
  /\ fsm.at # "done" /\ fsm'.at = "done"

LEMMA Shapes ==
  ASSUME TypeOK, Book, FsmStep
  PROVE  /\ fsm.at # "dead" /\ UNCHANGED reqVars
         /\ fsm.at = "done" =>
              /\ Quiet /\ fsm'.at = "dead" /\ records' = <<forwarded>>
         /\ \/ Quiet
            \/ \E m \in FromFsm : Speaks(m)
            \/ \E n \in Nat : SaysLast(n)
<1> DEFINE Error == Msg("error", 0)
<1>1. /\ \A t \in {"headers", "error", "failover"} :
            Msg(t, 0) \in FromFsm /\ Msg(t, 0).tokens = 0 /\ Msg(t, 0).type = t
      /\ \A n \in Nat :
            /\ Msg("chunk", n) \in FromFsm
            /\ Msg("chunk", n).tokens = n /\ Msg("chunk", n).type = "chunk"
  BY DEF Msg, FromFsm
<1>2. ASSUME NEW t \in {"headers", "error", "failover"}, Tell(<<Msg(t, 0)>>),
             fsm.at # "done", fsm'.at # "done", UNCHANGED sent
      PROVE  \E m \in FromFsm : Speaks(m)
  <2>1. Speaks(Msg(t, 0))
    BY <1>1, <1>2 DEF Speaks, TypeOK
  <2> QED BY <2>1, <1>1
<1>3. CASE Open
  <2>1. fsm'.at # "done"
    BY <1>3, AtType, EndsType DEF Open
  <2> QED BY <1>2, <1>3, <2>1 DEF Open, Quiet
<1>4. CASE Connect
  <2>1. fsm'.at # "done"
    BY <1>4, AtType, EndsType DEF Connect, TypeOK
  <2>2. CASE UNCHANGED mailbox
    BY <1>4, <2>1, <2>2 DEF Connect, Quiet
  <2>3. CASE Tell(<<Msg("headers", 0)>>) \/ Tell(<<Msg("error", 0)>>)
    BY <1>2, <1>4, <2>1, <2>3 DEF Connect
  <2>4. UNCHANGED mailbox \/ Tell(<<Msg("headers", 0)>>) \/ Tell(<<Msg("error", 0)>>)
    BY <1>4 DEF Connect
  <2> QED BY <1>4, <2>2, <2>3, <2>4 DEF Connect
<1>5. CASE Judge
  <2>1. fsm'.at # "done"
    BY <1>5, AtType, EndsType DEF Judge
  <2> QED BY <1>2, <1>5, <2>1 DEF Judge, Quiet
<1>6. CASE collect_error_body
  <2>1. fsm'.at # "done"
    BY <1>6, EndsType DEF collect_error_body
  <2> QED BY <1>2, <1>6, <2>1 DEF collect_error_body, Quiet
<1>7. CASE Streaming
  <2> DEFINE m == Head(inbox)
  <2>1. m \in FromGun /\ m.tokens \in Nat
    <3>1. m \in FromGun
      BY <1>7, First DEF Streaming, TypeOK
    <3> QED BY <3>1 DEF FromGun
  <2>2. fsm.at = "streaming" /\ UNCHANGED reqVars
    BY <1>7 DEF Streaming
  <2>3. CASE Forward(m)
    <3> DEFINE c == Msg("chunk", m.tokens)
    <3>1. CASE m.ok /\ m.fin
      <4>1. SaysLast(m.tokens)
        BY <2>2, <2>3, <3>1 DEF Forward, SaysLast, TypeOK
      <4> QED BY <4>1, <2>1, <2>2
    <3>2. CASE ~(m.ok /\ m.fin)
      <4>1. fsm'.at # "done" /\ Tell(<<c>>) /\ forwarded' = forwarded + m.tokens
        BY <2>2, <2>3, <3>2, EndsType DEF Forward, TypeOK
      <4>2. Speaks(c)
        BY <4>1, <1>1, <2>1, <2>2 DEF Speaks
      <4> QED BY <4>2, <1>1, <2>1, <2>2
    <3> QED BY <3>1, <3>2
  <2>4. CASE Tell(<<Error>>) /\ Ends("word") /\ UNCHANGED sent
    BY <1>2, <2>2, <2>4, EndsType
  <2>5. CASE /\ Ends("stop") \/ Ends("crash")
             /\ UNCHANGED <<mailbox, records, sent>>
    BY <2>2, <2>5, EndsType DEF Quiet
  <2> QED BY <1>7, <2>3, <2>4, <2>5 DEF Streaming
<1>8. CASE Finalize
  <2>1. records' = <<forwarded>>
    BY <1>8 DEF Finalize, Book
  <2>2. fsm'.at = "dead"
    BY <1>8, EndsType DEF Finalize
  <2> QED BY <1>8, <2>1, <2>2 DEF Finalize, Quiet, reqVars
<1> QED BY <1>3, <1>4, <1>5, <1>6, <1>7, <1>8 DEF FsmStep

LEMMA OneMore ==
  ASSUME NEW S, NEW s \in Seq(S), NEW a \in S, NEW b \in S
  PROVE  s \o <<a>> = Append(s, a) /\ s \o <<a, b>> = Append(Append(s, a), b)
         /\ Append(s, a) \in Seq(S)
OBVIOUS

LEMMA MailFsm == ASSUME TypeOK, Book, Mail, FsmStep PROVE Mail'
<1> USE DEF reqVars
<1>1. CASE fsm.at = "done"
  <2>1. Quiet /\ fsm'.at = "dead" /\ records' = <<forwarded>> /\ UNCHANGED reqVars
    BY <1>1, Shapes
  <2> QED BY <1>1, <2>1 DEF Mail, Quiet
<1>2. CASE fsm.at # "done"
  <2>1. fsm.at \notin {"done", "dead"} /\ UNCHANGED reqVars
    BY <1>2, Shapes
  <2>2. Letters(mailbox) /\ NoEnd(mailbox) /\ ~client.done /\ ~client'.done
    BY <2>1 DEF Mail
  <2>3. CASE Quiet
    BY <1>2, <2>1, <2>2, <2>3 DEF Mail, Quiet
  <2>4. ASSUME NEW m \in FromFsm, Speaks(m) PROVE Mail'
    <3>1. CASE req \in Over
      <4>1. mailbox' = mailbox
        BY <2>4, <3>1 DEF Speaks, Tell
      <4> QED BY <4>1, <2>1, <2>2, <2>4, <3>1 DEF Mail, Speaks
    <3>2. CASE req \notin Over
      <4>1. mailbox' = Append(mailbox, m)
        BY <2>4, <3>2, OneMore DEF Speaks, Tell, TypeOK
      <4>2. Letters(mailbox') /\ NoEnd(mailbox')
        BY <4>1, <2>2, <2>4, MailAppend DEF Speaks, TypeOK
      <4>3. client.tokens \in Nat /\ forwarded \in Nat /\ mailbox \in Seq(FromFsm)
        BY DEF TypeOK
      <4>4. Path(mailbox, client.tokens, forwarded)
        BY <3>2 DEF Mail
      <4>5. Path(Append(mailbox, m), client.tokens, forwarded + m.tokens)
        BY <4>3, <4>4, PathAppend
      <4>6. Path(mailbox, client.tokens, forwarded)'
        BY <4>1, <4>5, <2>1, <2>4 DEF Speaks
      <4> QED BY <4>2, <4>6, <2>2 DEF Mail
    <3> QED BY <3>1, <3>2
  <2>5. ASSUME NEW n \in Nat, SaysLast(n) PROVE Mail'
    <3>1. CASE req \in Over
      <4>1. mailbox' = mailbox
        BY <2>5, <3>1 DEF SaysLast, Tell
      <4> QED BY <4>1, <2>1, <2>2, <2>5, <3>1 DEF Mail, SaysLast
    <3>2. CASE req \notin Over
      <4> DEFINE c == Msg("chunk", n)
                 d == Msg("done", 0)
                 s == Append(mailbox, c)
      <4>1. c \in FromFsm /\ c.type = "chunk" /\ c.tokens = n
            /\ d \in FromFsm /\ d.type = "done" /\ d.tokens = 0
        BY DEF Msg, FromFsm
      <4>2. client.tokens \in Nat /\ forwarded \in Nat /\ mailbox \in Seq(FromFsm)
        BY DEF TypeOK
      <4> HIDE DEF c, d
      <4>3. mailbox' = Append(s, d) /\ s \in Seq(FromFsm)
        BY <2>5, <3>2, <4>1, <4>2, OneMore DEF SaysLast, Tell, LastWords, c, d
      <4>4. Letters(s) /\ NoEnd(s)
        BY <2>2, <4>1, <4>2, MailAppend
      <4>5. Path(s, client.tokens, forwarded + n)
        <5>1. Path(mailbox, client.tokens, forwarded)
          BY <3>2 DEF Mail
        <5>2. Path(s, client.tokens, forwarded + c.tokens)
          BY <5>1, <4>1, <4>2, PathAppend
        <5> QED BY <5>2, <4>1
      <4> HIDE DEF s
      <4>6. Letters(mailbox')
        BY <4>1, <4>3, <4>4, MailAppend
      <4>7. Path(mailbox, client.tokens, forwarded)'
        <5>1. forwarded + n \in Nat /\ (forwarded + n) + d.tokens = forwarded + n
          BY <4>1, <4>2
        <5>2. Path(Append(s, d), client.tokens, (forwarded + n) + d.tokens)
          BY <5>1, <4>1, <4>2, <4>3, <4>5, PathAppend
        <5> QED BY <5>1, <5>2, <4>3, <2>1, <2>5 DEF SaysLast
      <4> QED BY <4>6, <4>7, <2>2, <2>5 DEF Mail, SaysLast
    <3> QED BY <3>1, <3>2
  <2> QED BY <2>3, <2>4, <2>5, Shapes
<1> QED BY <1>1, <1>2

LEMMA MailReq == ASSUME TypeOK, Book, Mail, ReqStep \/ Kill PROVE Mail'
<1> USE DEF fsmVars, gunVars
<1>1. mailbox \in Seq(FromFsm) /\ client.tokens \in Nat /\ forwarded \in Nat
  BY DEF TypeOK
\* The request ends, or goes on, and has read nothing.
<1>2. ASSUME client'.tokens = client.tokens, client'.done => client.done,
             UNCHANGED <<mailbox, fsm, records, forwarded>>,
             req \in Over => req' \in Over
      PROVE  Mail'
  BY <1>2 DEF Mail
<1>3. ASSUME Fails \/ Finishes(FALSE), req \notin Over
      PROVE  /\ client'.tokens = client.tokens /\ ~client'.done
             /\ ~client.done /\ req' \in Over
  BY <1>3 DEF Fails, Finishes, Over, Mail, TypeOK
<1>4. CASE Start
  <2>1. req \notin Over /\ UNCHANGED <<mailbox, fsm, records, forwarded>>
    BY <1>4 DEF Start, Over
  <2>2. Fails \/ UNCHANGED client
    BY <1>4 DEF Start, Goes
  <2> QED BY <2>1, <2>2, <1>2, <1>3
<1>5. CASE Wait
  <2> DEFINE m == Head(mailbox)
  <2>1. /\ req \notin Over /\ mailbox # <<>> /\ mailbox' = Tail(mailbox)
        /\ UNCHANGED <<fsm, records, forwarded>>
    BY <1>5 DEF Wait, Over
  <2>2. Path(Tail(mailbox), client.tokens + m.tokens, forwarded)
    <3>1. Path(mailbox, client.tokens, forwarded)
      BY <2>1 DEF Mail
    <3> QED BY <3>1, <1>1, <2>1, PathTail
  <2>3. /\ Letters(Tail(mailbox)) /\ (NoEnd(mailbox) => NoEnd(Tail(mailbox)))
        /\ (m.type # "chunk" => m.tokens = 0)
        /\ (~NoEnd(Tail(mailbox)) => ~NoEnd(mailbox))
    BY <1>1, <2>1, MailTail DEF Mail
  <2>4. ~client.done
    BY <2>1 DEF Mail
  <2>5. CASE m.type = "headers"
    <3>1. /\ client' = [client EXCEPT !.head = TRUE]
          /\ client'.tokens = client.tokens /\ client'.done = client.done
      BY <1>5, <2>5 DEF Wait, TypeOK
    <3>2. Path(mailbox', client'.tokens, forwarded')
      BY <2>1, <2>2, <2>3, <2>5, <3>1, <1>1
    <3> QED BY <2>1, <2>3, <2>4, <3>1, <3>2 DEF Mail
  <2>6. CASE m.type # "headers"
    <3>1. client'.tokens = client.tokens /\ ~client'.done /\ req' \in Over
      BY <1>3, <1>5, <2>1, <2>6 DEF Wait
    <3> QED BY <2>1, <2>3, <2>4, <3>1 DEF Mail
  <2> QED BY <2>5, <2>6
<1>6. CASE WaitTimesOut
  BY <1>2, <1>6 DEF WaitTimesOut, Goes, Over
<1>7. CASE StopReturns
  <2>1. req \notin Over /\ UNCHANGED <<mailbox, fsm, records, forwarded>>
    BY <1>7 DEF StopReturns, Over
  <2>2. Fails \/ UNCHANGED client
    BY <1>7 DEF StopReturns, Goes
  <2> QED BY <2>1, <2>2, <1>2, <1>3
<1>8. CASE stream_loop
  <2> DEFINE m == Head(mailbox)
  <2>1. /\ req \notin Over /\ mailbox # <<>> /\ mailbox' = Tail(mailbox)
        /\ UNCHANGED <<fsm, records, forwarded>>
    BY <1>8 DEF stream_loop, Over
  <2>2. m.tokens \in Nat /\ Path(Tail(mailbox), client.tokens + m.tokens, forwarded)
    <3>1. Path(mailbox, client.tokens, forwarded)
      BY <2>1 DEF Mail
    <3>2. m \in FromFsm
      BY <1>1, <2>1, First
    <3>3. m.tokens \in Nat
      BY <3>2 DEF FromFsm
    <3> QED BY <3>1, <3>3, <1>1, <2>1, PathTail
  <2>3. /\ Letters(Tail(mailbox)) /\ (NoEnd(mailbox) => NoEnd(Tail(mailbox)))
        /\ (m.type # "chunk" => m.tokens = 0)
        /\ (~NoEnd(Tail(mailbox)) => ~NoEnd(mailbox))
        /\ (m.type = "done" => Tail(mailbox) = <<>> /\ ~NoEnd(mailbox))
    BY <1>1, <2>1, MailTail DEF Mail
  <2>4. ~client.done
    BY <2>1 DEF Mail
  <2>5. CASE m.type = "chunk" /\ UNCHANGED req
    <3>1. client'.tokens = client.tokens + m.tokens /\ client'.done = client.done
      <4>1. client' = [client EXCEPT !.tokens = @ + m.tokens]
        BY <1>8, <2>5 DEF stream_loop, Finishes
      <4> QED BY <4>1, <2>2, Gets
    <3>2. Path(mailbox', client'.tokens, forwarded')
      BY <2>1, <2>2, <3>1
    <3> QED BY <2>1, <2>3, <2>4, <3>1, <3>2 DEF Mail
  <2>6. CASE m.type = "done"
    <3>1. client'.tokens = client.tokens /\ req' \in Over
      <4>1. Finishes(TRUE)
        BY <1>8, <2>6 DEF stream_loop
      <4>2. req' = "over" /\ client'.tokens = client.tokens
        BY <4>1, ClientType, Zenon
      <4> QED BY <4>2 DEF Over
    <3>2. client.tokens = forwarded
      <4>1. Path(<<>>, client.tokens, forwarded)
        <5>1. m.tokens = 0 /\ Tail(mailbox) = <<>>
          BY <2>3, <2>6
        <5>2. client.tokens + m.tokens = client.tokens
          BY <5>1, <1>1
        <5> HIDE DEF m
        <5> QED BY <5>1, <5>2, <2>2, Zenon
      <4> QED BY <4>1, <1>1, PathEmpty
    <3> QED BY <2>1, <2>3, <2>6, <3>1, <3>2 DEF Mail
  <2>7. CASE m.type = "error"
    <3>1. client'.tokens = client.tokens /\ ~client'.done /\ req' \in Over
      BY <1>3, <1>8, <2>1, <2>7 DEF stream_loop
    <3> QED BY <2>1, <2>3, <2>4, <3>1 DEF Mail
  <2> QED BY <1>8, <2>5, <2>6, <2>7 DEF stream_loop
<1>9. CASE LoopTimesOut
  <2>1. req \notin Over /\ UNCHANGED <<mailbox, fsm, records, forwarded>>
    BY <1>9 DEF LoopTimesOut, Over
  <2> QED BY <1>9, <2>1, <1>2, <1>3 DEF LoopTimesOut
<1>10. CASE Kill
  BY <1>10, <1>2 DEF Kill, Goes, Over
<1> QED BY <1>4, <1>5, <1>6, <1>7, <1>8, <1>9, <1>10 DEF ReqStep

LEMMA MailStep == TypeOK /\ Book /\ Mail /\ [Next]_vars => Mail'
<1> SUFFICES ASSUME TypeOK, Book, Mail, [Next]_vars PROVE Mail'
  OBVIOUS
<1>1. CASE UNCHANGED vars
  BY <1>1 DEF vars, reqVars, fsmVars, Mail
<1>2. CASE GunStep
  BY <1>2 DEF GunStep, Response, Piece, Unexpected, Breaks, Sends, reqVars, Mail
<1> QED BY <1>1, <1>2, MailFsm, MailReq DEF Next

\* A client that was sent its stream to the end has all that was forwarded,
\* and that is what is logged.
THEOREM DeliveredIsLogged == Spec => []DoneIsAll
<1>1. Spec => [](TypeOK /\ Book /\ Mail)
  BY InitType, BookInit, MailInit, TypeStep, BookStep, MailStep, PTL DEF Spec
<1>2. TypeOK /\ Mail => DoneIsAll
  BY DEF Mail, DoneIsAll
<1> QED BY <1>1, <1>2, PTL

----------------------------------------------------------------------------
(* The two processes implement the delivery. *)

\* What the delivery sees of the stream process.
Seen == <<Phase, forwarded, records>>

LEMMA PhaseIs ==
  /\ fsm.at = "dead" <=> Phase = "over"
  /\ fsm.at = "done" <=> Phase = "complete"
  /\ fsm.at \notin {"done", "dead"} <=> Phase = "open"
BY DEF Phase

\* An end before anything was forwarded, by a stop or by a crash.
LEMMA EndAbandons ==
  ASSUME TypeOK, NEW how \in {"failed", "word", "crash", "stop"}, Ends(how),
         fsm.at \notin {"done", "dead"}, UNCHANGED <<records, forwarded, reqVars>>
  PROVE  Promise!Abandon
<1>1. fsm'.at = "dead"
  BY EndsType
<1>2. Phase = "open" /\ Phase' = "over"
  BY <1>1, PhaseIs DEF Phase
<1> QED BY <1>2 DEF Promise!Abandon, reqVars

\* Before the first event the stream process goes on or ends for nothing.
LEMMA EarlyDelivers ==
  ASSUME TypeOK, Open \/ Connect \/ Judge \/ collect_error_body
  PROVE  Promise!Abandon \/ UNCHANGED Seen
<1>1. /\ fsm.at \notin {"done", "dead"} /\ UNCHANGED <<records, forwarded, reqVars>>
  BY DEF Open, Connect, Judge, collect_error_body
<1>2. ASSUME NEW point \in {"connecting", "collecting", "streaming"}, At(point)
      PROVE  UNCHANGED Seen
  BY <1>1, <1>2, AtType DEF Seen, Phase
<1>3. ASSUME NEW how \in {"failed", "word", "crash", "stop"}, Ends(how)
      PROVE  Promise!Abandon
  BY <1>1, <1>3, EndAbandons
<1>4. CASE Open
  BY <1>2, <1>3, <1>4 DEF Open
<1>5. CASE Connect
  <2>1. ASSUME fsm' = [fsm EXCEPT !.at = "judging", !.fin = Head(inbox).fin]
        PROVE  UNCHANGED Seen
    BY <1>1, <2>1 DEF Seen, Phase, TypeOK
  <2> QED BY <1>2, <1>3, <1>5, <2>1 DEF Connect
<1>6. CASE Judge
  BY <1>2, <1>3, <1>6 DEF Judge
<1>7. CASE collect_error_body
  <2>1. UNCHANGED fsm => UNCHANGED Seen
    BY <1>1 DEF Seen, Phase
  <2> QED BY <1>3, <1>7, <2>1 DEF collect_error_body
<1> QED BY <1>4, <1>5, <1>6, <1>7

\* A stream in flight forwards, is billed for what it forwarded, or is dropped.
LEMMA StreamingDelivers ==
  ASSUME TypeOK, Book, Streaming
  PROVE  Promise!Forward \/ Promise!Bill \/ Promise!Abandon
<1> DEFINE m == Head(inbox)
<1>1. /\ fsm.at = "streaming" /\ UNCHANGED reqVars
      /\ records = <<>> /\ fsm.accumulated = forwarded /\ forwarded \in Nat
      /\ fsm.inout \in Nat /\ fsm.inout <= forwarded
  BY DEF Streaming, Book, TypeOK
<1>2. Phase = "open" /\ Phase' \in {"open", "complete", "over"}
  BY <1>1 DEF Phase
<1>3. CASE Forward(m)
  <2>1. m \in FromGun
    BY First DEF Streaming, TypeOK
  <2>2. m.tokens \in Nat /\ m.inout \in Nat
    BY <2>1 DEF FromGun
  <2>3. forwarded' = forwarded + m.tokens /\ UNCHANGED records
    BY <1>3 DEF Forward
  <2> HIDE DEF m
  <2>4. forwarded' \in Nat /\ forwarded' >= forwarded
    BY <1>1, <2>2, <2>3
  <2> QED BY <1>1, <1>2, <2>3, <2>4 DEF Promise!Forward, reqVars
<1>4. CASE /\ record_partial_usage(fsm.accumulated, fsm.inout)
           /\ Ends("word") /\ UNCHANGED sent
  <2>1. CASE fsm.inout > 0
    <3>0. forwarded > 0
      BY <1>1, <2>1
    <3>1. records' = <<forwarded>>
      BY <1>1, <1>4, <2>1 DEF record_partial_usage
    <3>2. Phase' = "over"
      BY <1>4, EndsType DEF Phase
    <3> QED BY <1>1, <1>2, <1>4, <3>0, <3>1, <3>2 DEF Promise!Bill, reqVars
  <2>2. CASE ~(fsm.inout > 0)
    BY <1>1, <1>4, <2>2, EndAbandons DEF record_partial_usage
  <2> QED BY <2>1, <2>2
<1>5. CASE /\ Ends("stop") \/ Ends("crash")
           /\ UNCHANGED <<records, sent>>
  BY <1>1, <1>5, EndAbandons
<1> QED BY <1>3, <1>4, <1>5 DEF Streaming

LEMMA FinalizeDelivers == ASSUME TypeOK, Book, Finalize PROVE Promise!Bill
<1>1. /\ fsm.at = "done" /\ Ends("word") /\ UNCHANGED <<forwarded, reqVars>>
      /\ records' = Append(records, fsm.accumulated)
  BY DEF Finalize
<1>2. records = <<>> /\ fsm.accumulated = forwarded
  BY <1>1 DEF Book
<1>3. records' = <<forwarded>>
  BY <1>1, <1>2
<1>4. Phase = "complete" /\ Phase' = "over"
  BY <1>1, EndsType DEF Phase
<1> QED BY <1>1, <1>3, <1>4 DEF Promise!Bill, reqVars

\* The request delivers what was forwarded, concludes when nothing is left, or
\* leaves.
LEMMA RequestDelivers ==
  ASSUME TypeOK, Book, Mail, ReqStep \/ Kill
  PROVE  \/ Promise!Deliver \/ Promise!Conclude \/ Promise!Leave
         \/ UNCHANGED <<Seen, req \notin Over, client.tokens, client.done>>
<1>1. UNCHANGED <<fsm, records, forwarded>>
  BY DEF ReqStep, Kill, Start, Wait, WaitTimesOut, StopReturns, stream_loop,
     LoopTimesOut, fsmVars
<1>2. UNCHANGED <<Phase, forwarded, records, Seen>>
  BY <1>1 DEF Phase, Seen
<1>3. /\ req \notin Over /\ ~client.done
      /\ mailbox \in Seq(FromFsm) /\ client.tokens \in Nat /\ forwarded \in Nat
  <2>1. req \notin Over
    BY DEF ReqStep, Kill, Start, Wait, WaitTimesOut, StopReturns, stream_loop,
       LoopTimesOut, Over
  <2> QED BY <2>1 DEF Mail, TypeOK
<1>4. ASSUME req' \in Over, UNCHANGED <<client.tokens, client.done>>
      PROVE  Promise!Leave
  BY <1>2, <1>3, <1>4 DEF Promise!Leave
<1>5. ASSUME Fails \/ Finishes(FALSE) PROVE Promise!Leave
  BY <1>3, <1>4, <1>5 DEF Fails, Finishes, Over, TypeOK
<1>6. ASSUME UNCHANGED client
      PROVE  Promise!Leave \/ UNCHANGED <<Seen, req \notin Over, client.tokens, client.done>>
  BY <1>2, <1>3, <1>4, <1>6
<1>7. CASE Start
  BY <1>5, <1>6, <1>7 DEF Start, Goes
<1>8. CASE Wait
  <2>1. ASSUME req' = "looping", client' = [client EXCEPT !.head = TRUE]
        PROVE  UNCHANGED <<Seen, req \notin Over, client.tokens, client.done>>
    BY <1>2, <1>3, <2>1 DEF Over, TypeOK
  <2> QED BY <1>5, <1>8, <2>1 DEF Wait
<1>9. CASE WaitTimesOut \/ Kill
  BY <1>6, <1>9 DEF WaitTimesOut, Kill, Goes
<1>10. CASE StopReturns
  BY <1>5, <1>6, <1>10 DEF StopReturns, Goes
<1>11. CASE stream_loop
  <2> DEFINE m == Head(mailbox)
  <2>1. mailbox # <<>>
    BY <1>11 DEF stream_loop
  <2>2. m.tokens \in Nat
    <3>1. m \in FromFsm
      BY <1>3, <2>1, First
    <3> QED BY <3>1 DEF FromFsm
  <2>3. Path(Tail(mailbox), client.tokens + m.tokens, forwarded)
    <3>1. Path(mailbox, client.tokens, forwarded)
      BY <1>3 DEF Mail
    <3> QED BY <3>1, <1>3, <2>1, PathTail
  <2>4. CASE m.type = "chunk"
    <3>1. client' = [client EXCEPT !.tokens = @ + m.tokens] /\ UNCHANGED req
      BY <1>11, <2>4 DEF stream_loop
    <3>2. client'.tokens = client.tokens + m.tokens /\ client'.done = client.done
      BY <3>1, <2>2, Gets
    <3>3. Tail(mailbox) \in Seq(FromFsm)
      BY <1>3, <2>1, First
    <3> HIDE DEF m
    <3>4. client.tokens + m.tokens \in Nat
      BY <1>3, <2>2
    <3>5. client.tokens + m.tokens <= forwarded
      BY <1>3, <2>3, <3>3, <3>4, PathBound
    <3>6. client'.tokens \in client.tokens..forwarded
      BY <1>3, <2>2, <3>2, <3>4, <3>5
    <3> QED BY <1>2, <1>3, <3>1, <3>2, <3>6 DEF Promise!Deliver
  <2>5. CASE m.type = "done"
    <3>1. /\ Tail(mailbox) = <<>> /\ ~NoEnd(mailbox) /\ m.tokens = 0
      BY <1>3, <2>1, <2>5, MailTail DEF Mail
    <3>2. client.tokens = forwarded
      <4>1. client.tokens + m.tokens = client.tokens
        BY <1>3, <3>1
      <4> HIDE DEF m
      <4>2. Path(<<>>, client.tokens, forwarded)
        BY <2>3, <3>1, <4>1, Zenon
      <4> QED BY <4>2, <1>3, PathEmpty
    <3>3. Phase = "complete" \/ (Phase = "over" /\ records = <<forwarded>>)
      BY <3>1 DEF Mail, Phase
    <3>4. Finishes(TRUE)
      BY <1>11, <2>5 DEF stream_loop
    <3>5. req' \in Over /\ client'.tokens = client.tokens /\ client'.done
      BY <3>4 DEF Finishes, Over, TypeOK
    <3> QED BY <1>2, <1>3, <3>2, <3>3, <3>5 DEF Promise!Conclude
  <2>6. CASE m.type = "error"
    BY <1>5, <1>11, <2>6 DEF stream_loop
  <2> QED BY <1>11, <2>4, <2>5, <2>6 DEF stream_loop
<1>12. CASE LoopTimesOut
  BY <1>5, <1>12 DEF LoopTimesOut
<1> QED BY <1>7, <1>8, <1>9, <1>10, <1>11, <1>12 DEF ReqStep

\* Every step of the two processes and of gun is one of the delivery or is not
\* seen by it: for any number of events of any size an answer is billed at most
\* once, for all of it, and never called complete before it has arrived.
THEOREM DeliveryRefinement == Spec => ImplementsDelivery
<1>1. Init => Promise!Init
  BY DEF Init, Promise!Init, Phase, Over
<1>2. ASSUME TypeOK, Book, Mail, [Next]_vars
      PROVE  [Promise!Next]_<<Phase, forwarded, records, req \notin Over,
                              client.tokens, client.done>>
  <2>1. CASE UNCHANGED vars
    BY <2>1 DEF vars, reqVars, fsmVars, Phase
  <2>2. CASE GunStep
    BY <2>2 DEF GunStep, Response, Piece, Unexpected, Breaks, Sends, reqVars, Phase
  <2>3. CASE Open \/ Connect \/ Judge \/ collect_error_body
    <3>1. UNCHANGED reqVars
      BY <2>3 DEF Open, Connect, Judge, collect_error_body
    <3> QED BY <1>2, <2>3, <3>1, EarlyDelivers DEF Promise!Next, Seen, reqVars
  <2>4. CASE Streaming
    BY <1>2, <2>4, StreamingDelivers DEF Promise!Next
  <2>5. CASE Finalize
    BY <1>2, <2>5, FinalizeDelivers DEF Promise!Next
  <2>6. CASE ReqStep \/ Kill
    BY <1>2, <2>6, RequestDelivers DEF Promise!Next, Seen
  <2> QED BY <1>2, <2>1, <2>2, <2>3, <2>4, <2>5, <2>6 DEF Next, FsmStep
<1>3. Spec => [](TypeOK /\ Book /\ Mail)
  BY InitType, BookInit, MailInit, TypeStep, BookStep, MailStep, PTL DEF Spec
<1> QED BY <1>1, <1>2, <1>3, PTL DEF Spec, ImplementsDelivery, Promise!Spec

=============================================================================
