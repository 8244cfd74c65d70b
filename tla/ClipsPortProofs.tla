-------------------------- MODULE ClipsPortProofs --------------------------
(***************************************************************************)
(* Proofs about ClipsPort for any number of calls, whatever each may ask   *)
(* for, and any number of deaths of the program.                           *)
(***************************************************************************)
EXTENDS ClipsPort, FiniteSetTheorems, SequenceTheorems, TLAPS

USE ClipsAssumption

----------------------------------------------------------------------------
(* Messages, and a mailbox from which the message at i is taken. *)

\* A message of the worker is a call, a line of the program or its exit.
LEMMA MessageKinds ==
  /\ \A c \in Calls, k \in DOMAIN Program : CallMsg(c, k) \in Messages
  /\ ExitMsg \in Messages
  /\ \A m \in Messages :
       /\ m.tag \in {"call", "line", "exit"}
       /\ m.tag = "call" => m.by \in Calls /\ m.op \in DOMAIN Program
       /\ m.facts \in SUBSET Calls
       /\ m.tag = "line" => m.op \in {"result", "ok", "pong"}
<1>1. \A c \in Calls, k \in DOMAIN Program : CallMsg(c, k) \in Messages
  BY DEF Messages
<1>2. ExitMsg \in Messages
  BY DEF Messages
<1>3. ASSUME NEW m \in Messages
      PROVE  /\ m.tag \in {"call", "line", "exit"}
             /\ m.tag = "call" => m.by \in Calls /\ m.op \in DOMAIN Program
             /\ m.facts \in SUBSET Calls
             /\ m.tag = "line" => m.op \in {"result", "ok", "pong"}
  <2>1. CASE \E c \in Calls, k \in DOMAIN Program : m = CallMsg(c, k)
    BY <2>1 DEF CallMsg
  <2>2. CASE m = ExitMsg
    BY <2>2 DEF ExitMsg
  <2>3. CASE \/ \E fs \in SUBSET Calls : m = Line("result", fs)
             \/ \E op \in {"ok", "pong"} : m = Line(op, {})
    BY <2>3 DEF Line
  <2> QED BY <2>1, <2>2, <2>3 DEF Messages
<1> QED BY <1>1, <1>2, <1>3

\* A command that prepares the last one is not the last one.
LEMMA Programs ==
  /\ \A k \in DOMAIN Program :
       /\ Len(Program[k]) \in 1..3 /\ DOMAIN Program[k] = 1..Len(Program[k])
       /\ \A n \in 1..Len(Program[k]) :
            /\ Program[k][n] \in Ops
            /\ Program[k][n] \in {"retract_all", "assert"} <=> n < Len(Program[k])
            /\ Program[k][n] = "reload" => Len(Program[k]) = 1
  /\ "ping" \in DOMAIN Program
<1>1. ASSUME NEW k \in DOMAIN Program
      PROVE  /\ Len(Program[k]) \in 1..3 /\ DOMAIN Program[k] = 1..Len(Program[k])
             /\ \A n \in 1..Len(Program[k]) :
                  /\ Program[k][n] \in Ops
                  /\ Program[k][n] \in {"retract_all", "assert"}
                       <=> n < Len(Program[k])
                  /\ Program[k][n] = "reload" => Len(Program[k]) = 1
  <2>1. CASE k = "decide"
    <3>1. Program[k] = <<"retract_all", "assert", "run">>
      BY <2>1 DEF Program
    <3> QED BY <3>1 DEF Ops
  <2>2. CASE k = "facts"
    <3>1. Program[k] = <<"retract_all", "run">>
      BY <2>2 DEF Program
    <3> QED BY <3>1 DEF Ops
  <2>3. CASE k \in {"config", "reload", "ping"}
    <3>1. Program[k] \in {<<"run">>, <<"reload">>, <<"ping">>}
      BY <2>3 DEF Program
    <3> QED BY <3>1 DEF Ops
  <2> QED BY <2>1, <2>2, <2>3 DEF Program
<1> QED BY <1>1 DEF Program

Cut(s, i, t) ==
  /\ t \in Seq(Messages) /\ Len(t) = Len(s) - 1
  /\ \A j \in 1..Len(t) : t[j] = IF j < i THEN s[j] ELSE s[j + 1]

\* What receive_line leaves in the mailbox is all the rest, in its order.
LEMMA WithoutCuts ==
  ASSUME mailbox \in Seq(Messages), NEW i \in DOMAIN mailbox
  PROVE  Cut(mailbox, i, Without(i))
<1> DEFINE a == SubSeq(mailbox, 1, i - 1)
           b == SubSeq(mailbox, i + 1, Len(mailbox))
<1>1. /\ Len(mailbox) \in Nat /\ i \in 1..Len(mailbox)
      /\ \A j \in 1..Len(mailbox) : mailbox[j] \in Messages
  BY LenProperties, ElementOfSeq
<1>2. /\ a \in Seq(Messages) /\ Len(a) = i - 1
      /\ \A j \in 1..i - 1 : a[j] = mailbox[j]
  <2>1. \A j \in 1..i - 1 : mailbox[j] \in Messages
    BY <1>1
  <2>2. /\ a \in Seq(Messages)
        /\ Len(a) = IF 1 <= i - 1 THEN i - 1 - 1 + 1 ELSE 0
        /\ \A j \in 1..i - 1 - 1 + 1 : a[j] = mailbox[1 + j - 1]
    BY <1>1, <2>1, SubSeqProperties
  <2> HIDE DEF a
  <2> QED BY <1>1, <2>2
<1>3. /\ b \in Seq(Messages) /\ Len(b) = Len(mailbox) - i
      /\ \A j \in 1..Len(mailbox) - i : b[j] = mailbox[i + j]
  <2>1. \A j \in i + 1..Len(mailbox) : mailbox[j] \in Messages
    BY <1>1
  <2>2. /\ b \in Seq(Messages)
        /\ Len(b) = IF i + 1 <= Len(mailbox) THEN Len(mailbox) - (i + 1) + 1 ELSE 0
        /\ \A j \in 1..Len(mailbox) - (i + 1) + 1 : b[j] = mailbox[i + 1 + j - 1]
    BY <1>1, <2>1, SubSeqProperties
  <2> HIDE DEF b
  <2> QED BY <1>1, <2>2
<1>4. /\ a \o b \in Seq(Messages) /\ Len(a \o b) = Len(a) + Len(b)
      /\ \A j \in 1..Len(a) + Len(b) :
           (a \o b)[j] = IF j <= Len(a) THEN a[j] ELSE b[j - Len(a)]
  BY <1>2, <1>3, ConcatProperties
<1>5. Without(i) = a \o b
  BY DEF Without
<1> HIDE DEF a, b
<1>6. Without(i) \in Seq(Messages) /\ Len(Without(i)) = Len(mailbox) - 1
  BY <1>1, <1>2, <1>3, <1>4, <1>5
<1>7. ASSUME NEW j \in 1..Len(Without(i))
      PROVE  Without(i)[j] = IF j < i THEN mailbox[j] ELSE mailbox[j + 1]
  <2>1. Without(i)[j] = IF j <= Len(a) THEN a[j] ELSE b[j - Len(a)]
    BY <1>1, <1>2, <1>3, <1>4, <1>5, <1>6
  <2>2. CASE j < i
    BY <1>1, <1>2, <2>1, <2>2
  <2>3. CASE ~(j < i)
    <3>1. j - Len(a) \in 1..Len(mailbox) - i /\ i + (j - Len(a)) = j + 1
      BY <1>1, <1>2, <1>6, <2>3
    <3>2. b[j - Len(a)] = mailbox[j + 1]
      BY <1>3, <3>1
    <3> QED BY <1>1, <1>2, <2>1, <2>3, <3>2
  <2> QED BY <2>2, <2>3
<1> QED BY <1>6, <1>7 DEF Cut

\* Taking the head is taking the message at 1.
LEMMA TailCuts ==
  ASSUME NEW s \in Seq(Messages), s # <<>>
  PROVE  /\ Cut(s, 1, Tail(s)) /\ 1 \in DOMAIN s /\ Head(s) = s[1]
         /\ Head(s) \in Messages
<1>1. /\ Tail(s) \in Seq(Messages) /\ Len(Tail(s)) = Len(s) - 1
      /\ \A j \in 1..Len(Tail(s)) : Tail(s)[j] = s[j + 1]
      /\ Head(s) \in Messages /\ Len(s) \in Nat \ {0}
  BY HeadTailProperties, EmptySeq
<1> QED BY <1>1 DEF Cut

----------------------------------------------------------------------------
(* Types. *)

\* When the worker dies everything starts anew.
LEMMA DiesTypes == ASSUME TypeOK, Dies PROVE TypeOK'
<1>1. /\ mailbox' \in Seq(Messages) /\ stdin' \in Seq([op : Ops, by : Calls])
      /\ "ping" \in DOMAIN Program
  BY EmptySeq DEF Dies, Program
<1>2. portUp' \in BOOLEAN /\ engine' \subseteq Calls /\ exits' \in 0..MaxExits
  BY DEF Dies, TypeOK
<1>3. reply' \in [type : {"none", "ok", "error"}, to : Calls \cup {Nobody},
                  kind : DOMAIN Program, facts : SUBSET Calls, late : Nat]
  BY <1>1 DEF Dies, NoReply
<1>4. /\ phase' \in [Calls -> {"new", "waiting", "over"}]
      /\ lease' \in Calls \cup {Nobody}
      /\ \A c \in Calls : phase'[c] = "waiting" <=> lease' = c
  BY DEF Dies, TypeOK
<1>5. /\ current' = Nobody /\ kind' = "ping" /\ pos' = 0 /\ late' = 0
  BY DEF Dies
<1> QED BY <1>1, <1>2, <1>3, <1>4, <1>5 DEF TypeOK

\* Callers keep the types, and a lease is given back with the wait.
LEMMA CallerTypes ==
  ASSUME TypeOK, NEW c \in Calls, Checkout(c) \/ GiveUp(c)
  PROVE  TypeOK'
<1>1. CASE Checkout(c)
  <2>1. PICK k \in KindsOf[c] : mailbox' = Append(mailbox, CallMsg(c, k))
    BY <1>1 DEF Checkout
  <2>2. CallMsg(c, k) \in Messages
    BY MessageKinds
  <2>3. mailbox' \in Seq(Messages)
    BY <2>1, <2>2, AppendProperties DEF TypeOK
  <2>4. /\ phase' \in [Calls -> {"new", "waiting", "over"}]
        /\ lease' \in Calls \cup {Nobody}
        /\ \A d \in Calls : phase'[d] = "waiting" <=> lease' = d
    BY <1>1 DEF Checkout, TypeOK
  <2> QED BY <1>1, <2>3, <2>4 DEF Checkout, TypeOK, serveVars, portVars
<1>2. CASE GiveUp(c)
  <2>1. /\ phase' \in [Calls -> {"new", "waiting", "over"}]
        /\ lease' \in Calls \cup {Nobody}
        /\ \A d \in Calls : phase'[d] = "waiting" <=> lease' = d
    BY <1>2 DEF GiveUp, TypeOK
  <2> QED BY <1>2, <2>1 DEF GiveUp, TypeOK, serveVars, portVars
<1> QED BY <1>1, <1>2

\* A reply, with any mailbox and facts of the right type.
LEMMA ReplyTypes ==
  ASSUME TypeOK, current # Nobody, NEW type \in {"ok", "error"},
         NEW facts \in SUBSET Calls, Reply(type, facts),
         mailbox' \in Seq(Messages)
  PROVE  TypeOK'
<1>1. /\ phase' \in [Calls -> {"new", "waiting", "over"}]
      /\ lease' \in Calls \cup {Nobody}
      /\ \A d \in Calls : phase'[d] = "waiting" <=> lease' = d
  <2>1. CASE phase[current] = "waiting"
    BY <2>1 DEF Reply, TypeOK
  <2>2. CASE phase[current] # "waiting"
    BY <2>2 DEF Reply, TypeOK, callVars
  <2> QED BY <2>1, <2>2
<1>2. reply' \in [type : {"none", "ok", "error"}, to : Calls \cup {Nobody},
                  kind : DOMAIN Program, facts : SUBSET Calls, late : Nat]
  BY DEF Reply, TypeOK
<1>3. /\ current' = Nobody /\ kind' = "ping" /\ pos' = 0 /\ late' = 0
      /\ "ping" \in DOMAIN Program
  BY DEF Reply, Program
<1>4. UNCHANGED <<portUp, stdin, engine, exits>>
  BY DEF Reply, portVars
<1> QED BY <1>1, <1>2, <1>3, <1>4 DEF TypeOK

\* A command of the current call is put on the program's line.
LEMMA SendTypes ==
  ASSUME TypeOK, NEW c \in Calls, NEW k \in DOMAIN Program,
         NEW n \in DOMAIN Program[k], Send(c, Program[k][n])
  PROVE  stdin' \in Seq([op : Ops, by : Calls])
<1>1. Program[k][n] \in Ops
  BY Programs
<1>2. [op |-> Program[k][n], by |-> c] \in [op : Ops, by : Calls]
  BY <1>1
<1> QED BY <1>2, AppendProperties DEF Send, TypeOK

\* The count of what is behind is a number.
LEMMA BehindType == ASSUME TypeOK PROVE Behind \in Nat
<1>1. Indices({"line"}) \in SUBSET (1..Len(mailbox)) /\ Len(mailbox) \in Nat
  BY LenProperties DEF Indices, TypeOK
<1>2. IsFiniteSet(Indices({"line"}))
  <2>1. IsFiniteSet(1..Len(mailbox))
    BY <1>1, FS_Interval
  <2> QED BY <1>1, <2>1, FS_Subset
<1>3. Cardinality(Indices({"line"})) \in Nat /\ Len(stdin) \in Nat
  BY <1>2, FS_CardinalityType, LenProperties DEF TypeOK
<1> QED BY <1>3 DEF Behind

\* The worker keeps the types: it never sends beyond the commands of its call.
LEMMA WorkerTypes == ASSUME TypeOK, WorkerStep PROVE TypeOK'
<1>1. CASE BeginCall /\ ~Dies
  <2> DEFINE c == Head(mailbox).by
             k == Head(mailbox).op
  <2>1. Begin(c, k) /\ mailbox # <<>> /\ Head(mailbox).tag = "call"
    BY <1>1 DEF BeginCall
  <2>2. c \in Calls /\ k \in DOMAIN Program /\ Tail(mailbox) \in Seq(Messages)
    BY <2>1, TailCuts, MessageKinds DEF TypeOK, Cut
  <2>3. 1 \in DOMAIN Program[k]
    BY <2>2 DEF Program
  <2> HIDE DEF c, k
  <2>4. stdin' \in Seq([op : Ops, by : Calls])
    BY <2>1, <2>2, <2>3, SendTypes DEF Begin
  <2>5. reply' \in [type : {"none", "ok", "error"}, to : Calls \cup {Nobody},
                    kind : DOMAIN Program, facts : SUBSET Calls, late : Nat]
    BY <2>1, <2>2 DEF Begin, NoReply, Program
  <2>6. late' \in Nat
    BY <2>1, BehindType DEF Begin
  <2> QED BY <2>1, <2>2, <2>3, <2>4, <2>5, <2>6 DEF Begin, TypeOK, callVars
<1>2. CASE DropLine
  <2>1. Tail(mailbox) \in Seq(Messages)
    BY <1>2, TailCuts DEF DropLine, TypeOK, Cut
  <2> QED BY <1>2, <2>1 DEF DropLine, TypeOK, callVars, serveVars, portVars
<1>3. CASE Receive /\ ~Dies
  <2>1. PICK i \in Indices({"line", "exit"}) :
          \/ mailbox[i].tag = "line" /\ Accept(i)
          \/ Unusable(mailbox[i]) /\ Fails(Without(i))
    BY <1>3 DEF Receive
  <2>2. /\ current # Nobody /\ i \in DOMAIN mailbox /\ mailbox[i] \in Messages
        /\ Without(i) \in Seq(Messages) /\ mailbox[i].facts \in SUBSET Calls
    <3>1. i \in DOMAIN mailbox
      BY DEF Indices
    <3>2. mailbox[i] \in Messages
      BY <3>1, ElementOfSeq, LenProperties DEF TypeOK
    <3> QED BY <1>3, <3>1, <3>2, WithoutCuts, MessageKinds DEF Receive, Cut, TypeOK
  <2>3. CASE Preparing /\ Continue(i)
    <3>1. pos + 1 \in DOMAIN Program[kind] /\ current \in Calls
      <4>1. /\ kind \in DOMAIN Program /\ pos \in DOMAIN Program[kind]
            /\ current \in Calls /\ Program[kind][pos] \in {"retract_all", "assert"}
        BY <2>2, <2>3 DEF Preparing, Op, TypeOK
      <4>2. /\ pos \in 1..Len(Program[kind]) /\ Len(Program[kind]) \in 1..3
            /\ DOMAIN Program[kind] = 1..Len(Program[kind])
        BY <4>1, Programs
      <4>3. pos < Len(Program[kind])
        BY <4>1, <4>2, Programs
      <4> QED BY <4>1, <4>2, <4>3
    <3>2. stdin' \in Seq([op : Ops, by : Calls])
      BY <2>3, <3>1, SendTypes DEF Continue, TypeOK
    <3>3. mailbox' \in Seq(Messages)
      BY <2>2, <2>3 DEF Continue
    <3> QED
      BY <2>2, <2>3, <3>1, <3>2, <3>3 DEF Continue, TypeOK, callVars
  <2>4. CASE mailbox' = Without(i) /\ Reply("ok", mailbox[i].facts)
    BY <2>2, <2>4, ReplyTypes
  <2>5. CASE mailbox' = Without(i) /\ Reply("error", {})
    BY <2>2, <2>5, ReplyTypes
  <2> QED
    BY <1>3, <2>1, <2>3, <2>4, <2>5 DEF Accept, Fails
<1>4. CASE TimesOut /\ ~Dies
  <2>1. Reply("error", {}) /\ mailbox' = mailbox /\ current # Nobody
    BY <1>4 DEF TimesOut, Fails
  <2> QED BY <2>1, ReplyTypes DEF TypeOK
<1>5. CASE Dies
  BY <1>5, DiesTypes
<1> QED BY <1>1, <1>2, <1>3, <1>4, <1>5 DEF WorkerStep, StopOnExit

\* The program keeps the types.
LEMMA ProgramTypes == ASSUME TypeOK, Execute \/ ProgramExits PROVE TypeOK'
<1>1. CASE Execute
  <2>1. PICK m \in Messages : mailbox' = Append(mailbox, m)
    <3>1. /\ Line("result", engine) \in Messages
          /\ Line("pong", {}) \in Messages /\ Line("ok", {}) \in Messages
      BY DEF Messages, TypeOK
    <3> QED BY <1>1, <3>1 DEF Execute
  <2>2. mailbox' \in Seq(Messages)
    BY <2>1, AppendProperties DEF TypeOK
  <2>3. /\ stdin' \in Seq([op : Ops, by : Calls])
        /\ Head(stdin) \in [op : Ops, by : Calls]
    BY <1>1, HeadTailProperties DEF Execute, TypeOK
  <2>4. engine' \subseteq Calls
    BY <1>1, <2>3 DEF Execute, TypeOK
  <2> QED BY <1>1, <2>2, <2>3, <2>4 DEF Execute, TypeOK, callVars, serveVars
<1>2. CASE ProgramExits
  <2>1. /\ mailbox' \in Seq(Messages) /\ stdin' \in Seq([op : Ops, by : Calls])
    BY <1>2, MessageKinds, AppendProperties, EmptySeq DEF ProgramExits, TypeOK
  <2>2. exits' \in 0..MaxExits /\ engine' \subseteq Calls
    BY <1>2 DEF ProgramExits, TypeOK
  <2>3. portUp' \in BOOLEAN
    BY <1>2 DEF ProgramExits
  <2> QED BY <1>2, <2>1, <2>2, <2>3 DEF ProgramExits, TypeOK, callVars, serveVars
<1> QED BY <1>1, <1>2

\* Whoever gives up, exits or answers late: the worker is checked out by the
\* caller that waits for it and by nobody else, and everything has its type.
THEOREM TypeCorrect == Spec => []TypeOK
<1>1. Init => TypeOK
  <2> SUFFICES ASSUME Init PROVE TypeOK
    OBVIOUS
  <2>1. portUp \in BOOLEAN /\ "ping" \in DOMAIN Program
    BY DEF Init, Program
  <2> QED BY <2>1, EmptySeq DEF Init, TypeOK, NoReply
<1>2. TypeOK /\ [Next]_vars => TypeOK'
  <2> SUFFICES ASSUME TypeOK, [Next]_vars PROVE TypeOK'
    OBVIOUS
  <2>1. CASE UNCHANGED vars
    BY <2>1 DEF TypeOK, vars, callVars, serveVars, portVars
  <2> QED
    BY <2>1, CallerTypes, WorkerTypes, ProgramTypes DEF Next
<1> QED BY <1>1, <1>2, PTL DEF Spec
----------------------------------------------------------------------------
(* The notice of a program that is gone. *)

\* The worker goes on to wait only after it has written to an open port, and
\* the exit_status of a port that closes after that is behind it.
THEOREM GoneIsNoticed == Spec => []DeadPortNoticed
<1>1. Init => DeadPortNoticed
  BY DEF Init, DeadPortNoticed
<1>2. TypeOK /\ DeadPortNoticed /\ [Next]_vars => DeadPortNoticed'
  <2> SUFFICES ASSUME TypeOK, DeadPortNoticed, [Next]_vars,
                      current' # Nobody, ~portUp'
               PROVE  Indices({"exit"})' # {}
    BY DEF DeadPortNoticed
  <2> DEFINE Kept == current = current' /\ portUp = portUp'
  <2>1. ASSUME NEW m, mailbox' = Append(mailbox, m), Kept
        PROVE  Indices({"exit"})' # {}
    <3>1. PICK i \in DOMAIN mailbox : mailbox[i].tag = "exit"
      BY <2>1 DEF DeadPortNoticed, Indices
    <3>2. i \in DOMAIN Append(mailbox, m) /\ Append(mailbox, m)[i] = mailbox[i]
      BY <3>1, LenProperties DEF TypeOK
    <3> QED BY <2>1, <3>1, <3>2 DEF Indices
  <2>2. ASSUME mailbox' = mailbox, Kept
        PROVE  Indices({"exit"})' # {}
    BY <2>2 DEF DeadPortNoticed, Indices
  <2>3. CASE WorkerStep
    BY <2>3 DEF WorkerStep, BeginCall, Begin, DropLine, StopOnExit, Receive,
                Accept, Continue, Fails, TimesOut, Reply, Dies, portVars, serveVars
  <2>4. CASE \E c \in Calls : Checkout(c) \/ GiveUp(c)
    BY <2>1, <2>2, <2>4 DEF Checkout, GiveUp, serveVars, portVars
  <2>5. CASE Execute
    BY <2>1, <2>5 DEF Execute, serveVars
  <2>6. CASE ProgramExits
    <3>1. /\ mailbox' = Append(mailbox, ExitMsg) /\ Len(mailbox) \in Nat
          /\ ExitMsg.tag = "exit"
      BY <2>6, LenProperties DEF ProgramExits, TypeOK, ExitMsg
    <3>2. /\ Len(mailbox) + 1 \in DOMAIN mailbox'
          /\ mailbox'[Len(mailbox) + 1] = ExitMsg
      BY <3>1, MessageKinds, AppendProperties DEF TypeOK
    <3> QED BY <3>1, <3>2 DEF Indices
  <2>7. CASE UNCHANGED vars
    BY <2>2, <2>7 DEF vars, serveVars, portVars
  <2> QED BY <2>3, <2>4, <2>5, <2>6, <2>7 DEF Next
<1> QED BY <1>1, <1>2, TypeCorrect, PTL DEF Spec
----------------------------------------------------------------------------
(* The answers that are owed.  The lines in the mailbox and the commands on  *)
(* the program's line are one queue; a line's place in it is the number of   *)
(* lines up to it.                                                           *)

LinesTo(s, n) == {j \in 1..n : s[j].tag = "line"}
LineCount(s, n) == Cardinality(LinesTo(s, n))

AnswerTo(op) == IF op = "run" THEN "result" ELSE IF op = "ping" THEN "pong" ELSE "ok"

\* Which command of the call the n-th owed answer is for; below 1, it is for a
\* command of an earlier call.
Due(n) == pos - 1 + n - late

LinesRight ==
  \A j \in 1..Len(mailbox) :
    mailbox[j].tag = "line" /\ Due(LineCount(mailbox, j)) > 0
      => mailbox[j].op = AnswerTo(Program[kind][Due(LineCount(mailbox, j))])

CommandsRight ==
  \A j \in 1..Len(stdin) :
    Due(LineCount(mailbox, Len(mailbox)) + j) > 0
      => stdin[j].op = Program[kind][Due(LineCount(mailbox, Len(mailbox)) + j)]

AllOwed == portUp => LineCount(mailbox, Len(mailbox)) + Len(stdin) = late + 1

QueueInv == current # Nobody => LinesRight /\ CommandsRight /\ AllOwed

\* The lines up to a place are finitely many.
LEMMA CountType ==
  ASSUME NEW s, NEW n \in Nat
  PROVE  /\ IsFiniteSet(LinesTo(s, n)) /\ LineCount(s, n) \in Nat
         /\ LinesTo(s, 0) = {} /\ LineCount(s, 0) = 0
<1>1. IsFiniteSet(1..n) /\ LinesTo(s, n) \in SUBSET (1..n)
  BY FS_Interval DEF LinesTo
<1>2. IsFiniteSet(LinesTo(s, n))
  BY <1>1, FS_Subset
<1>3. LinesTo(s, 0) = {}
  BY DEF LinesTo
<1> QED BY <1>2, <1>3, FS_CardinalityType, FS_EmptySet DEF LineCount

\* One message more is at most one line more.
LEMMA CountStep ==
  ASSUME NEW s, NEW n \in Nat
  PROVE  LineCount(s, n + 1)
           = LineCount(s, n) + (IF s[n + 1].tag = "line" THEN 1 ELSE 0)
<1>1. IsFiniteSet(LinesTo(s, n)) /\ LineCount(s, n) \in Nat
  BY CountType
<1>2. CASE s[n + 1].tag = "line"
  <2>1. LinesTo(s, n + 1) = LinesTo(s, n) \cup {n + 1} /\ n + 1 \notin LinesTo(s, n)
    BY <1>2 DEF LinesTo
  <2> QED BY <1>1, <1>2, <2>1, FS_AddElement DEF LineCount
<1>3. CASE s[n + 1].tag # "line"
  <2>1. LinesTo(s, n + 1) = LinesTo(s, n)
    BY <1>3 DEF LinesTo
  <2> QED BY <1>1, <1>3, <2>1 DEF LineCount
<1> QED BY <1>2, <1>3

\* A line further back does not have the smaller place.
LEMMA CountMonotonic ==
  ASSUME NEW s, NEW n \in Nat, NEW j \in 1..n
  PROVE  LineCount(s, j) <= LineCount(s, n)
<1>1. LinesTo(s, j) \in SUBSET LinesTo(s, n)
  BY DEF LinesTo
<1> QED BY <1>1, CountType, FS_Subset DEF LineCount

\* The place of a line depends on the messages before it only.
LEMMA CountPrefix ==
  ASSUME NEW s, NEW t, NEW n \in Nat, \A j \in 1..n : s[j] = t[j]
  PROVE  LineCount(s, n) = LineCount(t, n)
<1>1. LinesTo(s, n) = LinesTo(t, n)
  BY DEF LinesTo
<1> QED BY <1>1 DEF LineCount

\* When the first line is taken, or a message before it, those behind it move
\* up by one place, or stay.
LEMMA CountCut ==
  ASSUME NEW s \in Seq(Messages), NEW i \in 1..Len(s), NEW t, Cut(s, i, t),
         \A j \in 1..Len(s) : j < i => s[j].tag # "line",
         NEW n \in i - 1..Len(t)
  PROVE  LineCount(s, n + 1)
           = LineCount(t, n) + (IF s[i].tag = "line" THEN 1 ELSE 0)
<1> DEFINE A == LinesTo(s, n + 1) \ {i}
           f == [x \in A |-> x - 1]
<1>1. /\ Len(s) \in Nat /\ Len(t) = Len(s) - 1 /\ n \in Nat /\ n <= Len(t)
      /\ \A j \in 1..Len(t) : t[j] = IF j < i THEN s[j] ELSE s[j + 1]
  BY LenProperties DEF Cut
<1>2. \A x \in A : x \in i + 1..n + 1 /\ s[x].tag = "line"
  BY <1>1 DEF LinesTo
<1>3. \A y \in LinesTo(t, n) : y + 1 \in A /\ (y + 1) - 1 = y
  <2> SUFFICES ASSUME NEW y \in LinesTo(t, n) PROVE y + 1 \in A /\ (y + 1) - 1 = y
    OBVIOUS
  <2>1. y \in 1..n /\ t[y].tag = "line" /\ y \in 1..Len(t)
    BY <1>1 DEF LinesTo
  <2>2. ~(y < i)
    BY <1>1, <2>1
  <2>3. t[y] = s[y + 1]
    BY <1>1, <2>1, <2>2
  <2> QED BY <2>1, <2>2, <2>3 DEF LinesTo
<1>4. \A x \in A : x - 1 \in LinesTo(t, n)
  <2> SUFFICES ASSUME NEW x \in A PROVE x - 1 \in LinesTo(t, n)
    OBVIOUS
  <2>1. /\ x \in i + 1..n + 1 /\ s[x].tag = "line" /\ x - 1 \in 1..Len(t)
        /\ ~(x - 1 < i) /\ (x - 1) + 1 = x
    BY <1>1, <1>2
  <2>2. t[x - 1] = s[x]
    BY <1>1, <2>1
  <2> QED BY <1>1, <2>1, <2>2 DEF LinesTo
<1>5. f \in Bijection(A, LinesTo(t, n))
  <2>1. \A x, y \in A : x - 1 = y - 1 => x = y
    BY <1>2
  <2> QED
    BY <1>3, <1>4, <2>1 DEF Bijection, Injection, Surjection, IsInjective
<1>6. IsFiniteSet(LinesTo(s, n + 1)) /\ LineCount(s, n + 1) \in Nat
  BY <1>1, CountType
<1>7. /\ IsFiniteSet(A)
      /\ Cardinality(A) = IF i \in LinesTo(s, n + 1) THEN LineCount(s, n + 1) - 1
                                                     ELSE LineCount(s, n + 1)
  BY <1>6, FS_RemoveElement DEF LineCount
<1>8. Cardinality(LinesTo(t, n)) = Cardinality(A)
  BY <1>5, <1>7, FS_Bijection DEF ExistsBijection
<1>9. i \in LinesTo(s, n + 1) <=> s[i].tag = "line"
  BY <1>1 DEF LinesTo
<1> QED BY <1>6, <1>7, <1>8, <1>9 DEF LineCount
----------------------------------------------------------------------------
(* No step confuses the queue. *)

\* What is put at the end of the mailbox leaves the places of the rest.
LEMMA CountAppend ==
  ASSUME TypeOK, NEW m \in Messages
  PROVE  /\ Len(mailbox) \in Nat
         /\ Append(mailbox, m) \in Seq(Messages)
         /\ Len(Append(mailbox, m)) = Len(mailbox) + 1
         /\ Append(mailbox, m)[Len(mailbox) + 1] = m
         /\ \A j \in 1..Len(mailbox) :
              /\ Append(mailbox, m)[j] = mailbox[j]
              /\ LineCount(Append(mailbox, m), j) = LineCount(mailbox, j)
         /\ LineCount(Append(mailbox, m), Len(mailbox))
              = LineCount(mailbox, Len(mailbox))
         /\ LineCount(Append(mailbox, m), Len(mailbox) + 1)
              = LineCount(mailbox, Len(mailbox)) + (IF m.tag = "line" THEN 1 ELSE 0)
<1> DEFINE t == Append(mailbox, m)
<1>1. /\ Len(mailbox) \in Nat /\ t \in Seq(Messages)
      /\ Len(t) = Len(mailbox) + 1 /\ t[Len(mailbox) + 1] = m
      /\ \A j \in 1..Len(mailbox) : t[j] = mailbox[j]
  BY AppendProperties, LenProperties DEF TypeOK
<1> HIDE DEF t
<1>2. ASSUME NEW n \in 0..Len(mailbox) PROVE LineCount(t, n) = LineCount(mailbox, n)
  BY <1>1, CountPrefix
<1>3. LineCount(t, Len(mailbox) + 1)
        = LineCount(t, Len(mailbox)) + (IF m.tag = "line" THEN 1 ELSE 0)
  BY <1>1, CountStep
<1>4. /\ \A j \in 1..Len(mailbox) : LineCount(t, j) = LineCount(mailbox, j)
      /\ LineCount(t, Len(mailbox)) = LineCount(mailbox, Len(mailbox))
  BY <1>1, <1>2
<1> QED BY <1>1, <1>3, <1>4 DEF t

\* A call, or the exit_status of the program, that comes in.
LEMMA QueueAppend ==
  ASSUME TypeOK, QueueInv, NEW m \in Messages, m.tag # "line",
         mailbox' = Append(mailbox, m), UNCHANGED <<current, kind, pos, late>>,
         UNCHANGED <<stdin, portUp>> \/ (stdin' = <<>> /\ ~portUp')
  PROVE  QueueInv'
<1> SUFFICES ASSUME current # Nobody PROVE LinesRight' /\ CommandsRight' /\ AllOwed'
  BY DEF QueueInv
<1>1. LinesRight /\ CommandsRight /\ AllOwed
  BY DEF QueueInv
<1>2. /\ Len(mailbox) \in Nat /\ Len(mailbox') = Len(mailbox) + 1
      /\ mailbox'[Len(mailbox) + 1] = m
      /\ \A j \in 1..Len(mailbox) :
           /\ mailbox'[j] = mailbox[j]
           /\ LineCount(mailbox', j) = LineCount(mailbox, j)
      /\ LineCount(mailbox', Len(mailbox')) = LineCount(mailbox, Len(mailbox))
  <2>1. LineCount(mailbox, Len(mailbox)) \in Nat
    BY CountType, LenProperties DEF TypeOK
  <2> QED BY <2>1, CountAppend
<1>3. LinesRight'
  <2> SUFFICES ASSUME NEW j \in 1..Len(mailbox'), mailbox'[j].tag = "line",
                      pos - 1 + LineCount(mailbox', j) - late > 0
               PROVE  mailbox'[j].op
                        = AnswerTo(Program[kind][pos - 1 + LineCount(mailbox', j) - late])
    BY DEF LinesRight, Due
  <2>1. j \in 1..Len(mailbox)
    BY <1>2
  <2> QED BY <1>1, <1>2, <2>1 DEF LinesRight, Due
<1>4. CommandsRight' /\ AllOwed'
  <2>1. CASE UNCHANGED <<stdin, portUp>>
    BY <1>1, <1>2, <2>1 DEF CommandsRight, AllOwed, Due
  <2>2. CASE stdin' = <<>> /\ ~portUp'
    <3>1. 1..Len(stdin') = {}
      BY <2>2
    <3> QED BY <2>2, <3>1 DEF CommandsRight, AllOwed, Due
  <2> QED BY <2>1, <2>2
<1> QED BY <1>3, <1>4

\* The program answers its first command: the command's place becomes the line's.
LEMMA QueueExecute ==
  ASSUME TypeOK, QueueInv, Execute
  PROVE  QueueInv'
<1> SUFFICES ASSUME current # Nobody PROVE LinesRight' /\ CommandsRight' /\ AllOwed'
  BY DEF QueueInv, Execute, serveVars
<1> DEFINE n == LineCount(mailbox, Len(mailbox))
<1>1. LinesRight /\ CommandsRight /\ AllOwed
  BY DEF QueueInv
<1>2. UNCHANGED <<current, kind, pos, late, portUp>>
  BY DEF Execute, serveVars
<1>3. PICK m \in Messages : /\ mailbox' = Append(mailbox, m) /\ m.tag = "line"
                            /\ m.op = AnswerTo(Head(stdin).op)
  <2>1. /\ Line("result", engine) \in Messages
        /\ Line("pong", {}) \in Messages /\ Line("ok", {}) \in Messages
    BY DEF Messages, TypeOK
  <2>2. /\ Line("result", engine).tag = "line" /\ Line("result", engine).op = "result"
        /\ Line("pong", {}).tag = "line" /\ Line("pong", {}).op = "pong"
        /\ Line("ok", {}).tag = "line" /\ Line("ok", {}).op = "ok"
    BY DEF Line
  <2> QED BY <2>1, <2>2 DEF Execute, AnswerTo
<1>4. /\ Len(mailbox) \in Nat /\ Len(mailbox') = Len(mailbox) + 1
      /\ mailbox'[Len(mailbox) + 1] = m
      /\ \A j \in 1..Len(mailbox) :
           /\ mailbox'[j] = mailbox[j]
           /\ LineCount(mailbox', j) = LineCount(mailbox, j)
      /\ LineCount(mailbox', Len(mailbox) + 1) = n + 1
  BY <1>3, CountAppend
<1>5. /\ stdin # <<>> /\ stdin' = Tail(stdin) /\ Head(stdin) = stdin[1]
      /\ Len(stdin) \in Nat \ {0} /\ Len(stdin') = Len(stdin) - 1
      /\ \A j \in 1..Len(stdin') : stdin'[j] = stdin[j + 1]
  BY HeadTailProperties, EmptySeq DEF Execute, TypeOK
<1>6. n \in Nat /\ pos \in Int /\ late \in Nat
  <2>1. n \in Nat
    BY <1>4, CountType
  <2>2. pos \in Int
    BY Programs DEF TypeOK
  <2> QED BY <2>1, <2>2 DEF TypeOK
<1> HIDE DEF n
<1>7. LinesRight'
  <2> SUFFICES ASSUME NEW j \in 1..Len(mailbox'), mailbox'[j].tag = "line",
                      pos - 1 + LineCount(mailbox', j) - late > 0
               PROVE  mailbox'[j].op
                        = AnswerTo(Program[kind][pos - 1 + LineCount(mailbox', j) - late])
    BY <1>2 DEF LinesRight, Due
  <2>1. CASE j \in 1..Len(mailbox)
    BY <1>1, <1>4, <2>1 DEF LinesRight, Due
  <2>2. CASE j = Len(mailbox) + 1
    <3>1. stdin[1].op = Program[kind][pos - 1 + (n + 1) - late]
      BY <1>1, <1>4, <1>5, <2>2 DEF CommandsRight, Due, n
    <3> QED BY <1>3, <1>4, <1>5, <2>2, <3>1
  <2> QED BY <1>4, <2>1, <2>2
<1>8. CommandsRight'
  <2> SUFFICES ASSUME NEW j \in 1..Len(stdin'), pos - 1 + (n + 1 + j) - late > 0
               PROVE  stdin'[j].op = Program[kind][pos - 1 + (n + 1 + j) - late]
    <3>1. /\ LineCount(mailbox', Len(mailbox')) = n + 1
          /\ pos' = pos /\ late' = late /\ kind' = kind
      BY <1>2, <1>4
    <3> QED BY <3>1 DEF CommandsRight, Due
  <2>1. j + 1 \in 1..Len(stdin) /\ n + (j + 1) = n + 1 + j
    BY <1>5, <1>6
  <2>2. stdin[j + 1].op = Program[kind][pos - 1 + (n + (j + 1)) - late]
    <3>1. n + (j + 1) = n + 1 + j
      BY <2>1
    <3>2. pos - 1 + (n + (j + 1)) - late > 0
      BY <3>1
    <3> QED BY <1>1, <2>1, <3>2 DEF CommandsRight, Due, n
  <2> QED BY <1>5, <2>1, <2>2
<1>9. AllOwed'
  BY <1>1, <1>2, <1>4, <1>5, <1>6 DEF AllOwed, n
<1> QED BY <1>7, <1>8, <1>9

\* A worker that begins a call finds what the calls before it left: late counts
\* that, and the call's first command comes right after.
LEMMA QueueBegin ==
  ASSUME TypeOK, mailbox # <<>>, Head(mailbox).tag = "call",
         NEW c \in Calls, NEW k \in DOMAIN Program, portUp, Begin(c, k)
  PROVE  QueueInv'
<1> DEFINE n == LineCount(mailbox, Len(mailbox))
<1>1. /\ Cut(mailbox, 1, mailbox') /\ 1 \in DOMAIN mailbox /\ mailbox[1].tag = "call"
      /\ Len(mailbox) \in Nat /\ DOMAIN mailbox = 1..Len(mailbox)
  BY TailCuts, LenProperties DEF Begin, TypeOK
<1>2. /\ Len(mailbox') = Len(mailbox) - 1 /\ Len(mailbox') \in Nat
      /\ 1 \in 1..Len(mailbox)
      /\ \A j \in 1..Len(mailbox') : mailbox'[j] = mailbox[j + 1]
  BY <1>1 DEF Cut
<1>3. ASSUME NEW j \in 0..Len(mailbox')
      PROVE  LineCount(mailbox', j) = LineCount(mailbox, j + 1)
  <2>1. LineCount(mailbox, j + 1)
          = LineCount(mailbox', j) + (IF mailbox[1].tag = "line" THEN 1 ELSE 0)
    BY <1>1, <1>2, CountCut DEF TypeOK
  <2>2. LineCount(mailbox', j) \in Nat
    BY <1>2, CountType
  <2> QED BY <1>1, <2>1, <2>2
<1>4. n \in Nat /\ LineCount(mailbox', Len(mailbox')) = n
  BY <1>1, <1>2, <1>3, CountType
<1>5. late' = n + Len(stdin)
  <2>1. Indices({"line"}) = LinesTo(mailbox, Len(mailbox))
    BY <1>1 DEF Indices, LinesTo
  <2>2. Len(stdin) \in Nat
    BY LenProperties DEF TypeOK
  <2> QED BY <1>4, <2>1, <2>2 DEF Begin, Behind, LineCount
<1>6. /\ pos' = 1 /\ kind' = k /\ portUp' = portUp
      /\ Len(stdin) \in Nat /\ Len(stdin') = Len(stdin) + 1
      /\ stdin'[Len(stdin) + 1] = [op |-> Program[k][1], by |-> c]
  <2>1. [op |-> Program[k][1], by |-> c] \in [op : Ops, by : Calls]
    BY Programs
  <2>2. /\ stdin' = Append(stdin, [op |-> Program[k][1], by |-> c])
        /\ pos' = 1 /\ kind' = k /\ portUp' = portUp
    BY DEF Begin, Send
  <2> QED BY <2>1, <2>2, AppendProperties, LenProperties DEF TypeOK
<1> HIDE DEF n
<1>7. LinesRight'
  <2>1. ASSUME NEW j \in 1..Len(mailbox') PROVE LineCount(mailbox', j) <= n
    BY <1>2, <1>4, <2>1, CountMonotonic
  <2>2. ASSUME NEW j \in 1..Len(mailbox')
        PROVE  ~(1 - 1 + LineCount(mailbox', j) - late' > 0)
    <3>1. LineCount(mailbox', j) \in Nat
      BY CountType
    <3> QED BY <1>4, <1>5, <1>6, <2>1, <3>1
  <2> QED BY <1>6, <2>2 DEF LinesRight, Due
<1>8. CommandsRight'
  <2> SUFFICES ASSUME NEW j \in 1..Len(stdin'), 1 - 1 + (n + j) - late' > 0
               PROVE  stdin'[j].op = Program[k][1 - 1 + (n + j) - late']
    BY <1>4, <1>6 DEF CommandsRight, Due
  <2>1. j = Len(stdin) + 1 /\ 1 - 1 + (n + j) - late' = 1
    BY <1>4, <1>5, <1>6
  <2> QED BY <1>6, <2>1
<1>9. AllOwed'
  BY <1>4, <1>5, <1>6 DEF AllOwed
<1> QED BY <1>7, <1>8, <1>9 DEF QueueInv

\* The line that receive_line takes is the first of the queue.
LEMMA FirstLine ==
  ASSUME TypeOK, NEW i \in Indices({"line", "exit"}), mailbox[i].tag = "line",
         \A j \in Indices({"line", "exit"}) : i <= j
  PROVE  /\ i \in 1..Len(mailbox) /\ Len(mailbox) \in Nat
         /\ \A j \in 1..Len(mailbox) : j < i => mailbox[j].tag # "line"
         /\ LineCount(mailbox, i) = 1
         /\ LineCount(mailbox, i - 1) = 0
<1>1. /\ Len(mailbox) \in Nat /\ DOMAIN mailbox = 1..Len(mailbox)
      /\ i \in 1..Len(mailbox)
  BY LenProperties DEF Indices, TypeOK
<1>2. ASSUME NEW j \in 1..Len(mailbox), j < i PROVE mailbox[j].tag # "line"
  <2>1. ~(i <= j)
    BY <1>1, <1>2
  <2>2. j \notin Indices({"line", "exit"})
    BY <2>1
  <2> QED BY <1>1, <2>2 DEF Indices
<1>3. LinesTo(mailbox, i - 1) = {}
  BY <1>1, <1>2 DEF LinesTo
<1>4. LineCount(mailbox, i - 1) = 0
  BY <1>3, FS_EmptySet DEF LineCount
<1>5. LineCount(mailbox, (i - 1) + 1)
        = LineCount(mailbox, i - 1)
            + (IF mailbox[(i - 1) + 1].tag = "line" THEN 1 ELSE 0)
  <2>1. i - 1 \in Nat
    BY <1>1
  <2> QED BY <2>1, CountStep
<1>6. (i - 1) + 1 = i
  BY <1>1
<1> QED BY <1>1, <1>2, <1>4, <1>5, <1>6

\* The next command is sent: one answer less and one command more are owed.
LEMMA QueueContinue ==
  ASSUME TypeOK, QueueInv, current # Nobody, portUp, Preparing,
         NEW i \in Indices({"line", "exit"}), mailbox[i].tag = "line",
         \A j \in Indices({"line", "exit"}) : i <= j, Continue(i)
  PROVE  QueueInv'
<1> DEFINE n == LineCount(mailbox, Len(mailbox))
<1>1. LinesRight /\ CommandsRight /\ AllOwed
  BY DEF QueueInv
<1>2. /\ i \in 1..Len(mailbox) /\ Len(mailbox) \in Nat
      /\ \A j \in 1..Len(mailbox) : j < i => mailbox[j].tag # "line"
      /\ Cut(mailbox, i, mailbox')
  BY FirstLine, WithoutCuts DEF Continue, Indices, TypeOK
<1>3. /\ Len(mailbox') = Len(mailbox) - 1 /\ Len(mailbox') \in Nat
      /\ \A j \in 1..Len(mailbox') :
           mailbox'[j] = IF j < i THEN mailbox[j] ELSE mailbox[j + 1]
  BY <1>2 DEF Cut
<1>4. ASSUME NEW j \in i - 1..Len(mailbox')
      PROVE  LineCount(mailbox, j + 1) = LineCount(mailbox', j) + 1
  <2>1. LineCount(mailbox, j + 1)
          = LineCount(mailbox', j) + (IF mailbox[i].tag = "line" THEN 1 ELSE 0)
    BY <1>2, CountCut DEF TypeOK
  <2> QED BY <2>1
<1>5. n \in Nat /\ LineCount(mailbox', Len(mailbox')) = n - 1
  <2>1. Len(mailbox') \in i - 1..Len(mailbox') /\ Len(mailbox') + 1 = Len(mailbox)
    BY <1>2, <1>3
  <2>2. n \in Nat /\ LineCount(mailbox', Len(mailbox')) \in Nat
    BY <1>2, <1>3, CountType
  <2>3. n = LineCount(mailbox', Len(mailbox')) + 1
    BY <1>4, <2>1
  <2> QED BY <2>2, <2>3
<1>6. /\ pos' = pos + 1 /\ kind' = kind /\ late' = late /\ portUp' = portUp
      /\ pos \in Nat /\ late \in Nat /\ kind \in DOMAIN Program
  BY Programs DEF Continue, TypeOK
<1>7. /\ Len(stdin) \in Nat /\ Len(stdin') = Len(stdin) + 1
      /\ \A j \in 1..Len(stdin) : stdin'[j] = stdin[j]
      /\ stdin'[Len(stdin) + 1].op = Program[kind][pos + 1]
  <2>1. Program[kind][pos + 1] \in Ops /\ current \in Calls
    <3>1. /\ pos \in 1..Len(Program[kind]) /\ pos < Len(Program[kind])
          /\ Len(Program[kind]) \in 1..3
      BY <1>6, Programs DEF Preparing, Op, TypeOK
    <3>2. pos + 1 \in 1..Len(Program[kind])
      BY <3>1
    <3> QED BY <1>6, <3>2, Programs DEF TypeOK
  <2>2. [op |-> Program[kind][pos + 1], by |-> current] \in [op : Ops, by : Calls]
    BY <2>1
  <2>3. stdin' = Append(stdin, [op |-> Program[kind][pos + 1], by |-> current])
    BY DEF Continue, Send
  <2> QED BY <2>2, <2>3, AppendProperties, LenProperties DEF TypeOK
<1> HIDE DEF n
<1>8. LinesRight'
  <2> SUFFICES ASSUME NEW j \in 1..Len(mailbox'), mailbox'[j].tag = "line",
                      pos + 1 - 1 + LineCount(mailbox', j) - late > 0
               PROVE  mailbox'[j].op
                        = AnswerTo(Program[kind][pos + 1 - 1 + LineCount(mailbox', j) - late])
    BY <1>6 DEF LinesRight, Due
  <2>1. /\ j \in i - 1..Len(mailbox') /\ j + 1 \in 1..Len(mailbox)
        /\ mailbox'[j] = mailbox[j + 1]
    BY <1>2, <1>3
  <2>2. LineCount(mailbox', j) \in Nat
    BY CountType
  <2>3. pos + 1 - 1 + LineCount(mailbox', j) - late
          = pos - 1 + LineCount(mailbox, j + 1) - late
    BY <1>4, <1>6, <2>1, <2>2
  <2> QED BY <1>1, <2>1, <2>3 DEF LinesRight, Due
<1>9. CommandsRight'
  <2> SUFFICES ASSUME NEW j \in 1..Len(stdin'), pos + 1 - 1 + (n - 1 + j) - late > 0
               PROVE  stdin'[j].op = Program[kind][pos + 1 - 1 + (n - 1 + j) - late]
    BY <1>5, <1>6 DEF CommandsRight, Due
  <2>1. pos + 1 - 1 + (n - 1 + j) - late = pos - 1 + (n + j) - late
    BY <1>5, <1>6
  <2>2. CASE j \in 1..Len(stdin)
    BY <1>1, <1>7, <2>1, <2>2 DEF CommandsRight, Due, n
  <2>3. CASE j = Len(stdin) + 1
    <3>1. n + Len(stdin) = late + 1
      BY <1>1 DEF AllOwed, n
    <3>2. pos + 1 - 1 + (n - 1 + j) - late = pos + 1
      BY <1>5, <1>6, <1>7, <2>3, <3>1
    <3> QED BY <1>7, <2>3, <3>2
  <2> QED BY <1>7, <2>2, <2>3
<1>10. AllOwed'
  BY <1>1, <1>5, <1>6, <1>7 DEF AllOwed, n
<1> QED BY <1>8, <1>9, <1>10 DEF QueueInv

\* Every step keeps the queue in order.
LEMMA QueueNext ==
  ASSUME TypeOK, QueueInv, [Next]_vars
  PROVE  QueueInv'
<1>1. ASSUME NEW c \in Calls, Checkout(c) PROVE QueueInv'
  <2>1. PICK k \in KindsOf[c] : mailbox' = Append(mailbox, CallMsg(c, k))
    BY <1>1 DEF Checkout
  <2>2. CallMsg(c, k) \in Messages /\ CallMsg(c, k).tag # "line"
    BY MessageKinds DEF CallMsg
  <2>3. PICK m \in Messages : m.tag # "line" /\ mailbox' = Append(mailbox, m)
    BY <2>1, <2>2
  <2>4. /\ UNCHANGED <<current, kind, pos, late>>
        /\ UNCHANGED <<stdin, portUp>>
    BY <1>1 DEF Checkout, serveVars, portVars
  <2>5. UNCHANGED <<stdin, portUp>> \/ (stdin' = <<>> /\ ~portUp')
    BY <2>4
  <2> QED BY <2>3, <2>4, <2>5, QueueAppend
<1>2. ASSUME UNCHANGED <<mailbox, serveVars, portVars>> PROVE QueueInv'
  BY <1>2 DEF serveVars, portVars, QueueInv, LinesRight, CommandsRight, AllOwed, Due
<1>3. CASE ProgramExits
  <2>1. ExitMsg \in Messages /\ ExitMsg.tag # "line"
    BY MessageKinds DEF ExitMsg
  <2> QED BY <1>3, <2>1, QueueAppend DEF ProgramExits, serveVars
<1>4. CASE current' = Nobody
  BY <1>4 DEF QueueInv
<1>5. CASE WorkerStep /\ current' # Nobody
  <2>1. CASE BeginCall
    <3>1. /\ Head(mailbox).by \in Calls /\ Head(mailbox).op \in DOMAIN Program
          /\ mailbox # <<>> /\ Head(mailbox).tag = "call"
      BY <2>1, TailCuts, MessageKinds DEF BeginCall, TypeOK
    <3>2. portUp /\ Begin(Head(mailbox).by, Head(mailbox).op)
      BY <1>5, <2>1 DEF BeginCall, Dies
    <3> QED BY <3>1, <3>2, QueueBegin
  <2>2. CASE Receive
    <3>1. PICK i \in Indices({"line", "exit"}) :
            /\ \A j \in Indices({"line", "exit"}) : i <= j
            /\ \/ mailbox[i].tag = "line" /\ Accept(i)
               \/ Unusable(mailbox[i]) /\ Fails(Without(i))
      BY <2>2 DEF Receive
    <3>2. /\ mailbox[i].tag = "line" /\ current # Nobody /\ portUp
          /\ Preparing /\ Continue(i)
      BY <1>5, <2>2, <3>1 DEF Receive, Accept, Fails, Reply, Dies
    <3> QED BY <3>1, <3>2, QueueContinue
  <2>3. ~DropLine /\ ~StopOnExit /\ ~TimesOut
    BY <1>5 DEF DropLine, StopOnExit, TimesOut, Fails, Reply, Dies, serveVars
  <2> QED BY <1>5, <2>1, <2>2, <2>3 DEF WorkerStep
<1>6. CASE UNCHANGED vars
  BY <1>2, <1>6 DEF vars
<1> QED
  BY <1>1, <1>2, <1>3, <1>4, <1>5, <1>6, QueueExecute DEF Next, GiveUp

\* The line that ends a call which began behind: if the call sends more commands
\* than were owed, the line answers one of those that prepare, and fits nothing.
LEMMA LateLine ==
  ASSUME TypeOK, QueueInv, current # Nobody, ~Preparing,
         NEW i \in Indices({"line", "exit"}), mailbox[i].tag = "line",
         \A j \in Indices({"line", "exit"}) : i <= j, Fits(mailbox[i])
  PROVE  late = 0 \/ late >= Len(Program[kind])
<1> SUFFICES ASSUME late # 0, ~(late >= Len(Program[kind])) PROVE FALSE
  OBVIOUS
<1>1. /\ pos \in 1..Len(Program[kind]) /\ Len(Program[kind]) \in 1..3
      /\ kind \in DOMAIN Program /\ late \in Nat
  BY Programs DEF TypeOK
<1>2. pos = Len(Program[kind])
  BY <1>1, Programs DEF Preparing, Op
<1>3. LineCount(mailbox, i) = 1 /\ i \in 1..Len(mailbox)
  BY FirstLine
<1>4. pos - 1 + 1 - late = pos - late /\ pos - late > 0
      /\ pos - late \in 1..Len(Program[kind]) /\ pos - late < Len(Program[kind])
  BY <1>1, <1>2
<1>5. mailbox[i].op = AnswerTo(Program[kind][pos - late])
  BY <1>3, <1>4 DEF QueueInv, LinesRight, Due
<1>6. Program[kind][pos - late] \in {"retract_all", "assert"}
  BY <1>1, <1>4, Programs
<1>7. mailbox[i].op = "ok"
  BY <1>5, <1>6 DEF AnswerTo
<1>8. Op = "reload"
  BY <1>7 DEF Fits
<1>9. Len(Program[kind]) = 1
  BY <1>1, <1>8, Programs DEF Op
<1> QED BY <1>1, <1>9

\* The reply changes only in these ways.
LEMMA Replies ==
  ASSUME TypeOK, [Next]_vars, reply'.type = "ok"
  PROVE  \/ reply' = reply
         \/ /\ current # Nobody /\ ~Preparing
            /\ \E i \in Indices({"line", "exit"}) :
                 /\ mailbox[i].tag = "line" /\ Fits(mailbox[i])
                 /\ \A j \in Indices({"line", "exit"}) : i <= j
                 /\ reply' = [type |-> "ok", to |-> current, kind |-> kind,
                              facts |-> mailbox[i].facts, late |-> late]
<1>1. CASE WorkerStep
  <2>1. ~BeginCall /\ ~StopOnExit /\ ~TimesOut /\ ~Dies
    BY DEF BeginCall, Begin, StopOnExit, TimesOut, Fails, Reply, Dies, NoReply
  <2>2. CASE DropLine
    BY <2>2 DEF DropLine, serveVars
  <2>3. CASE Receive
    <3>1. PICK i \in Indices({"line", "exit"}) :
            /\ \A j \in Indices({"line", "exit"}) : i <= j
            /\ \/ mailbox[i].tag = "line" /\ Accept(i)
               \/ Unusable(mailbox[i]) /\ Fails(Without(i))
      BY <2>3 DEF Receive
    <3>2. CASE Preparing
      BY <2>1, <3>1, <3>2 DEF Accept, Fails, Continue, Preparing, Fits
    <3>3. CASE ~Preparing
      <4>1. ~Fails(Without(i))
        BY <2>1, <3>3 DEF Fails, Reply
      <4>2. Fits(mailbox[i]) /\ Reply("ok", mailbox[i].facts)
        BY <2>1, <3>1, <3>3, <4>1 DEF Accept
      <4> QED BY <2>3, <3>1, <3>3, <4>1, <4>2 DEF Receive, Reply
    <3> QED BY <3>2, <3>3
  <2> QED BY <1>1, <2>1, <2>2, <2>3 DEF WorkerStep
<1>2. CASE ~WorkerStep
  BY <1>2 DEF Next, Checkout, GiveUp, Execute, ProgramExits, vars, serveVars
<1> QED BY <1>1, <1>2

\* A worker that begins a call with answers still to come does not answer it,
\* unless as many were owed as the call has commands: for every interleaving of
\* timeouts, late answers and calls given up.
THEOREM LateIsFound == Spec => []LateIsCaught
<1>1. Init => QueueInv /\ LateIsCaught
  BY DEF Init, QueueInv, LateIsCaught, NoReply
<1>2. TypeOK /\ QueueInv /\ LateIsCaught /\ [Next]_vars => QueueInv' /\ LateIsCaught'
  <2> SUFFICES ASSUME TypeOK, QueueInv, LateIsCaught, [Next]_vars
               PROVE  QueueInv' /\ LateIsCaught'
    OBVIOUS
  <2>1. ASSUME reply'.type = "ok"
        PROVE  reply'.late = 0 \/ reply'.late >= Len(Program[reply'.kind])
    BY <2>1, Replies, LateLine DEF LateIsCaught
  <2> QED BY <2>1, QueueNext DEF LateIsCaught
<1> QED BY <1>1, <1>2, TypeCorrect, PTL DEF Spec
----------------------------------------------------------------------------
(* Whose facts are in the engine while a decision is made that began with    *)
(* nothing owed: then there is one command or one line on its way at most.   *)

Own(c) ==
  /\ \A j \in 1..Len(stdin) : stdin[j].by = c
  /\ \A j \in 1..Len(mailbox) :
       mailbox[j].tag = "line" /\ mailbox[j].op = "result" => mailbox[j].facts = {c}
  /\ portUp => /\ pos = 1 /\ stdin = <<>> => engine = {}
               /\ pos = 2 /\ stdin # <<>> => engine = {}
               /\ pos = 2 /\ stdin = <<>> => engine = {c}
               /\ pos = 3 => engine = {c}

OwnInv ==
  /\ ~portUp => stdin = <<>>
  /\ current # Nobody /\ kind = "decide" /\ late = 0 => Own(current)

\* The commands of a decision.
LEMMA Decision ==
  /\ "decide" \in DOMAIN Program /\ Len(Program["decide"]) = 3
  /\ Program["decide"][1] = "retract_all" /\ Program["decide"][2] = "assert"
  /\ Program["decide"][3] = "run"
BY DEF Program

\* With nothing owed but one answer, that is a line or a command.
LEMMA OneOwed ==
  ASSUME TypeOK, QueueInv, current # Nobody, portUp, late = 0
  PROVE  /\ Len(stdin) \in {0, 1}
         /\ Len(stdin) = 1 => /\ \A j \in 1..Len(mailbox) : mailbox[j].tag # "line"
                              /\ stdin[1].op = Program[kind][pos]
         /\ (\E j \in 1..Len(mailbox) : mailbox[j].tag = "line") => stdin = <<>>
<1> DEFINE n == LineCount(mailbox, Len(mailbox))
<1>1. /\ n \in Nat /\ Len(stdin) \in Nat /\ n + Len(stdin) = 1 /\ pos \in Nat
  <2>1. pos \in Nat
    BY Programs DEF TypeOK
  <2> QED BY <2>1, CountType, LenProperties DEF QueueInv, AllOwed, TypeOK
<1>2. ASSUME n = 0 PROVE \A j \in 1..Len(mailbox) : mailbox[j].tag # "line"
  <2>1. LinesTo(mailbox, Len(mailbox)) = {}
    BY <1>2, CountType, FS_EmptySet, LenProperties DEF LineCount, TypeOK
  <2> QED BY <2>1 DEF LinesTo
<1>3. ASSUME Len(stdin) = 1 PROVE stdin[1].op = Program[kind][pos]
  <2>1. n = 0
    BY <1>1, <1>3
  <2>2. n + 1 = 1 /\ pos - 1 + 1 - late = pos /\ pos > 0 /\ 1 \in 1..Len(stdin)
    BY <1>1, <1>3, <2>1, Programs DEF TypeOK
  <2> HIDE DEF n
  <2> QED BY <2>2 DEF QueueInv, CommandsRight, Due, n
<1>4. Len(stdin) = 0 => stdin = <<>>
  BY EmptySeq DEF TypeOK
<1> HIDE DEF n
<1>5. CASE Len(stdin) = 1
  <2>1. n = 0
    BY <1>1, <1>5
  <2> QED BY <1>2, <1>3, <1>5, <2>1
<1>6. CASE Len(stdin) = 0
  BY <1>4, <1>6
<1>7. Len(stdin) \in {0, 1}
  BY <1>1
<1> QED BY <1>5, <1>6, <1>7

\* The call has the engine to itself: what it finds there is what it put there.
LEMMA OwnNext ==
  ASSUME TypeOK, QueueInv, OwnInv, [Next]_vars
  PROVE  OwnInv'
<1>1. ASSUME NEW m, m.tag # "line", mailbox' = Append(mailbox, m), m \in Messages,
             UNCHANGED <<serveVars, portVars>>
      PROVE  OwnInv'
  <2>1. /\ Len(mailbox) \in Nat /\ Len(mailbox') = Len(mailbox) + 1
        /\ mailbox'[Len(mailbox) + 1] = m
        /\ \A j \in 1..Len(mailbox) : mailbox'[j] = mailbox[j]
    BY <1>1, CountAppend
  <2>2. \A j \in 1..Len(mailbox') :
          mailbox'[j].tag = "line" => j \in 1..Len(mailbox)
    BY <1>1, <2>1
  <2> QED BY <1>1, <2>1, <2>2 DEF OwnInv, Own, serveVars, portVars
<1>2. ASSUME UNCHANGED <<mailbox, serveVars, portVars>> PROVE OwnInv'
  BY <1>2 DEF OwnInv, Own, serveVars, portVars
<1>3. ASSUME NEW c \in Calls, Checkout(c) PROVE OwnInv'
  <2>1. PICK k \in KindsOf[c] : mailbox' = Append(mailbox, CallMsg(c, k))
    BY <1>3 DEF Checkout
  <2>2. CallMsg(c, k) \in Messages /\ CallMsg(c, k).tag # "line"
    BY MessageKinds DEF CallMsg
  <2>3. PICK m \in Messages : m.tag # "line" /\ mailbox' = Append(mailbox, m)
    BY <2>1, <2>2
  <2> QED BY <1>1, <1>3, <2>3 DEF Checkout
<1>4. CASE ProgramExits
  <2>1. ExitMsg \in Messages /\ ExitMsg.tag # "line"
    BY MessageKinds DEF ExitMsg
  <2>2. /\ Len(mailbox) \in Nat /\ Len(mailbox') = Len(mailbox) + 1
        /\ mailbox'[Len(mailbox) + 1] = ExitMsg
        /\ \A j \in 1..Len(mailbox) : mailbox'[j] = mailbox[j]
    BY <1>4, <2>1, CountAppend DEF ProgramExits
  <2>3. \A j \in 1..Len(mailbox') :
          mailbox'[j].tag = "line" => j \in 1..Len(mailbox)
    BY <2>1, <2>2
  <2>4. ~portUp' /\ stdin' = <<>> /\ 1..Len(stdin') = {}
    BY <1>4 DEF ProgramExits
  <2> QED BY <1>4, <2>2, <2>3, <2>4 DEF ProgramExits, OwnInv, Own, serveVars
<1>5. CASE Execute
  <2>1. /\ stdin # <<>> /\ stdin' = Tail(stdin) /\ portUp
        /\ UNCHANGED <<current, kind, pos, late, portUp>>
    BY <1>5 DEF Execute, OwnInv, serveVars
  <2> SUFFICES ASSUME current # Nobody, kind = "decide", late = 0
               PROVE  Own(current)'
    BY <2>1 DEF OwnInv
  <2>2. /\ Len(stdin) = 1 /\ stdin[1].op = Program[kind][pos]
        /\ \A j \in 1..Len(mailbox) : mailbox[j].tag # "line"
    <3>1. Len(stdin) \in Nat \ {0}
      BY <2>1, EmptySeq DEF TypeOK
    <3> QED BY <2>1, <3>1, OneOwed
  <2>3. stdin' = <<>> /\ Head(stdin) = stdin[1]
    <3>1. /\ Tail(stdin) \in Seq([op : Ops, by : Calls])
          /\ Len(Tail(stdin)) = Len(stdin) - 1
      BY <2>1, HeadTailProperties DEF TypeOK
    <3>2. Len(Tail(stdin)) = 0
      BY <2>2, <3>1
    <3>3. Tail(stdin) = <<>>
      BY <3>1, <3>2, EmptySeq
    <3> QED BY <2>1, <3>3
  <2>4. stdin[1].by = current /\ pos \in 1..3
    BY <2>2, Decision, Programs DEF OwnInv, Own, TypeOK
  <2>5. /\ Len(mailbox) \in Nat /\ Len(mailbox') = Len(mailbox) + 1
        /\ mailbox'[Len(mailbox) + 1] = IF stdin[1].op = "run" THEN Line("result", engine)
             ELSE IF stdin[1].op = "ping" THEN Line("pong", {}) ELSE Line("ok", {})
        /\ \A j \in 1..Len(mailbox) : mailbox'[j] = mailbox[j]
    <3>1. PICK m \in Messages :
            /\ m = IF stdin[1].op = "run" THEN Line("result", engine)
                   ELSE IF stdin[1].op = "ping" THEN Line("pong", {}) ELSE Line("ok", {})
            /\ mailbox' = Append(mailbox, m)
      <4>1. /\ Line("result", engine) \in Messages
            /\ Line("pong", {}) \in Messages /\ Line("ok", {}) \in Messages
        BY DEF Messages, TypeOK
      <4> QED BY <1>5, <2>3, <4>1 DEF Execute
    <3> QED BY <3>1, CountAppend
  <2>6. engine' = IF pos = 1 THEN {} ELSE {current}
    <3>1. CASE pos = 1
      BY <1>5, <2>2, <2>3, <3>1, Decision DEF Execute
    <3>2. CASE pos = 2
      <4>1. engine = {} /\ stdin[1].op = "assert"
        BY <2>1, <2>2, <3>2, Decision DEF OwnInv, Own
      <4> QED BY <1>5, <2>3, <2>4, <3>2, <4>1 DEF Execute
    <3>3. CASE pos = 3
      <4>1. engine = {current} /\ stdin[1].op = "run"
        BY <2>1, <2>2, <3>3, Decision DEF OwnInv, Own
      <4> QED BY <1>5, <2>3, <3>3, <4>1 DEF Execute
    <3> QED BY <2>4, <3>1, <3>2, <3>3
  <2>7. ASSUME NEW j \in 1..Len(mailbox'), mailbox'[j].tag = "line",
               mailbox'[j].op = "result"
        PROVE  mailbox'[j].facts = {current}
    <3>1. j = Len(mailbox) + 1
      BY <2>2, <2>5, <2>7
    <3>2. stdin[1].op = "run" /\ mailbox'[j].facts = engine
      <4>1. /\ Line("pong", {}).op # "result" /\ Line("ok", {}).op # "result"
            /\ Line("result", engine).facts = engine
        BY DEF Line
      <4>2. mailbox'[j] = IF stdin[1].op = "run" THEN Line("result", engine)
              ELSE IF stdin[1].op = "ping" THEN Line("pong", {}) ELSE Line("ok", {})
        BY <2>5, <3>1
      <4>3. stdin[1].op = "run"
        BY <2>7, <4>1, <4>2
      <4> QED BY <4>1, <4>2, <4>3
    <3>3. pos = 3
      <4>1. pos = 1 => stdin[1].op = "retract_all"
        BY <2>2, Decision
      <4>2. pos = 2 => stdin[1].op = "assert"
        BY <2>2, Decision
      <4> QED BY <2>4, <3>2, <4>1, <4>2
    <3> QED BY <2>1, <3>2, <3>3 DEF OwnInv, Own
  <2>8. 1..Len(stdin') = {}
    BY <2>3
  <2>9. /\ current' = current
        /\ pos' = 1 /\ stdin' = <<>> => engine' = {}
        /\ pos' = 2 /\ stdin' # <<>> => engine' = {}
        /\ pos' = 2 /\ stdin' = <<>> => engine' = {current}
        /\ pos' = 3 => engine' = {current}
    BY <2>1, <2>3, <2>6
  <2> QED BY <2>7, <2>8, <2>9 DEF Own
<1>6. CASE Dies
  BY <1>6 DEF Dies, OwnInv
<1>7. CASE UNCHANGED portVars /\ current' = Nobody
  BY <1>7 DEF OwnInv, portVars
<1>8. CASE BeginCall /\ ~Dies
  <2>1. PICK c \in Calls, k \in DOMAIN Program :
          /\ portUp /\ Begin(c, k) /\ mailbox # <<>>
          /\ Cut(mailbox, 1, Tail(mailbox))
    BY <1>8, TailCuts, MessageKinds DEF BeginCall, TypeOK
  <2>2. /\ current' = c /\ kind' = k /\ late' = Behind /\ pos' = 1 /\ portUp' = portUp
        /\ stdin' = Append(stdin, [op |-> Program[k][1], by |-> c])
        /\ mailbox' = Tail(mailbox)
    BY <2>1 DEF Begin, Send
  <2> SUFFICES ASSUME Behind = 0 PROVE Own(c)'
    <3>1. portUp'
      BY <2>1, <2>2
    <3>2. current' # Nobody /\ kind' = "decide" /\ late' = 0 => Own(current)'
      BY <2>2 DEF Own
    <3> QED BY <3>1, <3>2 DEF OwnInv
  <2>3. /\ IsFiniteSet(Indices({"line"})) /\ Len(stdin) \in Nat
        /\ DOMAIN mailbox = 1..Len(mailbox) /\ Len(mailbox) \in Nat
    <3>1. /\ Len(stdin) \in Nat /\ DOMAIN mailbox = 1..Len(mailbox)
          /\ Len(mailbox) \in Nat
      BY LenProperties DEF TypeOK
    <3>2. Indices({"line"}) = LinesTo(mailbox, Len(mailbox))
      BY <3>1 DEF Indices, LinesTo
    <3> QED BY <3>1, <3>2, CountType
  <2>4. Cardinality(Indices({"line"})) = 0 /\ Len(stdin) = 0
    BY <2>3, FS_CardinalityType DEF Behind
  <2>5. Indices({"line"}) = {} /\ stdin = <<>>
    BY <2>3, <2>4, FS_EmptySet, EmptySeq DEF TypeOK
  <2>6. \A j \in 1..Len(mailbox') : mailbox'[j].tag # "line"
    <3>1. \A j \in 1..Len(mailbox) : mailbox[j].tag # "line"
      BY <2>3, <2>5 DEF Indices
    <3>2. /\ Len(mailbox') = Len(mailbox) - 1
          /\ \A j \in 1..Len(mailbox') : mailbox'[j] = mailbox[j + 1]
      BY <2>1, <2>2 DEF Cut
    <3>3. \A j \in 1..Len(mailbox') : j + 1 \in 1..Len(mailbox)
      BY <2>3, <3>2
    <3> QED BY <3>1, <3>2, <3>3
  <2>7. stdin' = <<[op |-> Program[k][1], by |-> c]>>
    BY <2>2, <2>5
  <2>8. \A j \in 1..Len(stdin') : stdin'[j].by = c
    BY <2>7
  <2>9. stdin' # <<>>
    BY <2>7
  <2>10. ~(pos' = 1 /\ stdin' = <<>>) /\ pos' # 2 /\ pos' # 3
    BY <2>2, <2>9
  <2> QED BY <2>6, <2>8, <2>10 DEF Own
<1>9. CASE Receive /\ ~Dies /\ current' # Nobody
  <2>1. PICK i \in Indices({"line", "exit"}) :
          /\ \A j \in Indices({"line", "exit"}) : i <= j
          /\ \/ mailbox[i].tag = "line" /\ Accept(i)
             \/ Unusable(mailbox[i]) /\ Fails(Without(i))
    BY <1>9 DEF Receive
  <2>2. /\ current # Nobody /\ mailbox[i].tag = "line" /\ Preparing /\ portUp
        /\ Continue(i) /\ i \in DOMAIN mailbox
    BY <1>9, <2>1 DEF Receive, Accept, Fails, Reply, Indices
  <2>3. /\ current' = current /\ kind' = kind /\ late' = late /\ pos' = pos + 1
        /\ portUp' = portUp /\ engine' = engine /\ mailbox' = Without(i)
        /\ stdin' = Append(stdin, [op |-> Program[kind][pos + 1], by |-> current])
    BY <2>2 DEF Continue, Send
  <2> SUFFICES ASSUME kind = "decide", late = 0 PROVE Own(current)'
    BY <2>2, <2>3 DEF OwnInv
  <2>4. stdin = <<>> /\ Own(current)
    <3>1. i \in 1..Len(mailbox)
      BY <2>2, LenProperties DEF TypeOK
    <3> QED BY <2>2, <3>1, OneOwed DEF OwnInv
  <2>5. stdin' = <<[op |-> Program[kind][pos + 1], by |-> current]>>
    BY <2>3, <2>4
  <2>6. (\A j \in 1..Len(stdin') : stdin'[j].by = current) /\ stdin' # <<>>
    BY <2>5
  <2>7. pos \in {1, 2} /\ engine = IF pos = 1 THEN {} ELSE {current}
    <3>1. pos \in 1..3 /\ pos < 3
      BY <2>2, Decision, Programs DEF TypeOK, Preparing, Op
    <3> QED BY <2>2, <2>4, <3>1 DEF Own
  <2>8. ASSUME NEW j \in 1..Len(mailbox'), mailbox'[j].tag = "line",
               mailbox'[j].op = "result"
        PROVE  mailbox'[j].facts = {current}
    <3>1. /\ Len(mailbox) \in Nat /\ Len(mailbox') = Len(mailbox) - 1
          /\ mailbox'[j] = IF j < i THEN mailbox[j] ELSE mailbox[j + 1]
      BY <2>2, <2>3, WithoutCuts, LenProperties DEF Cut, TypeOK
    <3>2. j \in 1..Len(mailbox) /\ j + 1 \in 1..Len(mailbox)
      BY <3>1
    <3> QED BY <2>4, <2>8, <3>1, <3>2 DEF Own
  <2> QED BY <2>2, <2>3, <2>6, <2>7, <2>8 DEF Own
<1>10. WorkerStep => \/ Dies \/ (UNCHANGED portVars /\ current' = Nobody)
                     \/ BeginCall /\ ~Dies
                     \/ Receive /\ ~Dies /\ current' # Nobody
  <2>1. BeginCall \/ StopOnExit => Dies \/ (BeginCall /\ ~Dies)
    BY DEF StopOnExit
  <2>2. DropLine => UNCHANGED portVars /\ current' = Nobody
    BY DEF DropLine, serveVars, portVars
  <2>3. TimesOut => Dies \/ (UNCHANGED portVars /\ current' = Nobody)
    BY DEF TimesOut, Fails, Reply
  <2>4. Receive /\ current' = Nobody => Dies \/ UNCHANGED portVars
    BY DEF Receive, Accept, Continue, Fails, Reply
  <2> QED BY <2>1, <2>2, <2>3, <2>4 DEF WorkerStep
<1> QED
  BY <1>1, <1>2, <1>3, <1>4, <1>5, <1>6, <1>7, <1>8, <1>9, <1>10
  DEF Next, GiveUp, vars

\* A decision that is answered was made on the facts of its own call, all of
\* them and no others, unless the worker was three answers behind.
THEOREM OwnFacts == Spec => []DecidedOnOwnFacts
<1>1. Init => QueueInv /\ OwnInv /\ LateIsCaught /\ DecidedOnOwnFacts
  BY DEF Init, QueueInv, OwnInv, LateIsCaught, DecidedOnOwnFacts, NoReply
<1>2. TypeOK /\ QueueInv /\ OwnInv /\ DecidedOnOwnFacts /\ [Next]_vars
        => QueueInv' /\ OwnInv' /\ DecidedOnOwnFacts'
  <2> SUFFICES ASSUME TypeOK, QueueInv, OwnInv, DecidedOnOwnFacts, [Next]_vars
               PROVE  QueueInv' /\ OwnInv' /\ DecidedOnOwnFacts'
    OBVIOUS
  <2>1. ASSUME reply'.type = "ok", reply'.kind = "decide",
               reply'.late < Len(Program["decide"]), reply' # reply
        PROVE  reply'.facts = {reply'.to}
    <3>1. PICK i \in Indices({"line", "exit"}) :
            /\ mailbox[i].tag = "line" /\ Fits(mailbox[i])
            /\ \A j \in Indices({"line", "exit"}) : i <= j
            /\ reply' = [type |-> "ok", to |-> current, kind |-> kind,
                         facts |-> mailbox[i].facts, late |-> late]
      BY <2>1, Replies
    <3>2. current # Nobody /\ ~Preparing
      BY <2>1, Replies
    <3>3. kind = "decide" /\ late < Len(Program[kind]) /\ late \in Nat
      BY <2>1, <3>1 DEF TypeOK
    <3>4. late = 0
      BY <3>1, <3>2, <3>3, LateLine, Decision
    <3>5. Op = "run" /\ mailbox[i].op = "result"
      BY <3>1, <3>2, <3>3, Decision, Programs DEF Preparing, Op, Fits, TypeOK
    <3>6. i \in 1..Len(mailbox)
      BY LenProperties DEF Indices, TypeOK
    <3> QED BY <3>1, <3>2, <3>3, <3>4, <3>5, <3>6 DEF OwnInv, Own
  <2>2. DecidedOnOwnFacts'
    BY <2>1 DEF DecidedOnOwnFacts
  <2> QED BY <2>2, QueueNext, OwnNext
<1> QED BY <1>1, <1>2, TypeCorrect, PTL DEF Spec
=============================================================================
