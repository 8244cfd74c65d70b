----------------------------- MODULE ClipsPort -----------------------------
(***************************************************************************)
(* A worker of the rule engine pool, ersub_clips_worker, with its callers, *)
(* ersub_clips_pool, and the C program behind its port, ersub_clips.c.     *)
(*                                                                         *)
(* A caller checks the worker out, calls it and gives it back when the     *)
(* call is over, also when it gave up: then the worker may still be in the *)
(* middle of the call.  The worker serves a call with one to three         *)
(* commands, each a line for the program, and takes the next line from the *)
(* port as the answer to the command it has just sent.  Lines carry no     *)
(* number, so after a command that timed out the answers are behind.       *)
(*                                                                         *)
(* The pool is one worker: workers share nothing.  What the rules compute  *)
(* is left out: an answer to "run" tells whose facts were in the engine.   *)
(* A call is used once; their number bounds the model, and MaxExits bounds *)
(* the deaths of the program.                                              *)
(***************************************************************************)
EXTENDS Integers, Sequences, FiniteSets

CONSTANTS
  Calls,
  KindsOf,   \* what a call may ask for
  MaxExits,
  Nobody

VARIABLES
  phase,   \* of a call: "new", "waiting" or "over"
  lease,   \* who has the worker checked out
  mailbox, \* of the worker: calls, lines and the port's exit_status
  current, \* the call the worker serves
  kind,    \* what it asks for
  pos,     \* how many of its commands have been sent
  late,    \* history: answers still to come when the worker began it
  reply,   \* history: the worker's reply to the call it served last
  portUp,
  stdin,   \* commands the program has not read
  engine,  \* whose facts are asserted
  exits

callVars == <<phase, lease>>
serveVars == <<current, kind, pos, late, reply>>
portVars == <<portUp, stdin, engine, exits>>
vars == <<callVars, mailbox, serveVars, portVars>>

ProgramWithoutReset == [decide |-> <<"assert", "run">>,
                        facts  |-> <<"retract_all", "run">>,
                        config |-> <<"run">>,
                        reload |-> <<"reload">>,
                        ping   |-> <<"ping">>]

\* The commands of each kind of call.
Program == [decide |-> <<"retract_all", "assert", "run">>,  \* most calls
            facts  |-> <<"retract_all", "run">>,            \* get_all_facts
            config |-> <<"run">>,                           \* get_*_config
            reload |-> <<"reload">>,
            ping   |-> <<"ping">>]

ASSUME ClipsAssumption ==
  /\ Nobody \notin Calls /\ MaxExits \in Nat
  /\ KindsOf \in [Calls -> SUBSET DOMAIN Program]

Ops == {"retract_all", "assert", "run", "reload", "ping"}
NoReply == [type |-> "none", to |-> Nobody, kind |-> "ping", facts |-> {},
            late |-> 0]

CallMsg(c, k) == [tag |-> "call", op |-> k, by |-> c, facts |-> {}]
ExitMsg == [tag |-> "exit", op |-> "exit", by |-> Nobody, facts |-> {}]
Line(op, fs) == [tag |-> "line", op |-> op, by |-> Nobody, facts |-> fs]

Init ==
  /\ phase = [c \in Calls |-> "new"]
  /\ lease = Nobody
  /\ mailbox = <<>>
  /\ current = Nobody /\ kind = "ping" /\ pos = 0 /\ late = 0
  /\ reply = NoReply
  /\ portUp = TRUE /\ stdin = <<>> /\ engine = {} /\ exits = 0

----------------------------------------------------------------------------
(* Callers. *)

\* with_worker: checkout and gen_server:call.
Checkout(c) ==
  /\ phase[c] = "new" /\ lease = Nobody
  /\ phase' = [phase EXCEPT ![c] = "waiting"]
  /\ lease' = c
  /\ \E k \in KindsOf[c] : mailbox' = Append(mailbox, CallMsg(c, k))
  /\ UNCHANGED <<serveVars, portVars>>

\* The 5 or 10 s of the call are over, or the caller is killed; checkin.
GiveUp(c) ==
  /\ phase[c] = "waiting"
  /\ phase' = [phase EXCEPT ![c] = "over"]
  /\ lease' = Nobody
  /\ UNCHANGED <<mailbox, serveVars, portVars>>

----------------------------------------------------------------------------
(* The worker. *)

Indices(tags) == {i \in DOMAIN mailbox : mailbox[i].tag \in tags}
Behind == Len(stdin) + Cardinality(Indices({"line"}))

Send(c, op) == stdin' = Append(stdin, [op |-> op, by |-> c])

\* The reply reaches the caller if it still waits, and it gives the worker
\* back; answers of the port that are late stay.
Reply(type, facts) ==
  /\ IF phase[current] = "waiting"
       THEN phase' = [phase EXCEPT ![current] = "over"] /\ lease' = Nobody
       ELSE UNCHANGED callVars
  /\ reply' = [type |-> type, to |-> current, kind |-> kind,
               facts |-> facts, late |-> late]
  /\ current' = Nobody /\ kind' = "ping" /\ pos' = 0 /\ late' = 0
  /\ UNCHANGED portVars

\* The worker dies and with it the port, its callers exit, and the pool
\* starts a new worker with a new port.
Dies ==
  /\ phase' = [c \in Calls |->
                 IF phase[c] = "waiting" THEN "over" ELSE phase[c]]
  /\ lease' = Nobody
  /\ mailbox' = <<>>
  /\ current' = Nobody /\ kind' = "ping" /\ pos' = 0 /\ late' = 0
  /\ reply' = NoReply
  /\ portUp' = TRUE /\ stdin' = <<>> /\ engine' = {}
  /\ UNCHANGED exits

Begin(c, k) ==
  /\ mailbox' = Tail(mailbox)
  /\ current' = c /\ kind' = k /\ pos' = 1 /\ late' = Behind
  /\ Send(c, Program[k][1])
  /\ reply' = NoReply
  /\ UNCHANGED <<callVars, portUp, engine, exits>>

\* handle_call.  port_command to a closed port is an error.
BeginCall ==
  /\ current = Nobody /\ mailbox # <<>> /\ Head(mailbox).tag = "call"
  /\ \/ portUp /\ Begin(Head(mailbox).by, Head(mailbox).op)
     \/ ~portUp /\ Dies

\* handle_info of a line nobody waits for any more.
DropLine ==
  /\ current = Nobody /\ mailbox # <<>> /\ Head(mailbox).tag = "line"
  /\ mailbox' = Tail(mailbox)
  /\ UNCHANGED <<callVars, serveVars, portVars>>

StopOnExit ==
  /\ current = Nobody /\ mailbox # <<>> /\ Head(mailbox).tag = "exit"
  /\ Dies

Op == Program[kind][pos]

\* receive_line takes the first line or exit_status, whatever is before it.
Without(i) == SubSeq(mailbox, 1, i - 1) \o SubSeq(mailbox, i + 1, Len(mailbox))

Preparing == Op \in {"retract_all", "assert"}

\* The next command.
Continue(i) ==
  /\ Send(current, Program[kind][pos + 1])
  /\ pos' = pos + 1
  /\ mailbox' = Without(i)
  /\ UNCHANGED <<callVars, current, kind, late, reply, portUp, engine, exits>>

FitsAny(line) == ~Preparing

\* run and ping have no clause for another operation's answer, reload takes
\* any.
Fits(line) ==
  \/ Op = "reload"
  \/ Op = "run" /\ line.op = "result"
  \/ Op = "ping" /\ line.op = "pong"

\* retract_all and assert go on with any line.
Accept(i) ==
  \/ Preparing /\ portUp /\ Continue(i)
  \/ Preparing /\ ~portUp /\ Dies
  \/ /\ Fits(mailbox[i])
     /\ mailbox' = Without(i)
     /\ Reply("ok", mailbox[i].facts)
  \/ ~Preparing /\ ~Fits(mailbox[i]) /\ Dies

\* {error, _}: retract_all and assert have no clause for it.
Fails(mb) ==
  IF Preparing THEN Dies ELSE mailbox' = mb /\ Reply("error", {})

\* exit_status, or a line that is not JSON: the program prints the strings of
\* a result as they are.
Unusable(m) == m.tag = "exit" \/ m.op = "result"

Receive ==
  /\ current # Nobody
  /\ \E i \in Indices({"line", "exit"}) :
       /\ \A j \in Indices({"line", "exit"}) : i <= j
       /\ \/ mailbox[i].tag = "line" /\ Accept(i)
          \/ Unusable(mailbox[i]) /\ Fails(Without(i))

TimesOutInRun ==
  /\ current # Nobody /\ ~Preparing
  /\ Indices({"line", "exit"}) = {}
  /\ Fails(mailbox)

\* 10 s without a line.
TimesOut ==
  /\ current # Nobody
  /\ Indices({"line", "exit"}) = {}
  /\ Fails(mailbox)

WorkerStep == BeginCall \/ DropLine \/ StopOnExit \/ Receive \/ TimesOut

----------------------------------------------------------------------------
(* The program: one line in, one line out. *)

Execute ==
  LET cmd == Head(stdin)
      answer == CASE cmd.op = "run" -> Line("result", engine)
                  [] cmd.op = "ping" -> Line("pong", {})
                  [] OTHER -> Line("ok", {})
  IN /\ stdin # <<>>
     /\ stdin' = Tail(stdin)
     /\ engine' = CASE cmd.op \in {"retract_all", "reload"} -> {}
                    [] cmd.op = "assert" -> engine \cup {cmd.by}
                    [] OTHER -> engine
     /\ mailbox' = Append(mailbox, answer)
     /\ UNCHANGED <<callVars, serveVars, portUp, exits>>

ProgramExits ==
  /\ portUp /\ exits < MaxExits
  /\ portUp' = FALSE /\ exits' = exits + 1
  /\ stdin' = <<>> /\ engine' = {}
  /\ mailbox' = Append(mailbox, ExitMsg)
  /\ UNCHANGED <<callVars, serveVars>>

Next ==
  \/ \E c \in Calls : Checkout(c) \/ GiveUp(c)
  \/ WorkerStep
  \/ Execute
  \/ ProgramExits

Spec == Init /\ [][Next]_vars

\* Only the worker is fair: the program may hang and callers may be patient.
FairSpec == Spec /\ WF_vars(WorkerStep)

----------------------------------------------------------------------------
Messages ==
  {CallMsg(c, k) : c \in Calls, k \in DOMAIN Program} \cup {ExitMsg}
    \cup {Line("result", fs) : fs \in SUBSET Calls}
    \cup {Line(op, {}) : op \in {"ok", "pong"}}

TypeOK ==
  /\ phase \in [Calls -> {"new", "waiting", "over"}]
  /\ lease \in Calls \cup {Nobody}
  /\ mailbox \in Seq(Messages)
  /\ current \in Calls \cup {Nobody}
  /\ kind \in DOMAIN Program
  /\ IF current = Nobody THEN pos = 0 ELSE pos \in DOMAIN Program[kind]
  /\ late \in Nat
  /\ reply \in [type : {"none", "ok", "error"}, to : Calls \cup {Nobody},
                kind : DOMAIN Program, facts : SUBSET Calls, late : Nat]
  /\ portUp \in BOOLEAN
  /\ stdin \in Seq([op : Ops, by : Calls])
  /\ engine \subseteq Calls
  /\ exits \in 0..MaxExits
  \* who has the worker is the one that waits
  /\ \A c \in Calls : phase[c] = "waiting" <=> lease = c

\* A worker that begins a call with answers still to come is found out: it
\* stumbles over an answer of another operation and dies before it replies.
\* Only one that is as many answers behind as the call sends commands, for a
\* decision after three timeouts in a row, is not.
LateIsCaught ==
  reply.type = "ok"
    => reply.late = 0 \/ reply.late >= Len(Program[reply.kind])

\* Until then the engine decides on the facts of the call, all of them and no
\* others, whatever the calls before it left behind when they were given up.
DecidedOnOwnFacts ==
  (/\ reply.type = "ok" /\ reply.kind = "decide"
   /\ reply.late < Len(Program["decide"])) => reply.facts = {reply.to}

\* A worker never waits for a program that is gone without the notice of it
\* in its mailbox, so it does not lose 10 s to it.
DeadPortNoticed ==
  current # Nobody /\ ~portUp => Indices({"exit"}) # {}

\* A caller that stays is told something, even when the program hangs.
CallEnds == \A c \in Calls : phase[c] = "waiting" ~> phase[c] = "over"
============================================================================
