------------------------------- MODULE Stream -------------------------------
(***************************************************************************)
(* One streamed answer: the request process of a gateway handler, the      *)
(* stream process ersub_stream_fsm it starts, and gun's connection to the  *)
(* provider.                                                               *)
(*                                                                         *)
(* The request starts the stream process without a link or a monitor and   *)
(* learns of it by its messages only.  The stream process has a clause for *)
(* the messages it expects from gun and crashes on any other; the request  *)
(* waits for the first message for 30 s, or without end ("claude").        *)
(*                                                                         *)
(* An event is the tokens it reports, of the four kinds together, and how  *)
(* many of them are input and output tokens, or it is one whose usage      *)
(* cannot be added ("usage": null); the comment sent after each event is   *)
(* part of it.  "openai" stands for both of OpenAI's handlers.  Streams    *)
(* share nothing, so there is one.                                         *)
(***************************************************************************)
EXTENDS Integers, Sequences

CONSTANTS
  Handlers,    \* which handler it may be
  Tokens,      \* what a piece of the body may report
  MaxMessages  \* bounds what gun sends beside the last message

ASSUME StreamAssumption ==
  /\ Handlers \subseteq {"claude", "openai", "antigravity"}
  /\ Tokens \subseteq {u \in [all : Nat, inout : Nat] : u.inout <= u.all}
  /\ MaxMessages \in Nat

VARIABLES
  handler,
  req,       \* where the request process is
  mailbox,   \* messages of the stream process to it
  client,    \* what the client has got
  fsm,       \* where the stream process is, the message it judges, its usage
  inbox,     \* messages to the stream process
  gun,       \* the exchange with the provider
  messages,  \* how many of the bounded messages gun has sent
  records,   \* usage records cast to ersub_usage_logger
  fate,      \* history: how the stream process ended
  forwarded, \* history: tokens of the events it has forwarded
  billable   \* history: the input and output tokens among them

reqVars == <<req, client>>
sent == <<forwarded, billable>>
fsmVars == <<fsm, inbox, records, fate, sent>>
gunVars == <<gun, messages>>
vars == <<handler, reqVars, mailbox, fsmVars, gunVars>>

Msg(type, n) == [type |-> type, tokens |-> n]
Gun(type, ok, fin, u) == [type |-> type, ok |-> ok, fin |-> fin,
                          tokens |-> u.all, inout |-> u.inout]
NoUsage == [all |-> 0, inout |-> 0]
Stop == Gun("stop", TRUE, FALSE, NoUsage)

Over == {"over", "exited", "killed"}

\* claude commits to the status 200 before it starts the stream.
Init ==
  /\ handler \in Handlers
  /\ req = "starting" /\ mailbox = <<>>
  /\ client = [head |-> handler = "claude", error |-> FALSE, done |-> FALSE,
               fin |-> FALSE, tokens |-> 0]
  /\ fsm = [at |-> "opening", fin |-> FALSE, accumulated |-> 0, inout |-> 0]
  /\ inbox = <<>> /\ gun = "none" /\ messages = 0
  /\ records = <<>> /\ fate = "none" /\ forwarded = 0 /\ billable = 0

----------------------------------------------------------------------------
(* The stream process. *)

\* Nobody reads what is sent to a request that is over.
Tell(ms) == mailbox' = IF req \in Over THEN mailbox ELSE mailbox \o ms

At(point) == fsm' = [fsm EXCEPT !.at = point]

\* terminate closes the connection; whatever else was sent to it is lost.
Ends(how) ==
  /\ At("dead") /\ inbox' = <<>> /\ gun' = "closed" /\ fate' = how

\* init: gun:await_up, for 10 s at most.
Open ==
  /\ fsm.at = "opening"
  /\ \/ At("connecting") /\ gun' = "asked" /\ UNCHANGED <<mailbox, inbox, fate>>
     \/ Tell(<<Msg("error", 0)>>) /\ Ends("failed")
  /\ UNCHANGED <<handler, reqVars, records, sent, messages>>

Connect ==
  /\ fsm.at = "connecting" /\ inbox # <<>>
  /\ LET m == Head(inbox)
         started == m.type = "response" /\ m.ok /\ ~m.fin
     IN \/ /\ started
           /\ Tell(<<Msg("headers", 0)>>) /\ At("streaming")
           /\ inbox' = Tail(inbox) /\ UNCHANGED <<gun, fate>>
        \/ /\ m.type = "response" /\ ~started
           /\ fsm' = [fsm EXCEPT !.at = "judging", !.fin = m.fin]
           /\ inbox' = Tail(inbox) /\ UNCHANGED <<mailbox, gun, fate>>
        \/ m.type \in {"error", "DOWN"} /\ Tell(<<Msg("error", 0)>>) /\ Ends("word")
        \/ m.type = "stop" /\ Ends("stop") /\ UNCHANGED mailbox
        \/ m.type \in {"data", "other"} /\ Ends("crash") /\ UNCHANGED mailbox
  /\ UNCHANGED <<handler, reqVars, records, sent, messages>>

\* evaluate_failover: the rules say so, or not, or have no worker in time.
Judge ==
  /\ fsm.at = "judging"
  /\ \/ Tell(<<Msg("failover", 0)>>) /\ Ends("word")
     \/ fsm.fin /\ Tell(<<Msg("error", 0)>>) /\ Ends("word")
     \/ ~fsm.fin /\ At("collecting") /\ UNCHANGED <<mailbox, inbox, gun, fate>>
     \/ Ends("crash") /\ UNCHANGED mailbox
  /\ UNCHANGED <<handler, reqVars, records, sent, messages>>

\* Plausible slips of the definitions after them: a receive without an end,
\* usage kept only for streams that end well, the end sent before the rest.
NeverGivesUp == FALSE
NoPartialUsage(n, inout) == UNCHANGED records
EndFirst(n) == <<Msg("done", 0), Msg("chunk", n)>>

BodyAt == {i \in DOMAIN inbox : inbox[i].type = "data"}

\* after 30000, in the receive that takes pieces of the body only.
GivesUp == BodyAt = {}

collect_error_body ==
  /\ fsm.at = "collecting"
  /\ \/ \E i \in BodyAt :
          /\ \A j \in BodyAt : i <= j
          /\ \/ inbox[i].fin /\ Tell(<<Msg("error", 0)>>) /\ Ends("word")
             \/ /\ ~inbox[i].fin
                /\ inbox' = SubSeq(inbox, 1, i - 1) \o SubSeq(inbox, i + 1, Len(inbox))
                /\ UNCHANGED <<mailbox, fsm, gun, fate>>
     \/ GivesUp /\ Tell(<<Msg("error", 0)>>) /\ Ends("word")
  /\ UNCHANGED <<handler, reqVars, records, sent, messages>>

\* All four counters, but only if there are input or output tokens.
record_partial_usage(n, inout) ==
  records' = IF inout > 0 THEN Append(records, n) ELSE records

LastWords(n) == <<Msg("chunk", n), Msg("done", 0)>>

\* A piece of the body: what it completes is forwarded, then counted.
Forward(m) ==
  /\ m.type = "data"
  /\ forwarded' = forwarded + m.tokens /\ billable' = billable + m.inout
  /\ UNCHANGED records
  /\ \/ /\ m.ok
        /\ fsm' = [fsm EXCEPT !.accumulated = @ + m.tokens, !.inout = @ + m.inout,
                              !.at = IF m.fin THEN "done" ELSE @]
        /\ Tell(IF m.fin THEN LastWords(m.tokens) ELSE <<Msg("chunk", m.tokens)>>)
        /\ inbox' = Tail(inbox)
        /\ gun' = IF m.fin THEN "closed" ELSE gun
        /\ UNCHANGED fate
     \/ ~m.ok /\ Tell(<<Msg("chunk", m.tokens)>>) /\ Ends("crash")

Streaming ==
  /\ fsm.at = "streaming" /\ inbox # <<>>
  /\ LET m == Head(inbox)
     IN \/ Forward(m)
        \/ /\ m.type \in {"error", "DOWN"}
           /\ Tell(<<Msg("error", 0)>>)
           /\ record_partial_usage(fsm.accumulated, fsm.inout)
           /\ Ends("word") /\ UNCHANGED sent
        \/ /\ m.type = "stop"
           /\ Ends("stop") /\ UNCHANGED <<mailbox, records, sent>>
        \/ /\ m.type \in {"response", "other"}
           /\ Ends("crash") /\ UNCHANGED <<mailbox, records, sent>>
  /\ UNCHANGED <<handler, reqVars, messages>>

\* The internal event that follows the last piece.
Finalize ==
  /\ fsm.at = "done"
  /\ records' = Append(records, fsm.accumulated)
  /\ Ends("word")
  /\ UNCHANGED <<handler, reqVars, mailbox, sent, messages>>

FsmStep ==
  Open \/ Connect \/ Judge \/ collect_error_body \/ Streaming \/ Finalize

----------------------------------------------------------------------------
(* The request process. *)

Goes(point) == req' = point /\ UNCHANGED client

\* The client gets an error, as a reply or as an event, and the end.
Fails ==
  /\ req' = "over"
  /\ client' = [client EXCEPT !.head = TRUE, !.error = TRUE, !.fin = TRUE]

\* A slip of the next: the end is always told as a good one.
FinishesWell(done) ==
  /\ req' = "over"
  /\ client' = [client EXCEPT !.done = TRUE, !.fin = TRUE]

\* The client gets the end of the body.
Finishes(done) ==
  /\ req' = "over"
  /\ client' = [client EXCEPT !.done = done, !.fin = TRUE]

\* gen_statem:start returns {ok, Pid} or {error, Reason}.
Start ==
  /\ req = "starting" /\ fsm.at # "opening"
  /\ IF fate = "failed" THEN Fails ELSE Goes("waiting")
  /\ UNCHANGED <<handler, mailbox, fsmVars, gunVars>>

\* Only claude has a clause for stream_failover.
Expects(m) == m.type # "failover" \/ handler = "claude"

Wait ==
  /\ req = "waiting" /\ mailbox # <<>> /\ Expects(Head(mailbox))
  /\ mailbox' = Tail(mailbox)
  /\ IF Head(mailbox).type = "headers"
       THEN req' = "looping" /\ client' = [client EXCEPT !.head = TRUE]
       ELSE Fails
  /\ UNCHANGED <<handler, fsmVars, gunVars>>

BoundedIfNative == handler = "antigravity"
Bounded == handler # "claude"

\* after 30000; claude sends a keep-alive after 15000 and waits again.
WaitTimesOut ==
  /\ req = "waiting" /\ Bounded
  /\ mailbox # <<>> => ~Expects(Head(mailbox))
  /\ Goes("stopping")
  /\ inbox' = IF fsm.at = "dead" THEN inbox ELSE Append(inbox, Stop)
  /\ UNCHANGED <<handler, mailbox, fsm, records, fate, sent, gunVars>>

\* gen_statem:stop exits unless the process ends by it; openai catches that.
StopReturns ==
  /\ req = "stopping" /\ fsm.at = "dead"
  /\ IF fate = "stop" \/ handler = "openai" THEN Fails ELSE Goes("exited")
  /\ UNCHANGED <<handler, mailbox, fsmVars, gunVars>>

stream_loop ==
  /\ req = "looping" /\ mailbox # <<>>
  /\ mailbox' = Tail(mailbox)
  /\ LET m == Head(mailbox)
     IN \/ /\ m.type = "chunk"
           /\ client' = [client EXCEPT !.tokens = @ + m.tokens] /\ UNCHANGED req
        \/ m.type = "done" /\ Finishes(TRUE)
        \/ m.type = "error" /\ Finishes(FALSE)
  /\ UNCHANGED <<handler, fsmVars, gunVars>>

\* after 600000 without a message.
LoopTimesOut ==
  /\ req = "looping" /\ mailbox = <<>>
  /\ Finishes(FALSE)
  /\ UNCHANGED <<handler, mailbox, fsmVars, gunVars>>

ReqStep ==
  Start \/ Wait \/ WaitTimesOut \/ StopReturns \/ stream_loop \/ LoopTimesOut

\* cowboy ends the request of a client that has gone.
Kill ==
  /\ req \notin Over
  /\ Goes("killed")
  /\ UNCHANGED <<handler, mailbox, fsmVars, gunVars>>

----------------------------------------------------------------------------
(* gun and the provider. *)

Sends(m, state) ==
  /\ inbox' = Append(inbox, m) /\ gun' = state
  /\ UNCHANGED <<handler, reqVars, mailbox, fsm, records, fate, sent>>

Counted == messages < MaxMessages /\ messages' = messages + 1

Response ==
  /\ gun = "asked"
  /\ \E ok, fin \in BOOLEAN :
       Sends(Gun("response", ok, fin, NoUsage), IF fin THEN "over" ELSE "body")
  /\ UNCHANGED messages

Piece ==
  /\ gun = "body"
  /\ \E ok, fin \in BOOLEAN, u \in Tokens :
       /\ Sends(Gun("data", ok, fin, u), IF fin THEN "over" ELSE "body")
       /\ IF fin THEN UNCHANGED messages ELSE Counted

\* A message there is no clause for: a 1xx response; trailers, or an error of
\* the whole connection.
Unexpected ==
  \/ gun = "asked" /\ Sends(Gun("other", TRUE, FALSE, NoUsage), "asked") /\ Counted
  \/ /\ gun \in {"asked", "body"}
     /\ Sends(Gun("other", TRUE, FALSE, NoUsage), "over") /\ UNCHANGED messages

Breaks ==
  /\ gun \in {"asked", "body"}
  /\ \E type \in {"error", "DOWN"} : Sends(Gun(type, TRUE, FALSE, NoUsage), "over")
  /\ UNCHANGED messages

GunStep == Response \/ Piece \/ Unexpected \/ Breaks

Next == FsmStep \/ ReqStep \/ Kill \/ GunStep

Spec == Init /\ [][Next]_vars

\* Both processes take what they are sent, and their timers fire.  Nothing
\* makes the provider answer, or the client go away.
FairSpec == Spec /\ WF_vars(FsmStep) /\ WF_vars(ReqStep)

----------------------------------------------------------------------------
FromGun == {m \in [type : {"response", "data", "error", "DOWN", "other", "stop"},
                   ok : BOOLEAN, fin : BOOLEAN, tokens : Nat, inout : Nat] :
              m.inout <= m.tokens}
FromFsm == [type : {"headers", "chunk", "done", "error", "failover"}, tokens : Nat]

\* Type invariant.
TypeOK ==
  /\ handler \in Handlers
  /\ req \in {"starting", "waiting", "looping", "stopping"} \cup Over
  /\ mailbox \in Seq(FromFsm)
  /\ client \in [head : BOOLEAN, error : BOOLEAN, done : BOOLEAN, fin : BOOLEAN,
                 tokens : Nat]
  /\ fsm \in [at : {"opening", "connecting", "judging", "collecting",
                    "streaming", "done", "dead"},
              fin : BOOLEAN, accumulated : Nat, inout : Nat]
  /\ inbox \in Seq(FromGun)
  /\ gun \in {"none", "asked", "body", "over", "closed"} /\ messages \in Nat
  /\ records \in Seq(Nat)
  /\ fate \in {"none", "failed", "word", "crash", "stop"}
  /\ forwarded \in Nat /\ billable \in Nat

\* A stream is logged once, when it is over, with all the tokens of the events
\* that were forwarded, whether it ended well, by an error or without its
\* request.  There are three exceptions: the stream process crashed, it was
\* stopped by a request whose 30 s ran out while the answer was on its way, or
\* the stream broke off with no input or output tokens reported, whatever the
\* cache tokens: then it is not logged.
UsageAccounted ==
  /\ fate # "word" => records = <<>>
  /\ fate = "word" => \/ records = <<forwarded>>
                      \/ records = <<>> /\ billable = 0

\* A client that was sent a stream to its end has got every event of it, and
\* exactly these are logged once the stream process has ended.
DoneIsAll ==
  client.done => /\ client.tokens = forwarded
                 /\ fsm.at = "dead" => records = <<client.tokens>>

Phase == CASE fsm.at = "dead" -> "over"
           [] fsm.at = "done" -> "complete"
           [] OTHER -> "open"

Promise == INSTANCE Delivery WITH phase <- Phase, listening <- req \notin Over,
                                  delivered <- client.tokens, told <- client.done

\* Two processes that know each other by messages only, timers and a connection
\* that may break anywhere implement a delivery that is billed at most once, for
\* all that was forwarded, and called complete only when all of it has arrived.
ImplementsDelivery == Promise!Spec

\* Without a limit of its own: claude before it has heard of its stream.
Unbounded ==
  handler = "claude" /\ req \in {"starting", "waiting"} /\ mailbox = <<>>

\* Every request ends, by its timers if its stream process has died without a
\* word, or has failed over to a handler with no clause for that; but claude
\* only once it has heard of its stream.
RequestEnds == (req \notin Over /\ ~Unbounded) ~> (req \in Over)

\* A stream process ends when the provider is done or has failed, whether its
\* request still listens or not, in the middle of an error's body as well.
StreamEnds == (gun = "over") ~> (fsm.at = "dead")

=============================================================================
