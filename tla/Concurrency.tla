---------------------------- MODULE Concurrency ----------------------------
(***************************************************************************)
(* The per-user concurrency limiter, src/concurrency/                      *)
(* ersub_concurrency_srv.erl, together with the request processes that     *)
(* call it (handle_post of the gateway handlers).                          *)
(*                                                                         *)
(* A request process makes one gen_server:call, waits for the reply, runs  *)
(* its pipeline and casts a release.  The server keeps three things: the   *)
(* rows of ersub_conc_slots, the rows of ersub_conc_counts and the wait    *)
(* queues in its state.  A slot row carries the monitor of its process, so *)
(* the set slots is also the set of processes the server monitors.         *)
(*                                                                         *)
(* A slot reference is made for one call of one process, so the process    *)
(* stands for its reference.  A member of Procs is used again for a new    *)
(* request only when nothing of the old one is left in the system.         *)
(***************************************************************************)
EXTENDS Integers, Sequences, FiniteSets

CONSTANTS
  Users,
  Procs,            \* the request processes
  UserOf,           \* the user a request authenticates as
  LimitOf,          \* the limit it passes: its key's, or its user's unchecked
  WaitQueueExtra,   \* concurrency_wait_queue_extra, 20 by default
  MayCrash          \* may the server crash and be restarted?

ASSUME ConcurrencyAssumption ==
  /\ IsFiniteSet(Procs)
  /\ UserOf \in [Procs -> Users]
  /\ LimitOf \in [Procs -> Int]
  /\ WaitQueueExtra \in Nat
  /\ MayCrash \in BOOLEAN

VARIABLES
  pc,           \* "gone", "call" (blocked in acquire) or "serving"
  sent,         \* signals of a process the server has not handled yet
  reply,        \* the server's answer in a caller's mailbox
  slots,        \* ersub_conc_slots: the processes that own a row
  counts,       \* ersub_conc_counts, 0 for a missing row
  wait_queues   \* the queue of blocked callers of each user

procVars == <<pc, sent, reply>>
srvVars == <<slots, counts, wait_queues>>
vars == <<pc, sent, reply, slots, counts, wait_queues>>

Signals == {"acquire", "release", "DOWN"}
SlotsOf(u) == {p \in slots : UserOf[p] = u}
Waiting(u) == {wait_queues[u][i] : i \in 1..Len(wait_queues[u])}
Queued(p) == p \in Waiting(UserOf[p])

Init ==
  /\ pc = [p \in Procs |-> "gone"]
  /\ sent = [p \in Procs |-> {}]
  /\ reply = [p \in Procs |-> "none"]
  /\ slots = {}
  /\ counts = [u \in Users |-> 0]
  /\ wait_queues = [u \in Users |-> <<>>]

----------------------------------------------------------------------------
(* The request process. *)

\* A new request process calls acquire.
Request(p) ==
  /\ pc[p] = "gone" /\ sent[p] = {} /\ p \notin slots /\ ~Queued(p)
  /\ pc' = [pc EXCEPT ![p] = "call"]
  /\ sent' = [sent EXCEPT ![p] = {"acquire"}]
  /\ UNCHANGED <<reply, srvVars>>

\* A process ends; a monitored one signals its end to the server.
Exit(p, signals) ==
  /\ pc' = [pc EXCEPT ![p] = "gone"]
  /\ reply' = [reply EXCEPT ![p] = "none"]
  /\ sent' = [sent EXCEPT ![p] =
                @ \cup signals \cup (IF p \in slots THEN {"DOWN"} ELSE {})]
  /\ UNCHANGED srvVars

\* The call returns {ok, Ref} and the pipeline starts.
ReceiveOk(p) ==
  /\ pc[p] = "call" /\ reply[p] = "ok"
  /\ pc' = [pc EXCEPT ![p] = "serving"]
  /\ reply' = [reply EXCEPT ![p] = "none"]
  /\ UNCHANGED <<sent, srvVars>>

\* The call returns {rejected, queue_full}: the request answers 429.
ReceiveRejected(p) ==
  /\ pc[p] = "call" /\ reply[p] = "rejected"
  /\ Exit(p, {})

\* No reply in 30000 ms: gen_server:call exits outside of the try.
TimeOut(p) ==
  /\ pc[p] = "call" /\ reply[p] = "none"
  /\ Exit(p, {})

\* The pipeline is done: the after clause casts the release, the process ends.
Finish(p) ==
  /\ pc[p] = "serving"
  /\ Exit(p, {"release"})

\* The client goes away: cowboy shuts the process down, no after clause runs.
Kill(p) ==
  /\ pc[p] # "gone"
  /\ Exit(p, {})

----------------------------------------------------------------------------
(* The server. *)

\* Plausible slips, each standing in for the definition after it when the
\* configurations are checked for their power to notice it.
HasRoomInclusive(n, p) == n <= LimitOf[p]
HasRoom(n, p) == n < LimitOf[p]

DecrementKeepsLast(n) == IF n > 1 THEN n - 1 ELSE n
Decrement(n) == IF n > 1 THEN n - 1 ELSE 0

\* Replying to q: a caller that is gone gets no reply, and the monitor just
\* set on it fires at once.
ReplyOk(q) == IF pc[q] = "gone" THEN reply ELSE [reply EXCEPT ![q] = "ok"]
NoMonitorOn(snt, q) == snt
MonitorOn(snt, q) ==
  IF pc[q] = "gone" THEN [snt EXCEPT ![q] = @ \cup {"DOWN"}] ELSE snt

AcquireGrant(p) ==
  /\ HasRoom(counts[UserOf[p]], p)
  /\ slots' = slots \cup {p}
  /\ counts' = [counts EXCEPT ![UserOf[p]] = @ + 1]
  /\ reply' = ReplyOk(p)
  /\ sent' = MonitorOn([sent EXCEPT ![p] = {}], p)
  /\ UNCHANGED wait_queues

EnqueueInFront(p) ==
  /\ ~HasRoom(counts[UserOf[p]], p)
  /\ Len(wait_queues[UserOf[p]]) < WaitQueueExtra
  /\ wait_queues' = [wait_queues EXCEPT ![UserOf[p]] = <<p>> \o @]
  /\ sent' = [sent EXCEPT ![p] = {}]
  /\ UNCHANGED <<reply, slots, counts>>

AcquireEnqueue(p) ==
  /\ ~HasRoom(counts[UserOf[p]], p)
  /\ Len(wait_queues[UserOf[p]]) < WaitQueueExtra
  /\ wait_queues' = [wait_queues EXCEPT ![UserOf[p]] = Append(@, p)]
  /\ sent' = [sent EXCEPT ![p] = {}]
  /\ UNCHANGED <<reply, slots, counts>>

AcquireReject(p) ==
  /\ ~HasRoom(counts[UserOf[p]], p)
  /\ Len(wait_queues[UserOf[p]]) >= WaitQueueExtra
  /\ reply' = IF pc[p] = "gone" THEN reply
              ELSE [reply EXCEPT ![p] = "rejected"]
  /\ sent' = [sent EXCEPT ![p] = {}]
  /\ UNCHANGED srvVars

HandleAcquire(p) ==
  /\ "acquire" \in sent[p]
  /\ UNCHANGED pc
  /\ \/ AcquireGrant(p)
     \/ AcquireEnqueue(p)
     \/ AcquireReject(p)

CanDequeueStaleCount(u, n) ==
  /\ wait_queues[u] # <<>>
  /\ HasRoom(counts[u], Head(wait_queues[u]))

\* try_dequeue looks at the head of the queue only.
CanDequeue(u, n) ==
  /\ wait_queues[u] # <<>>
  /\ HasRoom(n, Head(wait_queues[u]))

\* Delete p's row and hand its place to the head of the queue.
FreeAndDequeue(p) ==
  LET u == UserOf[p]
      n == Decrement(counts[u])
      q == Head(wait_queues[u])
  IN /\ CanDequeue(u, n)
     /\ slots' = (slots \ {p}) \cup {q}
     /\ counts' = [counts EXCEPT ![u] = n + 1]
     /\ wait_queues' = [wait_queues EXCEPT ![u] = Tail(@)]
     /\ reply' = ReplyOk(q)
     /\ sent' = MonitorOn([sent EXCEPT ![p] = {}], q)

FreeOnly(p) ==
  LET u == UserOf[p]
      n == Decrement(counts[u])
  IN /\ ~CanDequeue(u, n)
     /\ slots' = slots \ {p}
     /\ counts' = [counts EXCEPT ![u] = n]
     /\ sent' = [sent EXCEPT ![p] = {}]
     /\ UNCHANGED <<wait_queues, reply>>

FreeSlot(p) ==
  /\ p \in slots
  /\ \/ FreeAndDequeue(p)
     \/ FreeOnly(p)

\* A message about a row that does not exist (any more) changes nothing.
IgnoreSignal(p) ==
  /\ p \notin slots
  /\ sent' = [sent EXCEPT ![p] = {}]
  /\ UNCHANGED <<reply, srvVars>>

\* The release cast: demonitor(MRef, [flush]) also drops a pending DOWN.
HandleRelease(p) ==
  /\ "release" \in sent[p]
  /\ UNCHANGED pc
  /\ \/ FreeSlot(p)
     \/ IgnoreSignal(p)

ForgetDown(p) ==
  /\ "DOWN" \in sent[p] /\ "release" \notin sent[p]
  /\ sent' = [sent EXCEPT ![p] = {}]
  /\ UNCHANGED <<pc, reply, srvVars>>

\* Signals of one process arrive in the order it sent them: DOWN is last.
HandleDown(p) ==
  /\ "DOWN" \in sent[p] /\ "release" \notin sent[p]
  /\ UNCHANGED pc
  /\ \/ FreeSlot(p)
     \/ IgnoreSignal(p)

\* The server crashes and ersub_sup restarts it: both tables, the queues, the
\* monitors and the mailbox are lost, and an unanswered caller exits.
Crash ==
  /\ MayCrash
  /\ pc' = [p \in Procs |->
             IF pc[p] = "call" /\ reply[p] = "none" THEN "gone" ELSE pc[p]]
  /\ sent' = [p \in Procs |-> {}]
  /\ slots' = {}
  /\ counts' = [u \in Users |-> 0]
  /\ wait_queues' = [u \in Users |-> <<>>]
  /\ UNCHANGED reply

----------------------------------------------------------------------------
ProcStep(p) ==
  \/ Request(p) \/ ReceiveOk(p) \/ ReceiveRejected(p)
  \/ TimeOut(p) \/ Finish(p) \/ Kill(p)

SrvStep(p) == HandleAcquire(p) \/ HandleRelease(p) \/ HandleDown(p)

Next == (\E p \in Procs : ProcStep(p) \/ SrvStep(p)) \/ Crash

\* The server handles every message it has, a reply is received, and a
\* pipeline ends (the handlers bound their waits); nothing forces a client to
\* send a request, to go away, or the server to crash.
Fairness ==
  \A p \in Procs :
    /\ WF_vars(SrvStep(p))
    /\ WF_vars(ReceiveOk(p)) /\ WF_vars(ReceiveRejected(p))
    /\ WF_vars(Finish(p))

Spec == Init /\ [][Next]_vars
FairSpec == Spec /\ Fairness

\* The server as an implementation of the line of AdmissionQueue.
Admission == INSTANCE AdmissionQueue WITH holders <- slots, line <- wait_queues

----------------------------------------------------------------------------
(* Properties. *)

TypeOK ==
  /\ pc \in [Procs -> {"gone", "call", "serving"}]
  /\ sent \in [Procs -> SUBSET Signals]
  /\ reply \in [Procs -> {"none", "ok", "rejected"}]
  /\ slots \in SUBSET Procs
  /\ counts \in [Users -> Nat]
  /\ wait_queues \in [Users -> Seq(Procs)]

\* The counter rows of ersub_conc_counts, which the code maintains beside the
\* slot rows with separate increments and decrements, agree with them.
CountsMatchSlots == \A u \in Users : counts[u] = Cardinality(SlotsOf(u))

\* Requests of one user pass different limits (a key's, or the user's).  The
\* holders that were promised "at most k at once" never number more than k.
LimitRespected ==
  \A p \in slots :
    Cardinality({q \in SlotsOf(UserOf[p]) : LimitOf[q] <= LimitOf[p]})
      <= LimitOf[p]

\* No lost wakeup: while a caller is queued, its user holds at least as many
\* slots as some limit in use, so a later release or DOWN looks at the queue.
\* With one common limit this says that no slot is idle while a caller waits;
\* it says nothing of a user with the limit 0, whose callers wait in vain.
NoIdleSlotWhileQueued ==
  \A u \in Users : wait_queues[u] # <<>> =>
    \E p \in Procs : /\ UserOf[p] = u
                     /\ LimitOf[p] <= Cardinality(SlotsOf(u))

\* Every slot row has an owner that will still give it back: it is about to
\* run, it is running, or its release or its DOWN is on the way.
NoOrphanSlot ==
  \A p \in slots : \/ pc[p] = "call" /\ reply[p] = "ok"
                   \/ pc[p] = "serving"
                   \/ {"release", "DOWN"} \cap sent[p] # {}

\* What the limit is for, seen from outside the server: the pipelines that
\* really run.  Lost with the tables when the server restarts.
ServingWithinLimit ==
  \A p \in Procs : pc[p] = "serving" =>
    Cardinality({q \in Procs : /\ pc[q] = "serving"
                               /\ UserOf[q] = UserOf[p]
                               /\ LimitOf[q] <= LimitOf[p]}) <= LimitOf[p]

\* The slot of a process that ended, in whatever way, comes free again.
DeadSlotFreed ==
  \A p \in Procs : (p \in slots /\ pc[p] = "gone") ~> (p \notin slots)

\* With one limit per user, a queued caller is served or given up even if no
\* call ever times out: nobody overtakes it, dead callers before it pass on.
CallAnswered == \A p \in Procs : (pc[p] = "call") ~> (pc[p] # "call")

\* Counters, monitors, mailboxes and dying processes implement the plain
\* first-come-first-served line, which sees only slots and wait_queues.
ImplementsAdmissionQueue == Admission!Spec
============================================================================
