------------------------------ MODULE Billing ------------------------------
(***************************************************************************)
(* The balance of a user, src/billing/ersub_billing_srv.erl, and those     *)
(* that change it: the request processes that check and charge it, and the *)
(* payment code that credits it.                                           *)
(*                                                                         *)
(* The balance is in three places.  The users table has the truth; the ETS *)
(* table ersub_balances caches it and takes the charges; pending_syncs, in *)
(* the state of the server, is what the table still has to be told.  The   *)
(* caller of check_balance and deduct runs the cache code itself, one ETS  *)
(* operation or one query at a time; only sync_deduct casts, sync_balance  *)
(* calls and the timer reach the server.                                   *)
(*                                                                         *)
(* Amounts are counted in whole units, so the truncation to micro-dollars  *)
(* is not here.  Requests and credits are used once: their number bounds   *)
(* the model.                                                              *)
(***************************************************************************)
EXTENDS Integers, FiniteSets

CONSTANTS
  Users,
  Requests,
  Fulfilments,      \* credits followed by sync_balance: payments, redemptions
  TopUps,           \* credits of the administrator, not followed by it
  UserOf,           \* whom a request, a fulfilment or a top-up is for
  InitialBalance,
  Estimate,         \* what check_balance is asked for, 0.001
  Costs,            \* what a response may cost
  CreditAmount,
  FailureThreshold, \* failure-threshold of the circuit breaker, 5 by default
  Faults,           \* which of "db", "kill" and "crash" may happen
  NoRow

ASSUME BillingAssumption ==
  /\ UserOf \in [Requests \cup Fulfilments \cup TopUps -> Users]
  /\ InitialBalance \in [Users -> Int]
  /\ Estimate \in Nat /\ CreditAmount \in Nat /\ FailureThreshold \in Nat \ {0}
  /\ Costs \subseteq Nat \ {0}
  /\ Faults \subseteq {"db", "kill", "crash"}
  /\ NoRow \notin Int

VARIABLES
  db,         \* users.balance_usd
  cache,      \* ersub_balances
  phase,      \* "new", "check", "deduct", "retry", "report", "over", or "lost"
              \* if it was killed with a charge to report
  step,       \* where in get_cached_balance a request is
  val,        \* the balance it read
  cost,       \* what it has charged
  casts,      \* sync_deduct messages not handled yet, as their total per user
  pending,    \* pending_syncs, 0 for a missing key
  circuit,
  failures,
  mode,       \* "idle", or what the server is in the middle of
  todo,       \* users do_sync_all has not come to
  failed,     \* the failures it has counted
  held,       \* the balance do_sync_user has looked up
  credit,     \* how far a credit is
  charged,    \* history: what update_counter took from the cache
  reported,   \* history: what sync_deduct casts were sent for
  credited,   \* history: what was credited in the users table
  readCredited, \* history: credited when a request read the users table
  rowCredited,  \* history: the same for the row in the cache
  mishap      \* history: has a reported charge been kept from being synced once?

reqVars == <<phase, step, val, cost, charged, reported>>
syncVars == <<pending, circuit, failures, mode, todo, failed, held>>
known == <<readCredited, rowCredited>>
vars == <<db, cache, casts, reqVars, syncVars, credit, credited, known, mishap>>

Credits == Fulfilments \cup TopUps

Init ==
  /\ db = InitialBalance
  /\ cache = [u \in Users |-> NoRow]
  /\ phase = [r \in Requests |-> "new"]
  /\ step = [r \in Requests |-> "lookup"]
  /\ val = [r \in Requests |-> 0]
  /\ cost = [r \in Requests |-> 0]
  /\ casts = [u \in Users |-> 0]
  /\ pending = [u \in Users |-> 0]
  /\ circuit = "closed" /\ failures = 0
  /\ mode = "idle" /\ todo = {} /\ failed = 0 /\ held = 0
  /\ credit = [k \in Credits |-> "new"]
  /\ charged = [u \in Users |-> 0]
  /\ reported = [u \in Users |-> 0]
  /\ credited = [u \in Users |-> 0]
  /\ readCredited = [r \in Requests |-> 0]
  /\ rowCredited = [u \in Users |-> 0]
  /\ mishap = FALSE

----------------------------------------------------------------------------
(* get_cached_balance, in the process of request r. *)

Reading(r) == phase[r] \in {"check", "deduct", "retry"}

GoTo(r, p, s) == /\ phase' = [phase EXCEPT ![r] = p]
                 /\ step' = [step EXCEPT ![r] = s]

Begin(r) ==
  /\ phase[r] = "new"
  /\ GoTo(r, "check", "lookup")
  /\ UNCHANGED <<db, cache, casts, val, cost, charged, reported, syncVars,
                 credit, credited, known, mishap>>

Hit(r) ==
  /\ cache[UserOf[r]] # NoRow
  /\ val' = [val EXCEPT ![r] = cache[UserOf[r]]]
  /\ step' = [step EXCEPT ![r] = "use"]

Miss(r) ==
  /\ cache[UserOf[r]] = NoRow
  /\ step' = [step EXCEPT ![r] = "read"]
  /\ UNCHANGED val

Lookup(r) ==
  /\ Reading(r) /\ step[r] = "lookup"
  /\ Hit(r) \/ Miss(r)
  /\ UNCHANGED <<db, cache, casts, phase, cost, charged, reported, syncVars,
                 credit, credited, known, mishap>>

ReadRow(r) ==
  /\ val' = [val EXCEPT ![r] = db[UserOf[r]]]
  /\ readCredited' = [readCredited EXCEPT ![r] = credited[UserOf[r]]]
  /\ step' = [step EXCEPT ![r] = "insert"]

ReadFailsCachesZero(r) ==
  /\ "db" \in Faults
  /\ val' = [val EXCEPT ![r] = 0]
  /\ step' = [step EXCEPT ![r] = "insert"]
  /\ UNCHANGED readCredited

\* A query that fails counts as the balance 0 and leaves no row.
ReadFails(r) ==
  /\ "db" \in Faults
  /\ val' = [val EXCEPT ![r] = 0]
  /\ step' = [step EXCEPT ![r] = "use"]
  /\ UNCHANGED readCredited

ReadDB(r) ==
  /\ Reading(r) /\ step[r] = "read"
  /\ ReadRow(r) \/ ReadFails(r)
  /\ UNCHANGED <<db, cache, casts, phase, cost, charged, reported, syncVars,
                 credit, credited, rowCredited, mishap>>

\* ets:insert overwrites a row that came in after the lookup.
Insert(r) ==
  /\ Reading(r) /\ step[r] = "insert"
  /\ cache' = [cache EXCEPT ![UserOf[r]] = val[r]]
  /\ rowCredited' = [rowCredited EXCEPT ![UserOf[r]] = readCredited[r]]
  /\ readCredited' = [readCredited EXCEPT ![r] = 0]
  /\ step' = [step EXCEPT ![r] = "use"]
  /\ UNCHANGED <<db, casts, phase, val, cost, charged, reported, syncVars,
                 credit, credited, mishap>>

----------------------------------------------------------------------------
(* check_balance and deduct, in the process of request r. *)

\* The balance is enough and the response arrives, or the request ends here.
Checked(r) ==
  /\ phase[r] = "check" /\ step[r] = "use"
  /\ IF val[r] >= Estimate THEN GoTo(r, "deduct", "lookup")
                           ELSE GoTo(r, "over", "lookup")
  /\ UNCHANGED <<db, cache, casts, val, cost, charged, reported, syncVars,
                 credit, credited, known, mishap>>

\* update_counter finds a row.
Charge(r) ==
  LET u == UserOf[r]
  IN /\ phase[r] \in {"deduct", "retry"} /\ step[r] = "use"
     /\ cache[u] # NoRow
     /\ \E c \in Costs :
          /\ cache' = [cache EXCEPT ![u] = @ - c]
          /\ cost' = [cost EXCEPT ![r] = c]
          /\ charged' = [charged EXCEPT ![u] = @ + c]
     /\ GoTo(r, "report", "lookup")
     /\ UNCHANGED <<db, casts, val, reported, syncVars, credit, credited, known,
                    mishap>>

\* It finds none: badarg, caught once, not caught the second time.
NoRowToCharge(r) ==
  /\ phase[r] \in {"deduct", "retry"} /\ step[r] = "use"
  /\ cache[UserOf[r]] = NoRow
  /\ IF phase[r] = "deduct" THEN GoTo(r, "retry", "lookup")
                            ELSE GoTo(r, "over", "lookup")
  /\ UNCHANGED <<db, cache, casts, val, cost, charged, reported, syncVars,
                 credit, credited, known, mishap>>

Report(r) ==
  LET u == UserOf[r]
  IN /\ phase[r] = "report"
     /\ casts' = [casts EXCEPT ![u] = @ + cost[r]]
     /\ reported' = [reported EXCEPT ![u] = @ + cost[r]]
     /\ GoTo(r, "over", "lookup")
     /\ UNCHANGED <<db, cache, val, cost, charged, syncVars, credit, credited,
                    known, mishap>>

\* The client goes away and cowboy kills the process where it is, also with a
\* charge it has taken from the cache and will not report.
Kill(r) ==
  /\ "kill" \in Faults
  /\ phase[r] \notin {"new", "over", "lost"}
  /\ GoTo(r, IF phase[r] = "report" THEN "lost" ELSE "over", "lookup")
  /\ UNCHANGED <<db, cache, casts, val, cost, charged, reported, syncVars,
                 credit, credited, known, mishap>>

RequestStep(r) ==
  \/ Begin(r) \/ Lookup(r) \/ ReadDB(r) \/ Insert(r)
  \/ Checked(r) \/ Charge(r) \/ NoRowToCharge(r) \/ Report(r)

----------------------------------------------------------------------------
(* Credits, in the payment server or a request of the user's own.  The       *)
(* result of update_user_balance is not looked at.                           *)

AddToBalance(k) ==
  /\ db' = [db EXCEPT ![UserOf[k]] = @ + CreditAmount]
  /\ credited' = [credited EXCEPT ![UserOf[k]] = @ + CreditAmount]

AddFails == "db" \in Faults /\ UNCHANGED <<db, credited>>

AfterAdd(k) == IF k \in Fulfilments THEN "calling" ELSE "done"

Credit(k) ==
  /\ credit[k] = "new"
  /\ AddToBalance(k) \/ AddFails
  /\ credit' = [credit EXCEPT ![k] = AfterAdd(k)]
  /\ UNCHANGED <<cache, casts, reqVars, syncVars, known, mishap>>

----------------------------------------------------------------------------
(* The server. *)

\* Plausible slips, each standing in for the definition after it when the
\* configurations are checked for their power to notice it; one is above.
HandleSyncDeductReplaces(u) ==
  /\ mode = "idle"
  /\ \E c \in 1..casts[u] :
       /\ casts' = [casts EXCEPT ![u] = @ - c]
       /\ pending' = [pending EXCEPT ![u] = c]
  /\ UNCHANGED <<db, cache, reqVars, circuit, failures, mode, todo, failed,
                 held, credit, credited, known, mishap>>

\* Any part of the total stands for the next messages of the user.
HandleSyncDeduct(u) ==
  /\ mode = "idle"
  /\ \E c \in 1..casts[u] :
       /\ casts' = [casts EXCEPT ![u] = @ - c]
       /\ pending' = [pending EXCEPT ![u] = @ + c]
  /\ UNCHANGED <<db, cache, reqVars, circuit, failures, mode, todo, failed,
                 held, credit, credited, known, mishap>>

PendingUsers == {u \in Users : pending[u] > 0}

\* sync_timer with the circuit closed: do_sync_all of the pending charges.
StartSync ==
  /\ mode = "idle" /\ PendingUsers # {}
  /\ ~(circuit = "open" /\ failures > 0)
  /\ mode' = "sync_all" /\ todo' = PendingUsers /\ failed' = 0
  /\ UNCHANGED <<db, cache, casts, reqVars, pending, circuit, failures, held,
                 credit, credited, known, mishap>>

ProbeLeavesCircuit(u) ==
  /\ mode = "idle" /\ u \in PendingUsers
  /\ circuit = "open" /\ failures > 0
  /\ db' = [db EXCEPT ![u] = @ - pending[u]]
  /\ pending' = [pending EXCEPT ![u] = 0]
  /\ UNCHANGED <<cache, casts, reqVars, circuit, failures, mode, todo, failed,
                 held, credit, credited, known, mishap>>

\* sync_timer with the circuit open: try_sync_one, and if that worked
\* do_sync_all of all pending charges, the first one included.
TrySyncOne(u) ==
  /\ mode = "idle" /\ u \in PendingUsers
  /\ circuit = "open" /\ failures > 0
  /\ db' = [db EXCEPT ![u] = @ - pending[u]]
  /\ mode' = "reopen" /\ todo' = PendingUsers /\ failed' = 0
  /\ UNCHANGED <<cache, casts, reqVars, pending, circuit, failures, held,
                 credit, credited, known, mishap>>

SyncFirstUser(u) ==
  /\ mode \in {"sync_all", "reopen"} /\ u \in todo
  /\ todo' = {}
  /\ db' = [db EXCEPT ![u] = @ - pending[u]]
  /\ UNCHANGED <<cache, casts, reqVars, pending, circuit, failures, mode,
                 failed, held, credit, credited, known, mishap>>

SyncUser(u) ==
  /\ mode \in {"sync_all", "reopen"} /\ u \in todo
  /\ todo' = todo \ {u}
  /\ \/ /\ db' = [db EXCEPT ![u] = @ - pending[u]]
        /\ UNCHANGED <<failed, mishap>>
     \/ /\ "db" \in Faults
        /\ failed' = failed + 1 /\ mishap' = TRUE
        /\ UNCHANGED db
  /\ UNCHANGED <<cache, casts, reqVars, pending, circuit, failures, mode, held,
                 credit, credited, known>>

EndSyncKeepsPending ==
  /\ mode \in {"sync_all", "reopen"} /\ todo = {}
  /\ mode' = "idle" /\ failed' = 0
  /\ pending' = IF failed = 0 THEN [u \in Users |-> 0] ELSE pending
  /\ UNCHANGED <<db, cache, casts, reqVars, todo, circuit, failures, held,
                 credit, credited, known, mishap>>

EndSyncKeepsFailures ==
  /\ mode \in {"sync_all", "reopen"} /\ todo = {}
  /\ mode' = "idle" /\ failed' = 0
  /\ pending' = [u \in Users |-> 0]
  /\ failures' = failures + failed
  /\ circuit' = IF mode = "reopen" \/ failed = 0 THEN "closed"
                ELSE IF failures' >= FailureThreshold THEN "open" ELSE circuit
  /\ UNCHANGED <<db, cache, casts, reqVars, todo, held, credit, credited, known,
                 mishap>>

\* The pending charges are forgotten, also those whose update failed.
EndSync ==
  /\ mode \in {"sync_all", "reopen"} /\ todo = {}
  /\ mode' = "idle"
  /\ pending' = [u \in Users |-> 0]
  /\ IF mode = "reopen" \/ failed = 0
     THEN circuit' = "closed" /\ failures' = 0
     ELSE /\ failures' = failures + failed
          /\ circuit' = IF failures + failed >= FailureThreshold
                        THEN "open" ELSE circuit
  /\ failed' = 0
  /\ UNCHANGED <<db, cache, casts, reqVars, todo, held, credit, credited, known,
                 mishap>>

\* sync_timer with nothing pending, whatever the circuit.
NothingToSync ==
  /\ mode = "idle" /\ PendingUsers = {}
  /\ UNCHANGED vars

\* sync_balance: do_sync_user looks the cached balance up ...
HandleSyncBalance(k) ==
  LET u == UserOf[k]
  IN /\ mode = "idle" /\ credit[k] = "calling"
     /\ IF cache[u] = NoRow
        THEN /\ credit' = [credit EXCEPT ![k] = "done"]
             /\ UNCHANGED <<mode, held>>
        ELSE /\ credit' = [credit EXCEPT ![k] = "syncing"]
             /\ mode' = "sync_user" /\ held' = cache[u]
     /\ UNCHANGED <<db, cache, casts, reqVars, pending, circuit, failures, todo,
                    failed, credited, known, mishap>>

\* ... and writes it to the users table.
OverwriteBalance(k) ==
  /\ mode = "sync_user" /\ credit[k] = "syncing"
  /\ \/ db' = [db EXCEPT ![UserOf[k]] = held]
     \/ "db" \in Faults /\ UNCHANGED db
  /\ mode' = "idle" /\ held' = 0 /\ mishap' = TRUE
  /\ credit' = [credit EXCEPT ![k] = "done"]
  /\ UNCHANGED <<cache, casts, reqVars, pending, circuit, failures, todo,
                 failed, credited, known>>

\* A query that times out or finds no connection exits in the server, and
\* ersub_sup restarts it: the cache, the messages and pending_syncs are lost.
Crash ==
  /\ "crash" \in Faults
  /\ cache' = [u \in Users |-> NoRow]
  /\ casts' = [u \in Users |-> 0]
  /\ pending' = [u \in Users |-> 0]
  /\ circuit' = "closed" /\ failures' = 0
  /\ mode' = "idle" /\ todo' = {} /\ failed' = 0 /\ held' = 0
  /\ credit' = [k \in Credits |->
                  IF credit[k] \in {"calling", "syncing"} THEN "done"
                                                          ELSE credit[k]]
  /\ rowCredited' = [u \in Users |-> 0] /\ mishap' = TRUE
  /\ UNCHANGED <<db, reqVars, credited, readCredited>>

----------------------------------------------------------------------------
SyncStep ==
  \/ \E u \in Users : HandleSyncDeduct(u) \/ TrySyncOne(u) \/ SyncUser(u)
  \/ \E k \in Fulfilments : HandleSyncBalance(k) \/ OverwriteBalance(k)
  \/ StartSync \/ EndSync \/ NothingToSync

Next ==
  \/ \E r \in Requests : RequestStep(r) \/ Kill(r)
  \/ \E k \in Credits : Credit(k)
  \/ SyncStep
  \/ Crash

\* A request process runs to its end, the server handles its messages, and the
\* timer, armed again by every sync_timer, keeps firing.  A database that is
\* probed for ever answers a probe at last; one that fails changes nothing.
Fairness ==
  /\ \A r \in Requests : WF_vars(RequestStep(r))
  /\ \A u \in Users : WF_vars(HandleSyncDeduct(u)) /\ WF_vars(SyncUser(u))
  /\ \A k \in Fulfilments :
       WF_vars(HandleSyncBalance(k)) /\ WF_vars(OverwriteBalance(k))
  /\ WF_vars(StartSync) /\ WF_vars(EndSync)
  /\ WF_vars(\E u \in Users : TrySyncOne(u))

Spec == Init /\ [][Next]_vars
FairSpec == Spec /\ Fairness

----------------------------------------------------------------------------
(* Properties. *)

TypeOK ==
  /\ db \in [Users -> Int]
  /\ cache \in [Users -> Int \cup {NoRow}]
  /\ phase \in [Requests -> {"new", "check", "deduct", "retry", "report", "over",
                             "lost"}]
  /\ step \in [Requests -> {"lookup", "read", "insert", "use"}]
  /\ val \in [Requests -> Int] /\ cost \in [Requests -> Nat]
  /\ casts \in [Users -> Nat] /\ pending \in [Users -> Nat]
  /\ circuit \in {"closed", "open"}
  /\ failures \in Nat /\ failed \in Nat /\ held \in Int
  /\ mode \in {"idle", "sync_all", "reopen", "sync_user"}
  /\ todo \in SUBSET PendingUsers
  /\ credit \in [Credits -> {"new", "calling", "syncing", "done"}]
  /\ charged \in [Users -> Nat] /\ reported \in [Users -> Nat]
  /\ credited \in [Users -> Nat]
  /\ readCredited \in [Requests -> Nat] /\ rowCredited \in [Users -> Nat]
  /\ mishap \in BOOLEAN

\* What pending_syncs holds that the running do_sync_all has not applied yet.
NotApplied(u) ==
  IF mode \in {"sync_all", "reopen"} /\ u \notin todo THEN 0 ELSE pending[u]

\* Charged to the row by a request whose cast is not sent yet, or never will
\* be because it was killed before, unit by unit.
Unreported(u) ==
  {t \in UNION {{r} \X (1..cost[r]) : r \in Requests} :
     phase[t[1]] \in {"report", "lost"} /\ UserOf[t[1]] = u}

\* Up to the first failed update, crash or overwriting, a unit taken from the
\* cache is in one place on its way to the users table and in one only: in its
\* request, in the mailbox, in pending_syncs or in the table, wherever
\* do_sync_all has got to.  Killed requests keep from the table what they had
\* taken and not reported, that and nothing else.
ChargesAccounted ==
  ~mishap => \A u \in Users :
    db[u] + charged[u] = InitialBalance[u] + credited[u] + casts[u]
                           + NotApplied(u) + Cardinality(Unreported(u))

\* What the users table shows beyond what it should show, given the charges
\* that are still in the mailbox or in pending_syncs.
Excess(u) == db[u] + reported[u] - InitialBalance[u] - credited[u]
               - casts[u] - NotApplied(u)

\* The steps after which a user may have paid a charge twice: a probe that
\* works, after which do_sync_all charges its user again, and the overwriting
\* by sync_balance with what the cache had.
Repeats(u) ==
  \/ TrySyncOne(u)
  \/ \E k \in Fulfilments : UserOf[k] = u /\ OverwriteBalance(k)

\* Only those two steps take more from a user than was reported, and the probe
\* takes what was pending and no more: no failed query, crash, kill or order of
\* the messages ever does.
OnlyRepeatsTake ==
  [][\A u \in Users :
       \/ Excess(u)' >= Excess(u)
       \/ Repeats(u) /\ (TrySyncOne(u) => Excess(u)' = Excess(u) - pending[u])]_vars

\* The users table never shows less than what the user had and was credited,
\* less the charges reported to the server: whatever is lost on the way, in a
\* failed query, a crash or a killed request, is lost in favour of the user.
Enough(u) == db[u] + reported[u] >= InitialBalance[u] + credited[u]

NeverOvercharged == \A u \in Users : Enough(u)

\* What the cache denies a user is only credit that came after its row was read
\* from the users table, of which nothing tells the cache.  Of what the table
\* had by then it denies nothing: rows that are loaded late, over a row already
\* charged or over charges not synced, err in favour of the user, and a failed
\* query leaves no row.
CacheNeverShort ==
  \A u \in Users :
    cache[u] # NoRow =>
      cache[u] + charged[u] >= InitialBalance[u] + rowCredited[u]

\* The circuit is open exactly when the failures since the last success have
\* reached the threshold, so one failure more or less never opens or shuts it.
BreakerConsistent == circuit = "open" <=> failures >= FailureThreshold

\* An open circuit with charges waiting behind it closes again.
BreakerRecovers ==
  (circuit = "open" /\ PendingUsers # {}) ~> (circuit = "closed")

\* Once the requests are over and if nothing went wrong on the way, the users
\* table has all their charges but those a killed request had not reported.
ChargesReachDB ==
  <>[](~mishap => \A u \in Users :
         db[u] + charged[u] = InitialBalance[u] + credited[u]
                                + Cardinality(Unreported(u)))
============================================================================
