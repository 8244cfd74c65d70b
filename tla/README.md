# A verification project for ersub

ersub is an API gateway in Erlang/OTP: clients send requests for a language
model, the gateway authenticates them, limits and bills them, chooses one of
the operator's upstream accounts and forwards the request. A browser client in
TypeScript (`frontend/`) is its console. This directory models the parts in which
several processes, requests or timers share state, checks the models with TLC on
small instances and proves theorems about them, for every value of the constants,
with TLAPS.

- [The system](#the-system)
- [What is modelled](#what-is-modelled)
- [What the runs check and show](#what-the-runs-check-and-show)
- [Where the code and its comments part](#where-the-code-and-its-comments-part)
- [What is proved](#what-is-proved)
- [What is only model-checked](#what-is-only-model-checked)
- [What is not modelled](#what-is-not-modelled)

To check it: `tlc -config MCConcurrencyMixed.cfg MCConcurrency` (and so on for
the other configurations), `tlapm ConcurrencyProofs.tla`
(and `BillingProofs`, `PaymentProofs`, `ClipsPortProofs`, `UpstreamPoolProofs`,
`StreamProofs`, `SessionProofs`, `AppStoresProofs`). All paths below are from the root of the repository.

## The system

One supervisor (`src/ersub_sup.erl`) starts about thirty servers with the
strategy one_for_one: a server that crashes is restarted alone, without its
ETS tables, its state and its mailbox, while everybody else goes on. Each HTTP
request is a process of cowboy's. It calls the servers, but much of "their"
code runs in the request process itself: ETS tables are public and the API
functions read and write them without going through the server. Cowboy kills a
request process whose client goes away; no `after` clause runs then. No process
of the system traps exits.

A request (`handle_post` of the gateway handlers) goes through these steps:

    authenticate -> rate limit -> acquire a slot -> check the balance
      -> [ select an account -> forward -> judge the answer ]*  -> deduct, log
      -> release the slot

The components, the state they keep, and what makes them correct:

| Component | State | Operations, and who calls them | What is hard | Correct when |
|---|---|---|---|---|
| **Concurrency limiter** `src/concurrency/ersub_concurrency_srv.erl` | slot rows with a monitor each; a counter per user; a queue of blocked callers per user | `acquire` (call, 30 s), `release` (cast) by requests; `DOWN` from monitors | a slot returned twice, by a cast and by a DOWN; callers that die or time out while queued; requests of one user with different limits; restart | counters agree with rows; limits hold; no slot leaks; no queued caller is forgotten; first come, first served |
| **Balance** `src/billing/ersub_billing_srv.erl` | cache of balances (ETS), pending charges, circuit breaker (server), `users.balance_usd` (database) | `check_balance`, `deduct` in the request; `sync_deduct` (cast), `sync_balance` (call), a timer | three copies of one amount; updates that fail; restart between charge and sync; the half-open probe | no charge applied twice or lost without a fault; faults favour the user; the breaker opens and closes when it should |
| **Payment** `src/payment/ersub_payment_srv.erl`, `src/billing/ersub_payment_handler.erl`, four kinds of providers | `payment_orders`, `payment_audit_logs` (database), the server's mailbox | `create_order`, notices of the providers, `fulfill_order` (call, 5 s), the user's cancel, the administrator's cancel, retry and refund | notices repeated and in parallel; credit and status in separate queries; a call that times out and is served all the same; success answered before the work is done | an order is credited once; a provider is told of success only when it is true; a payment arrives; a provider stops sending |
| **Usage log** `src/billing/ersub_usage_logger.erl` | buffer in the server | `log` (cast), timer and size flush | a batch of which one record fails; shutdown | each record is written once |
| **Scheduler and failover** `src/scheduler/ersub_scheduler_srv.erl`, `try_with_failover` of the handlers | round robin counters, sticky sessions (ETS); the excluded accounts of a request | `select` in the request; `record_error` | the status of an account changes between look and choice; bounds of the loop | an excluded account is not tried again; the loop ends in an answer |
| **Accounts** `src/scheduler/ersub_account_srv.erl`, `src/platform/ersub_platform_sup.erl` | one process per account: status, cooldown, session window | casts of errors and successes; timers; administration | errors that arrive late and undo a cooldown | a cooldown ends when it is due, not before |
| **Token refresh** `src/auth/ersub_token_refresh_srv.erl` | failure counters, cooldowns | a timer | the running account keeps the old token | the credentials in use are current |
| **Streaming** `src/gateway/ersub_stream_fsm.erl`, the streaming part of the handlers | a process per stream: state, buffer, accumulated usage; two mailboxes | `start`, `stop` by the request; messages from gun to the stream process and from it to the request; timers of both | nobody is linked or monitored: a request or a stream process that dies alone; a break or an unexpected message at any point; 30 s that race the first answer | usage is logged once and in full; the client gets all of it; both ends finish |
| **Upstream pool** `src/upstream/ersub_upstream_pool.erl` | pool entries with `in_flight`, LRU table (ETS) | `get_connection`, `return_connection` in the request; a sweep | unlocked read and write; eviction of connections in use | a connection in use is not closed, an idle one at last is |
| **Rate limiters** `src/concurrency/ersub_rate_limiter.erl` | timestamps per user (ETS) | `check_rpm` in the request; a cleanup | unlocked read and write | at most RPM requests in a window |
| **Rule engine** `src/clips`, `c_src/ersub_clips.c` | workers with a port each; the facts in the program | `with_worker` (checkout, call, checkin); one to three commands per call, 10 s each | answers carry no number: after a timeout they are behind; a worker given back in the middle of a call; a program that exits | a call is answered with its own answers, or not at all; a decision is made on its own facts |
| **Authentication** `src/auth` | cache of authenticated keys, 60 s | every request | a revoked key in the cache | a change takes effect in bounded time |
| **Metrics, scheduled tests** `src/ops` | advisory locks of the database | timers on every node | lock and unlock over different connections | one node at a time, and not never |
| **Sessions, idempotency, configuration, channels, moderation, caches** | single ETS tables | one operation each | - | - |
| **Frontend session and API client** `frontend/src/api/client.ts`, `api/auth.ts`, `stores/auth.ts` | tokens and user in the store and in `localStorage`, two timers, `isRefreshing` and the queue of requests that wait for a refresh | login, OAuth, logout, reload, the 401 interceptor, timers | answers of an earlier session; several requests that meet a 401 at once; a reload or logout with requests in flight | one refresh at a time; nobody waits for ever; no request is sent for ever; sessions do not mix; a logout is final |
| **Frontend stores** `frontend/src/stores/subscriptions.ts`, `stores/announcements.ts`, `App.vue` | subscriptions with a generation number, popups with a queue and timeouts | fetches from views, pollers and the login watcher; dismissals; logout | answers in any order and of earlier sessions; two timeouts that race | nothing stale or foreign is shown; no popup twice; the queue never stops |
| **Database access** `src/db` | a pool of connections | `ersub_repo:query` in everybody | a query fails, or exits in its caller | - |
| **Administration, authentication pages, request filters, frontend views** | the database | one query per request, mostly | - | - |

The list of hazards, each at its line and with the properties that would notice
it, is in `PROJECT.json`.

## What is modelled

### Concurrency.tla

The limiter with the request processes around it.

| In the model | In the code |
|---|---|
| `pc[p]` | where a request process is: absent, blocked in `acquire`, in the pipeline |
| `sent[p]` | its signals on the way to the server: the call, the release cast, the DOWN of its monitor |
| `reply[p]` | the answer in its mailbox |
| `slots` | `ersub_conc_slots`; a row holds the monitor, so also "who is monitored" |
| `counts` | `ersub_conc_counts` |
| `wait_queues` | the field of the server's state |

Each action is one handler with everything it calls: `HandleAcquire` (granted,
queued or rejected), `HandleRelease` and `HandleDown`, both of which delete the
row, decrement the counter and run `try_dequeue`. `Request`, `ReceiveOk`,
`ReceiveRejected`, `Finish` are the request's; `TimeOut` is the exit of
`gen_server:call` after 30 s, outside of the `try` of the handler; `Kill` is a
client that goes away. A caller that is gone stays in the queue, is handed a
slot in its turn and its fresh monitor fires at once: `MonitorOn`. A release
removes the monitor *and* its pending DOWN (`demonitor(MRef, [flush])`), and
signals of one process arrive in their order, so `sent` is a set and `HandleDown`
waits for the release. `Crash` is a restart: tables, queues, monitors and mailbox
are gone, blocked callers exit, pipelines run on.

A slot reference is made for one call of one process, so the process stands for
it; a member of `Procs` starts a new request only when nothing of its last one
is left. `LimitOf` is any integer: a key's limit is checked to be positive, the
user's column is not.

Left out: the acquire of a user whose row is missing (an error before the
limiter is reached), the wording of answers, `logger`.

### AdmissionQueue.tla

What the limiter promises, in 55 lines: per user a set of holders and a line,
`Enter`, `Join`, `Leave` (with the head of the line taking the place in the same
step) and `Forget` for a restart. `Concurrency` maps `slots` and `wait_queues`
to them; counters, monitors, mailboxes, replies and dying processes do not
appear. Callers that die in line are served in turn, and the specification says so.

### Billing.tla

The balance in its three places, `db`, `cache` and `pending`, with `casts`
between the last two. A request is a process of its own steps: `Lookup`,
`ReadDB`, `Insert` are the three points of `get_cached_balance` at which another
process can come in between; `Checked`, `Charge`, `NoRowToCharge` (the `badarg`
that is caught once), `Report` are the rest of `check_balance` and `deduct`. The
server takes one update of the database per step: `StartSync`, `SyncUser` per
user in any order, `EndSync`; with the circuit open `TrySyncOne` and then the same
pass; `HandleSyncBalance` and `OverwriteBalance` for `sync_balance`. While it is
in the middle of one (`mode`) it handles no message, but requests go on charging
the cache. `Credit` is what payments, codes and the administrator do to the
users table; a member of `Fulfilments` calls `sync_balance` afterwards, a
`TopUp` does not.

`Faults` selects what may go wrong: a query that answers an error (`"db"`), a
request killed where it is (`"kill"`), and a restart of the server (`"crash"`),
which a query that times out causes in the code. Two disjuncts are left out
because they change nothing: a failed probe (the state is kept), and
`sync_timer` with nothing pending is there as `NothingToSync`.

`charged`, `reported`, `credited`, `readCredited` and `rowCredited` (what was credited when a request, or the
row in the cache, read the table) and `mishap` are history variables; no guard
reads them. A request that is killed between its charge and its report is `"lost"`. Credits are not negative; the administrator may enter a negative
amount, which the model does not have (it is a debit the cache never sees, too).
Amounts are whole units. The code truncates to micro-dollars in the
cache and sums exact floats in the server, so that cheap requests cost less in the
cache; the model does not have this difference. `casts` holds the total per user of the
unhandled messages, and handling takes any part of it: a message or several.
Streaming requests are not charged by this code (`ersub_stream_fsm` only logs
usage), so a request of the model is a non-streaming one.

### Payment.tla

Orders, the notices about them and the payment server.

| In the model | In the code |
|---|---|
| `status`, `provider` | the columns of `payment_orders` |
| `audit` | idempotency keys in `payment_audit_logs` |
| `owed`, `acked` | notices the provider still sends, and those answered with success |
| `pc[h]`, `job[h]`, `answer[h]` | the request process of a notice: where it is, which notice, what the server replied |
| `mailbox`, `serving`, `srv` | `ersub_payment_srv`: calls not taken, the call it is in, how far |

`HandlerStep` is the handler of a notice in its four variants. alipay and easypay
write the notice to the audit log first and treat a key that is there as done;
wechat asks for the status first; the signed JSON webhooks (`"other"`) call at once.
`ServerStep` is `fulfill`: take the call, set the order paid (`Fulfil`), add the
credit (`Credit`), call the billing server (`Synced`), reply. Every query may
answer an error or exit in its caller with or without having been executed, and
`Dies` ends a request at its 5 s call or at its client's end: the server goes on with
a call nobody waits for. `Crash` is a restart of the server. `MaxFaults` bounds all of
these together. `SetStatus` is the unconditional update behind cancel, retry and
refund. Left out: amounts, signatures, checkout pages, the log lines. What `sync_balance`
does to the credit is the subject of `Billing`.

### OrderLedger.tla

What remains of payments when notices, request processes, the mailbox and the server are taken away:
an order is opened, closed, retried, or fulfilled; a fulfilment makes it paid in one step, is owed (`owing`)
and then settled, as a credit or as a loss. `Payment` maps `owing` to the order the server is about to
credit and the other four variables to themselves.

### ClipsPort.tla

One worker of the rule engine pool with its callers and the C program behind its
port. A call is one of five `Program`s of commands; the worker sends a command,
takes the next line (`Receive`) or gives up after 10 s (`TimesOut`), and goes on. Which
lines each `receive` accepts is `Fits` and `Accept`: `retract_all` and `assert` go on
with any line, `run` and `ping` have no clause for another operation's answer, which
is a crash (`Dies`), `reload` takes anything. An exit of the program, and a result whose strings break the JSON (the
program prints them as they are), are `Unusable`: `run` answers an error, `retract_all` and `assert` crash. `GiveUp` is a caller whose `gen_server:call`
is over: it gives the worker back in the middle of the call. `late` and `reply` are
history variables. `Execute` is the loop of the program, one line in, one line out; which facts
are asserted is `engine`. The eight workers share nothing, so there is one; the callers
that queue for a worker are those that have not checked it out yet. Left out: what
the rules compute, lines above 1 MB, a result that a string breaks into two lines, facts above 4096 bytes (truncated by the
code), the extra workers of an overflowing pool, and that `reload_rules` reaches one
worker of eight, while the others go on with the old rules until they are restarted.

### UpstreamPool.tla

The pool of connections to the providers, one for each pool key, with the requests that
share them and the sweep.

| In the model | In the code |
|---|---|
| `pool[k]`, `lru` | a row of `ersub_conn_pool` (connection and `in_flight`), the keys of `ersub_conn_lru` |
| `up` | connection processes that are alive |
| `req[p]` | where a request is in `request/6`, its key and connection, and `seen`, the row it has read |
| `sweep` | the row `cleanup_idle_connections` is at |
| `stale` | history: keys written on the ground of a row that had changed |
| `strayed` | history: keys in whose row a request on an earlier connection was counted down |

`get_connection` and `return_connection` run in the request process and read a row before
they write it, so `Look` and `Reuse` or `Drop`, `Finish` and `Return`, `evict_lru` and
`Evict`, `SweepLook` and `SweepClose` are steps of their own, and anybody may come in
between. `Return` counts down whatever row it has found, of whichever connection, as `return_connection` does. `Open` is `open_new_connection` when it is back from the provider: it overwrites whatever row
is there. `Kill` is cowboy ending a request, which then returns nothing (`"gone"`). No
DOWN reaches the server, because the monitors are the requests'; so the model has none, and a
dead connection keeps its row until a request of its key drops it. Left out: the restart of
the server, the wait for the answer (it ends: `Finish`), times (every idle row may be
old enough to be swept), what the rules answer for a pool key (`k` is an input).

### Stream.tla

One streamed answer: the request process, the stream process `ersub_stream_fsm` it starts, and
gun's connection. The request knows the stream process by its messages only: there is no link
and no monitor.

| In the model | In the code |
|---|---|
| `req`, `client` | where the request process is (starting, waiting for the first message, in `stream_loop`, in `gen_statem:stop`, over, exited, killed); what its client has got |
| `mailbox` | `stream_headers`, `stream_chunk`, `stream_done`, `stream_error`, `stream_failover` on their way to the request |
| `fsm` | the state of `ersub_stream_fsm` with the points inside a callback at which it waits (`"judging"`: the call of the rule engine, `"collecting"`: the receive of an error's body), and the accumulated usage |
| `inbox` | gun's messages to it, and the request's stop |
| `gun` | the exchange: asked, in the body, over, closed |
| `records` | what is cast to `ersub_usage_logger` |
| `fate`, `forwarded`, `billable` | history: how the stream process ended; tokens of the events it has forwarded; the input and output tokens among them |

`Open` is `init`, `Connect` the state connecting, `Judge` `evaluate_failover`, `Streaming` with
`Forward` the state streaming, `Finalize` the state done. Each state has clauses for the messages
it expects and crashes on any other (`Ends("crash")`), which covers a 1xx response, trailers, an error of the
whole connection and an event whose usage cannot be added. `Wait`, `WaitTimesOut` and `StopReturns` are
the handlers, which differ: claude answers with status 200 before it starts the stream and waits without end;
the others wait for 30 s and then stop the stream process, openai inside a `catch`,
antigravity without one. "openai" stands for both OpenAI handlers (the second has a clean-up of
remaining chunks that finds none, since nothing is sent after the end). An event is the tokens it
reports, of all four kinds (`all`), and how many are input and output tokens (`inout`), on which `record_partial_usage` alone decides whether
a stream that broke off is logged. Left out: the bytes and headers, the token comment after each event, durations, the
WebSocket handler, which has no stream process.

### Delivery.tla

A streamed answer without processes and messages: events are forwarded (`Forward`) and delivered (`Deliver`), the
answer is billed for all of them when it is over (`Bill`) or dropped (`Abandon`), and the client is told of its
end (`Conclude`) only when everything has arrived and is billed or about to be. `Stream` maps the states of the
stream process to the three phases; what the client has is `delivered`, and a request that is over no longer listens.

### Session.tla

The login session of the browser client, in one tab. JavaScript runs one task at a
time, so an action is one answer, timer, click or navigation with all the promise
callbacks it sets off. `calls[c]` is a request: sent, waiting for somebody else's token
refresh, or refreshing. `store` and `ls` are the auth store with its timers and
`localStorage`. A token is represented by the user it belongs to, since what matters is
whose it is. `RespondOk`, `RespondError` and `Respond401` are the interceptor with the
callers' own `catch` blocks (`Rejected`); `Respond401` is split into `Reject401`,
`SessionOver`, `Subscribe` and `StartRefresh`, and the refresh ends in `RefreshOk` or
`RefreshFails`. `SetAuth` is `setAuthFromResponse`, which replaces the refresh token only
if the answer has one. `Reload` forgets all but `localStorage`; it is also what
`window.location.href = '/login'` leads to. `out` and `overlap` are history variables.
Left out: roles and the guards of single pages, the backend-only mode (which keeps
non-administrators on the login page), pending OAuth registrations.

### RefreshGate.tla

What the interceptor promises of a request that is answered with 401: it is sent, may wait for a refresh or make
one, is sent again, and is done. One refresh at a time; whoever waits is released with it, all to the same
fate; after `"again"` there is only the end. `Stage(c)` of `Session` reads it off a request's phase and mark.

### AppStores.tla

The subscription store with its generation number, cache and poller, and the
announcement store with its popup queue, throttle and timeouts, as `App.vue` starts
and clears them at login and logout. Requests in flight carry the user they were sent
for. `IsCurrent` is the comparison of generations; `EnqueueNewPopups`, `ShowNext`,
`Dismiss` and `ShowTimer` are the popups'. Left out: loading flags (`loading`
of the subscription store stays true after a `clear` with a request in flight), read marks and the list
in the header. The announcement store has no generation number: a list asked for
before a logout and answered after the next login is shown to the wrong user. The model has this
(`strayed`), and `PopupsOfSession` claims the rest.

### How the modules meet

A request of `Billing` runs inside a pipeline of `Concurrency`; neither reads the
other's state, so they are checked apart. `Credit` and `HandleSyncBalance` of `Billing`
are what `Credit` and `Synced` of `Payment` do to the balance. The requests of `AppStores` are the `data`
requests of `Session`: that such a request goes out again under the token of another user
after a refresh is covered there (`OneSession`). A request of `Stream` is a pipeline of `Concurrency`: the
fairness of `Finish` there, a pipeline that ends, is what `RequestEnds` shows here, with one exception
(see Fairness); `Judge` is a call of `ClipsPort`. The rule engine is called by requests of any
component and changes no state of theirs. `Concurrency` implements `AdmissionQueue`, `Payment` implements
`OrderLedger`, `Stream` implements `Delivery` and `Session` implements `RefreshGate`.

### The MC modules

`MCConcurrency`, `MCBilling`, `MCPayment`, `MCClipsPort`, `MCUpstreamPool`, `MCStream`, `MCSession` and
`MCAppStores` are the instances:
who belongs to whom, limits and balances, which notices are about which order, what a call may ask for.

## What the runs check and show

| Run | Instance | Checks |
|---|---|---|
| `conc_mixed` `MCConcurrencyMixed.cfg` | 4 processes of a user with limits 1, 1, 2, 3, one of a second user, queue of 2, restarts; 155,200 states | `CountsMatchSlots`, `LimitRespected`, `NoIdleSlotWhileQueued`, `NoOrphanSlot`, `ImplementsAdmissionQueue` |
| `conc_uniform` `MCConcurrencyUniform.cfg` | 5 processes, limit 2, queue of 2, no restarts, fairness; 42,828 states | `ServingWithinLimit`, `DeadSlotFreed`, `CallAnswered` |
| `billing_breaker` `MCBillingBreaker.cfg` | 3 requests of 2 users, one payment, failing queries, kills, threshold 2, fairness; 382,921 states | `BreakerConsistent`, `ChargesAccounted`, `OnlyRepeatsTake`, `ChargesReachDB`, `BreakerRecovers` |
| `billing_faults` `MCBillingFaults.cfg` | 3 requests of 2 users, one top-up, every fault, circuit closed; 3.9 million states | `NeverOvercharged`, `CacheNeverShort` |
| `billing_fulfil` `MCBillingFulfil.cfg` | one payment, no faults | violates `NeverOvercharged` |
| `billing_reopen` `MCBillingReopen.cfg` | failing queries, threshold 1 | violates `NeverOvercharged` |
| `payment` `MCPayment.cfg` | one order of any provider, 2 notices, 2 request processes, 1 fault, 1 retry, fairness; 261,018 states | `FulfilledOnce`, `SuccessIsTrue`, `ImplementsOrderLedger`, `PaymentArrives`, `ProviderStops` |
| `clips_port` `MCClipsPort.cfg` | 4 calls of all kinds, 2 of them decisions, one exit of the program, fairness; 181,921 states | `LateIsCaught`, `DecidedOnOwnFacts`, `CallEnds` |
| `upstream_pool` `MCUpstreamPool.cfg` | 3 requests, 2 keys, 2 connections, a pool for 1, while a key is neither stale nor strayed; 3.5 million states | `CountsUsers`, `NoLostConnection`, `SparesBusy` |
| `stream` `MCStream.cfg` | each kind of handler, up to 3 pieces or 1xx messages before the last, no tokens, an input or output token or two cache tokens each, fairness; 641,620 states | `UsageAccounted`, `DoneIsAll`, `ImplementsDelivery`, `RequestEnds`, `StreamEnds` |
| `session` `MCSession.cfg` | 2 users, 2 requests in flight, fairness; 175,474 states | `SingleFlight`, `QuietLogoutClears`, `OneSession`, `ImplementsRefreshGate`, `EveryWaitEnds` |
| `app_stores` `MCAppStores.cfg` | 2 users, 3 popups, 2 list requests, 4 generations, 2 timeouts of each kind; 796,465 states | `SubscriptionsOfSession`, `PopupNotStuck`, `SubscriptionsNeverRegress`, `PopupOnce` |

The type invariants of all modules, two invariants that follow closely from
theirs (`PopupsOfSession`, `DeadPortNoticed`) and two that a checked refinement implies
(`PaidIsCredited` by `ImplementsOrderLedger`, `SentAtMostTwice` by `ImplementsRefreshGate`) are theorems
for all values of the constants and are not repeated in the runs.

**Concurrency.** The counter and the rows are changed by separate statements in
four places and agree all the same; the one-sided test `Count > 1` of
`decrement_count` never meets a missing row. A slot is returned by a release and
by a DOWN only once. `LimitRespected` is stated for requests with different
limits: a key with the limit 1 may queue behind a user with the limit 3, and the
holders that were promised "at most k at once" are never more than k, but a
request with the limit 3 may run beside it. `NoIdleSlotWhileQueued` is the absence of
lost wakeups: `try_dequeue` looks at the head only and once, so it matters that
whenever somebody is queued a later release is due. `ServingWithinLimit` says the
same of the pipelines that really run; it is checked without restarts, since a
restarted limiter forgets the pipelines that are still running and admits as many
again. `CallAnswered` has two callers in the queue and one that is turned away: with a queue served from
its other end the first of them would wait for ever. The refinement shows that clients can rely on first come, first served. It
also shows the price: a caller that timed out keeps its place and its queue
length until it is handed a slot.

**Billing.** `ChargesAccounted` follows each unit taken from a cached balance from its request through cast,
pending map and users table, in the middle of a sync as well. A request killed between its charge and its
report keeps that charge from the table: the code loses it in the user's favour, and the property shows that kills lose
nothing else. It is claimed up to
the first mishap: a failed update is dropped by the code with the pending map, a
restart drops casts, `sync_balance` overwrites. `NeverOvercharged` is what remains
after mishaps: the losses are the operator's, never the user's, apart from the two billing
findings below. `OnlyRepeatsTake` is stronger, and is checked where the findings do happen: in an instance
with a payment and an open circuit no step takes more from a user than was reported but the two of the
findings, and the probe takes exactly what was pending. `CacheNeverShort` looks at the other copy: the late insert of a
balance read earlier can undo a charge in the cache, but it denies nothing that the table had when it was read. Credit that
comes after the row was read is denied, in this very run by the top-up: nothing tells the cache of it
(`src/admin/ersub_admin_handler.erl:2604`), and a row is never read again while it is there. The
breaker counts failures over several timer runs; `BreakerConsistent` ties the
circuit to the count, `BreakerRecovers` says an open circuit with work behind it
closes again.

**Payment.** `FulfilledOnce` is the core: notices repeat, two request processes serve two
notices of one order at once, a call is given up by its caller and served all the same,
and the `UPDATE ... WHERE status = 'pending'` of the server lets one of them through.
`ImplementsOrderLedger` says it of every step and of all faults: an order becomes paid only from pending and only in
the step that begins its fulfilment, which is then credited once or counted as `lost`; nothing of the mailbox, of
callers that are gone and of crashes between the queries can be seen in orders and credits. `SuccessIsTrue` looks
at what providers are told. For alipay and easypay it cannot be "the order has left
pending": they log a notice before they act on it, a repeat is answered with success
while the first is still at work, or after it failed; that exception is in `Settled`, and
`PaymentArrives` leaves these two out because after such a failure nobody ever fulfils the order.
`ProviderStops` leaves out the JSON webhooks: once their answer was lost the order is
no longer pending and every repeat gets an error. A payment that comes after the user
has cancelled is answered with success and credited to nobody.

**Rule engine port.** `LateIsCaught`: a worker that begins a call while answers of a given-up
one are still to come is always found out by its answers, *unless* it is as many
answers behind as the new call has commands. That exception is real: three timeouts in a row,
all answered later, let a decision be answered with an older decision; and for
the one-command calls (`get_*_config`, `reload`, `ping`) one timeout suffices, provided the
late answer is of the same operation. `DecidedOnOwnFacts` says that short of this the
engine held exactly the facts of the call, whatever was asserted by calls that were
given up. `CallEnds` holds even when the program hangs for ever, because every `receive`
of the worker is bounded by 10 s and so is every call.

**Upstream pool.** Two things spoil a count. Rows are read and written without a lock, so a lost update is
always possible: two requests that take the same idle connection may count as
one. `stale` collects the keys for which a step rested on a row that had changed in between; the race of the sweep, which closes
a connection that was taken after the look, is such a step. And `return_connection` counts down whatever row the key has,
without any race: a request whose connection has died is taken off the connection opened after it (`strayed`, see
below). `CountsUsers` says that nothing else spoils a count, through reuse, death, eviction, sweep and killed requests, and that the second only
makes it too small. `NoLostConnection` needs the absence of races only: a stray return loses no connection, and a request on a live
connection finds it in the row of its key. `SparesBusy` draws the conclusion: a connection in use is closed after one of the two and in no other case. Without the exception for stray
returns it is false. A killed request stays in the count, so that its row is neither swept nor
evicted again.

**Streaming.** `UsageAccounted` relates the log to what was forwarded, through every way a stream can
end: one record with all tokens when it ended by itself, and none twice, whichever of a last piece, an error and
the end of the connection comes first, also when the request has been killed meanwhile. It excepts the three ways the code
really loses usage: a crash of the stream process; the stop of a request whose 30 s ran out while the
first answer was already being forwarded; and a stream that breaks off when only cache tokens have been reported,
since the partial record is made only for input and output tokens (`src/gateway/ersub_stream_fsm.erl:194`). `DoneIsAll` is about both mailboxes together: a client that was sent the
end has every event, and the log has the same. `RequestEnds` and `StreamEnds` say that the two processes end
without watching each other, by timers alone; the first excepts claude's wait before it has heard
of its stream, which ends only with the client if the stream process crashed without a word. `ImplementsDelivery` says of every step what
the two invariants say of the ends: an answer whose last piece was forwarded can only be billed, in full, and is
called complete only from then on.

**Session.** `SingleFlight` ties the flag, the refreshing request and the subscribers
together. It is about the interceptor's refresh: the store's timer refreshes the token on its own
(`frontend/src/stores/auth.ts:204`), here as in the code, and may do so at the same time. With it `EveryWaitEnds` says that no request waits for a refresh that is
over, also when that refresh fails. `ImplementsRefreshGate` follows each request: a server which always
answers 401 does not make the client loop, because one that is sent again is past the gate; whoever waited goes on
in the step in which the refresh ends, and no later refresh is joined by a request of an earlier one. `QuietLogoutClears` and `OneSession` are
what holds of logout and of two sessions in one tab when nothing else is in flight; with
requests in flight they fail (see below).

**Stores.** `SubscriptionsNeverRegress` and `SubscriptionsOfSession` say that the generation number does
its work for forced and unforced requests, the poller, and logouts in any order.
`PopupNotStuck` is the hand-over between `dismissPopup`'s timeout and
the lists that arrive meanwhile; the late timeout may replace a popup that a list
has opened, which is then never dismissed, but the queue goes on.

**Bounds.** The requests and credits of `Billing` are used once, so their number
bounds everything; `Costs` and balances are small. Two requests of one user are
what the races on a cached row need, the second user makes `do_sync_all` more
than one update, and three charges with threshold 2 open the circuit over
several runs. In `Concurrency` the processes are used again and again and nothing
grows. Four processes on limits 1 to 3 with a queue of two reach a full queue, a
rejected caller, and a head whose limit keeps it from a freed slot. Five on the one limit 2 with a queue of two reach
two holders, one caller behind another in the queue, and one that is rejected. `billing_faults` sets the
threshold to 9, more than the at most three failing updates can reach, which
keeps the circuit closed: with it open the finding below would hide everything
else. Symmetry exchanges the two requests of the first user and is used in runs
without temporal properties only. `MayCrash = FALSE` in `conc_uniform`: a blocked caller exits at
a restart, so `CallAnswered` would gain nothing from restarts, and
`ServingWithinLimit` does not survive one. In `Payment` one order suffices, since orders share
nothing but the server's mailbox; two notices and two processes make both a repeat and a race.
A larger instance with two faults (797,919 states, 4 minutes) passes as well.
In `ClipsPort` four calls are what it takes to be three answers behind a
decision, so that the exception of `LateIsCaught` is reached and not only allowed. In `UpstreamPool` three
requests of two keys in a pool for one make two races at a time, with an eviction between the keys; the
constraint `SomeKeyClean` stops where every key is stale or strayed and little is claimed any more. Streams share
nothing, so `Stream` has one; three messages before the last are enough for pieces of a body, a stop and a
break to wait in one mailbox. In `Session` two requests are one that refreshes and one that waits. In `AppStores` four generations allow
two requests in each of two sessions, or a logout between them.

**Fairness.** Weak fairness on what the Erlang runtime and the code drive by
themselves: the server handles a message it has, a caller receives its reply, a
pipeline ends (the handlers bound their waits for the upstream, except for a claude stream whose
process has crashed without a word: that one ends with its client), a timer armed
again by its own handler fires. No fairness on `Request`, `Kill`, `TimeOut`, `Crash` or a
failing query. `TimeOut` could have been fair; `CallAnswered` holds without it, which
is the stronger statement. `SyncUser` is fair as a whole, so a database that
always fails is allowed. Weak fairness on the probe says that a database probed
again and again, every 5 s, answers a probe at last; only `BreakerRecovers`
and `ChargesReachDB` depend on it. `Payment`: handlers and server are weakly fair; the delivery of
a notice is strongly fair, because a provider repeats it and finds a request process
again and again, while the bound on processes may make each single moment a bad one.
`ClipsPort`: only the worker is fair, whose every wait has a timeout; callers and the program
are not. `Stream`: both processes are fair, the provider and gun are not: `StreamEnds` starts from
the point where gun has sent its last message. `Session`: each request in flight ends, by the client's
30 s timeout, or by the browser's for the refresh, which is sent without one.

**Power of the checks.** The definitions introduced as "plausible slips" in the modules
(`HasRoomInclusive`, `NoMonitorOn`, `EndSyncKeepsPending`, ...) are not used by
any specification. Each stands for a plausible bug: put in the place of the definition
that follows it, the run named in `PROJECT.json` finds its property violated.

## Where the code and its comments part

1. *A payment disappears.* `fulfill` credits the users table and then calls
   `sync_balance` under the comment "Invalidate cached balance"
   (`src/payment/ersub_payment_srv.erl:152`). `do_sync_user` does the opposite: it
   writes the cached balance, from before the credit, over the table. With a row in
   the cache, which any request of the user leaves there, the credit is lost and the
   order stays paid. `redeem` and three more callers do the same. Run
   `billing_fulfil`.
2. *The probe is charged twice.* With the circuit open, one pending charge is tried
   and then *all* pending charges are applied, the tried one included
   (`src/billing/ersub_billing_srv.erl:87-91`), against "try one sync
   (half-open)" and the "idempotent charges" of the README. Run `billing_reopen`.

Beside these two the models contain the following, which no run is spent on:

- *A logout is undone.* The comment of `logout` says that it clears all authentication
  state and persisted data (`frontend/src/stores/auth.ts:397`). Requests in flight are not
  cancelled, and their answers write: `refreshUser` the user, in store and `localStorage`, a token
  refresh both tokens, after which the next page load is logged in again. `QuietLogoutClears` is
  what remains true.
- *A retry fulfils nothing.* "Retry order fulfillment"
  (`src/billing/ersub_payment_handler.erl:290`) sets the status back to pending and leaves
  the rest to a notice that has long been answered with success (`AdminRetries`).
- *A connection in use is closed as idle.* The design calls `in_flight` the number of active requests, above 0 not
  evicted (`docs/DESIGN.md:1121`). `return_connection` ignores the connection it is given
  (`src/upstream/ersub_upstream_pool.erl:86`): request A's connection dies, request B drops the row and opens another,
  A returns, and the row of B's connection says 0. The sweep closes it under B, though no two processes were at the row at once
  (`Return`, `strayed`).
- *The eviction takes any connection.* "Find the least recently used connection with 0
  in_flight" (`src/upstream/ersub_upstream_pool.erl:192`) takes the first row of a
  table that is sorted by pool key, the time of use being its value (`evict_lru`).
- *A failover ends a stream.* `stream_failover` is sent for another account to be tried; claude answers it with
  an error, and the other handlers have no clause for it and answer 504 after 30 s (openai) or exit
  (antigravity, whose stop meets a process that is gone: `StopReturns`).

## What is proved

With TLAPS 1.4.5, for every value of the constants that satisfies the
assumptions named in the modules: `ConcurrencyAssumption` (finitely many processes,
integer limits), `BillingAssumption` (natural costs and credits, a positive threshold),
`PaymentAssumption`, `ClipsAssumption`, `PoolAssumption`, `StreamAssumption`, `SessionAssumption` and `StoresAssumption` (placeholders such
as `Nobody` are not users or calls, bounds are natural numbers, request slots and announcements are
finite). Finiteness is needed for `Cardinality` to mean anything. Every invariant and
every action property of the passing runs is proved, some under the hypotheses named below.

**ConcurrencyProofs.tla**

| Theorem | Says |
|---|---|
| `TypeCorrect` | `Spec => []TypeOK` |
| `CountsAgree`, `LimitsHold`, `NoLostWakeup`, `NoSlotLeaks` | the four invariants of `conc_mixed` |
| `Refinement` | `Spec => Admission!Spec` |
| `PipelinesWithinLimit` | `Spec /\ [][~Crash]_vars => []ServingWithinLimit` |
| `NoSlotWithoutLimit` | `Spec => [](\A p \in slots : LimitOf[p] >= 1)` |
| `HopelessHeadStays` | a queue head without a positive limit stays the head in every step but a restart |

None of the four invariants is inductive alone. The proof uses
`IInv`, their conjunction with `TypeOK` and `QueueOK`: a process is in the server
in one place at most, as an unhandled call, as one entry of the queue of its own
user, or as a slot row. Without it, the head of a queue could already hold a slot
or belong to another user, and a counter would grow without a new row. `IInv` is split in two: `SlotInv` speaks of the server's
state and is preserved by four lemmas, one for each way the handlers change it
(`SlotInvGrant`, `SlotInvEnqueue`, `SlotInvFreeOnly`, `SlotInvFreeAndDequeue`), so
that release and DOWN share their proof; `LocInv` says where a process and its
signals are. `OwnedAdd` and `OwnedRemove` give the cardinality of a user's
slots after a row is added or removed; `RespectedAdd` is the heart of
`LimitsHold`: adding a holder below its own limit leaves the promise to every
other holder. `NoIdleSlotWhileQueued` survives a dequeue because
the user then holds as many slots as before, and a release without a dequeue
because the head's own limit is what kept it from the slot. `RoomIsAdmissible` connects the counter of the code with the set of the
abstract specification; `AcquireRefines` and `FreeRefines` map the handlers to its
actions, and every other step stutters or forgets. `PipelinesWithinLimit` adds `Held`: a pipeline that
runs, or whose reply is on the way, has a slot row, and no signal of its end is pending. Then the
pipelines are among the holders of `LimitRespected`. A restart breaks exactly this. `HopelessHeadStays` states a hazard of the code and not a virtue: nobody checks
`users.max_concurrency`, a caller with the limit 0 is queued, leaves the queue neither when it times out nor when it
dies, and everybody behind it waits in vain (newcomers below their limit are still let in).

**BillingProofs.tla**

| Theorem | Says |
|---|---|
| `TypeCorrect` | `Spec => []TypeOK`; in particular what is still to visit is always pending |
| `BreakerCorrect` | `Spec => []BreakerConsistent` |
| `NothingLostOrDoubled` | `Spec => []ChargesAccounted` |
| `TakenOnlyByRepeats` | `Spec => OnlyRepeatsTake` |
| `EnoughUntilRepeated` | for each user, `Spec /\ [][~Repeats(u)]_vars => []Enough(u)` |
| `NotOvercharged` | `Spec /\ [][NoRepeats]_vars => []NeverOvercharged` |
| `CacheErrsForUser` | under the same hypothesis, `[]CacheNeverShort` |

`TakenOnlyByRepeats` has no hypothesis: in every behaviour, whatever fails, the only steps that take more from a
user than was reported are `Repeats(u)`, a probe of this user that works and an overwriting of this user's row, which are
the two billing findings. The other two follow for a user to whom no such step happens, and for all of them; faults, open
circuits and restarts are allowed, and so are payments whose `sync_balance` finds nothing in the cache. They
rest on an equation turned into
an inequality: `Excess(u)`, what the users table has beyond its due once the casts
and the pending charges not applied yet have arrived, never falls (`KeptRequest`, `KeptCredit`, `KeptSync`,
`KeptCrash`); a failed update
or a restart can only raise it. `NothingLostOrDoubled` is the same argument with
equality, up to the first mishap (`LedgerExact`), joined with `Counted`. `CacheErrsForUser` builds on `NotOvercharged`: a row that is read from
the table is at least what the user had less what was *reported*, so at least that
less what was *charged*, and stays so until it is inserted, because charges only
grow; `readCredited` is what the user had been credited by then. That charges are ahead of reports is a sum over the requests in between, which the prover
cannot form; `Counted` says it with the set of the single units not reported yet, whose cardinality each
charge raises and each report lowers; a kill leaves them in the set.

**PaymentProofs.tla**

| Theorem | Says |
|---|---|
| `TypeCorrect` | `Spec => []TypeOK` |
| `NoSecondCredit` | `Spec => []FulfilledOnce` |
| `PaidMeansCredited` | `Spec => []PaidIsCredited` |
| `LedgerRefinement` | `Spec => Ledger!Spec` |
| `SuccessMeansSettled` | `Spec => []SuccessIsTrue` |

`Shape` is `TypeOK` with the contents of the mailbox. `OrderMoves` describes what any
step may do to one order: leave it, set it paid and begin its fulfilment, go on with that, or move
it by hand. From it follow the refinement (`OrderRefines`, `RequestRefines`, `TakeRefines`, `ServerRefines` map the steps of each
actor; an order is owed from `Fulfil` to the step that credits or loses it, and since the server takes no call meanwhile,
one is owed at a time) and `Budget`, the invariant of the first two: fulfilments never exceed one
more than the retries, and are below it while the order is pending. `RequestMoves` does the same for
requests. `SuccessMeansSettled` needs what requests know: `Known` (only orders that exist
are paid for), `Replies` (an answer of the server tells of an order that has left
pending, or of a failure that will upset it) and `Told` (an audit key stands for a notice at
work, failed or done).

**ClipsPortProofs.tla**

| Theorem | Says |
|---|---|
| `TypeCorrect` | `Spec => []TypeOK` |
| `GoneIsNoticed` | `Spec => []DeadPortNoticed` |
| `LateIsFound` | `Spec => []LateIsCaught` |
| `OwnFacts` | `Spec => []DecidedOnOwnFacts` |

The invariant is `QueueInv`: the lines in the mailbox and the commands the program has not
read form one queue, in which the n-th answer owed is for the command `Due(n)` of the current call, or for an
earlier call if that is below 1. A line's place is the number of lines up to it, and
`CountCut` says how places move when `receive_line` takes a message from the middle of the
mailbox. With fewer answers owed than the call has commands, the line the last command takes is
one of the call's own preparing commands and fits nothing (`LateLine`). `OwnInv` follows the
engine through a decision that began with nothing owed.

**UpstreamPoolProofs.tla**

| Theorem | Says |
|---|---|
| `TypeCorrect` | `Spec => []TypeOK` |
| `CountCorrect`, `NothingLost` | `[]CountsUsers`, `[]NoLostConnection` |
| `BusySpared` | `Spec => SparesBusy` |

`Stages` says what a request holds at each of its points, `OneKey` that a connection is written
down under one key only, in a row or in what somebody has read. The latter is what makes
`CountsUsers` an argument about one key at a time, and what `BusySpared` needs: the connection
that is closed is the one of the row that was looked at. `OwnRow` (a request on a live connection finds it in its row) shows that a
stray return meets only requests whose connection has died, so that it lowers a count and leaves the others right. An open connection is new to everybody
(`Known`), which is the assumption on gun the proof rests on.

**StreamProofs.tla**

| Theorem | Says |
|---|---|
| `TypeCorrect` | `Spec => []TypeOK` |
| `UsageLogged` | `Spec => []UsageAccounted` |
| `DeliveredIsLogged` | `Spec => []DoneIsAll` |
| `DeliveryRefinement` | `Spec => Promise!Spec` |

`Book` keeps the accumulated usage, and the input and output tokens in it, equal to what was forwarded until the stream process ends.
`Mail` is about what is on its way: the tokens the client has and those in its mailbox add up to what
was forwarded, and nothing follows the end. The sum over a mailbox of any length would be recursive; `Path(s, a, b)`
says instead that *some* function goes from `a` to `b` along the messages of `s` and never beyond `b`, and `PathAppend` and
`PathTail` say what sending and reading do to it. That it stays within `b` is the induction the prover cannot do, kept
as part of the invariant: it gives that a chunk that is read was forwarded (`PathBound`), which `Deliver` asks for. `Shapes` reduces the steps of the stream process to three:
silence, one message, the last words. For the refinement, `EarlyDelivers`, `StreamingDelivers`, `FinalizeDelivers` and
`RequestDelivers` map each process's steps; gun's are not seen.

**SessionProofs.tla**

| Theorem | Says |
|---|---|
| `TypeCorrect` | `Spec => []TypeOK` |
| `RefreshedOnce`, `NoRetryLoop` | `[]SingleFlight`, `[]SentAtMostTwice` |
| `QuietLogoutIsFinal`, `SessionsApart` | `[]QuietLogoutClears`, `[]OneSession` |
| `GateRefinement` | `Spec => Gate!Spec` |

One invariant, `IInv`, with a lemma for each operation. Beside the four properties it counts the sends of a
request against its mark (`SendsCounted`), says that after a quiet logout no request
in flight could bring anything back (`NothingComesBack`), and that every request in flight other than a login
carries credentials of the one user who is present, to whom everything stored belongs, while sessions do not overlap
(`OneOwner`). The refinement needs `SingleFlight` and, in `ReleaseRefines`, that the subscribers are exactly the
requests that wait, so that the one callback loop of the code moves all of them in one step.

**AppStoresProofs.tla**

| Theorem | Says |
|---|---|
| `TypeCorrect` | `Spec => []TypeOK` |
| `OwnSubscriptions`, `NewestWins` | `[]SubscriptionsOfSession`, `SubscriptionsNeverRegress` |
| `NextPopupComes`, `OwnPopups`, `ShownOnce` | `[]PopupNotStuck`, `[]PopupsOfSession`, `PopupOnce` |

`SubsInv`: a request of the current generation is of the session, and what is shown is not newer than the
generation. `PopupsInv`: the queue has no popup twice and none that was shown; that a sequence built
from a set has no element twice is a counting argument (`Places`).

## What is only model-checked

Liveness: `DeadSlotFreed`, `CallAnswered`, `ChargesReachDB`, `BreakerRecovers`, `PaymentArrives`,
`ProviderStops`, `CallEnds`, `RequestEnds`, `StreamEnds`, `EveryWaitEnds`. The prover does not reason about fairness and
ENABLED. `NeverOvercharged` and `CacheNeverShort` are theorems under `NoRepeats` only; without it the first is
refuted by two runs, and `OnlyRepeatsTake` is what holds of every behaviour.

## What is not modelled

`PROJECT.json` lists every component with the reason. In short:

- *Accounts, scheduler, failover, token refresh.* What an error does to an account is decided by
  rules in `priv/clips` and by rows in PostgreSQL; a model would be one of the rules' text. The
  failover functions of the scheduler are called by no handler. Where the Erlang around them goes
  wrong it can be read off one function: `clips_score` answers `{error, no_available_account}`, for which
  the case over the layers (`src/scheduler/ersub_scheduler_srv.erl:47`) has no clause; a status is read before
  it is used; late errors undo a cooldown; the running account keeps credentials that were refreshed in the table.
- *The WebSocket handler.* It relays frames between two sockets; its counters are only logged.
- *Rate limiter, key cache, usage log, advisory locks.* One unlocked read and write, one time to live,
  one buffer, one lock that belongs to a database session while lock and unlock may take two: each can be read
  off one function.
- *Refunds, codes, promotions.* `request_refund` and `process_refund` are reached by no
  order, `redeem_code` and `apply_promo` are called by nobody. The administrator's endpoint that
  creates and redeems a code does so in three queries of which nobody looks at the result.
- *Views, forms, translations and type declarations of the frontend*, the bulk of its lines: they send
  one request, show its answer and share no state.
- *Components that only read, or are one query per request*; body translation, hashing and signing (pure
  computation); PostgreSQL, cowboy, gun and the CLIPS library (outside of the repository; cowboy's
  kill, the query that fails and the program that exits are external actions).
- *The supervisor's restart limit* (10 in 60 s): the models allow any number of restarts.
- *Truncation to micro-dollars* in the cache against exact floats in the server: amounts are whole units.
