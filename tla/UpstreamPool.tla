---------------------------- MODULE UpstreamPool ----------------------------
(***************************************************************************)
(* The pool of upstream connections, ersub_upstream_pool: one connection   *)
(* for each pool key, shared by all requests of that key, with a count of  *)
(* the requests on it.                                                     *)
(*                                                                         *)
(* get_connection and return_connection run in the request process, on     *)
(* tables anybody may write: they read a row, and write it later.  The     *)
(* server only sweeps.  It is no monitor of the connections (their openers *)
(* are), so a dead one stays in the table until somebody looks at it.      *)
(*                                                                         *)
(* A row and its key in the LRU table are written in one step, as is a     *)
(* round of evict_lru; time is left out, so that any idle row may be old   *)
(* enough to be swept.  A connection dies whenever gun or the peer wants,  *)
(* for one when the process that opened it ends.                           *)
(***************************************************************************)
EXTENDS Integers, Sequences, FiniteSets

CONSTANTS
  Procs,      \* request processes
  Keys,       \* pool keys, which the LRU table sorts
  Conns,      \* connection processes
  NoConn,
  MAX_POOLS,
  MaxInFlight \* bounds the counts: lost updates make them grow

ASSUME PoolAssumption ==
  /\ Keys \subseteq Nat /\ Keys # {} /\ NoConn \notin Conns
  /\ IsFiniteSet(Procs)
  /\ MAX_POOLS \in Nat /\ MaxInFlight \in Nat

VARIABLES
  pool,    \* POOL_TABLE: the row of a key
  lru,     \* the keys of LRU_TABLE
  up,      \* connections that are alive
  req,     \* request processes: where one is, its key and its connection,
           \* and the row (of the key "of") it has read and will act upon
  sweep,   \* the row cleanup_idle_connections is at
  stale,   \* history: keys written on the ground of a row that had changed
  strayed  \* history: keys whose row a request on an earlier connection has
           \* counted down

tables == <<pool, lru, up>>
history == <<stale, strayed>>
vars == <<tables, req, sweep, history>>

NoRow == [conn |-> NoConn, in_flight |-> 0]
Row == [conn : Conns, in_flight : Nat] \cup {NoRow}

Points == {"idle", "reuse", "drop", "check", "evict", "close", "open",
           "using", "return", "gone"}
Request == [at : Points, key : Keys, conn : Conns \cup {NoConn}, of : Keys,
            seen : Row]

Someone == CHOOSE k \in Keys : TRUE
NoReq == [at |-> "idle", key |-> Someone, conn |-> NoConn,
          of |-> Someone, seen |-> NoRow]
NoSweep == [of |-> Someone, seen |-> NoRow]

Init ==
  /\ pool = [k \in Keys |-> NoRow] /\ lru = {} /\ up = {}
  /\ req = [p \in Procs |-> NoReq]
  /\ sweep = NoSweep
  /\ stale = {} /\ strayed = {}

Size == Cardinality({k \in Keys : pool[k] # NoRow})

\* The request is at the step "at" and has read the row r of k, or nothing.
Sees(p, at, k, r) ==
  req' = [req EXCEPT ![p] = [at |-> at, key |-> @.key, conn |-> @.conn,
                             of |-> k, seen |-> r]]
Goto(p, at) == Sees(p, at, Someone, NoRow)
Ends(p) == req' = [req EXCEPT ![p] = NoReq]

\* It has the connection c of k.
Uses(p, k, c) ==
  req' = [req EXCEPT ![p] = [at |-> "using", key |-> k, conn |-> c,
                             of |-> Someone, seen |-> NoRow]]

\* A write or a close of k that rests on the row r read before.
Rests(k, r) == stale' = IF pool[k] = r THEN stale ELSE stale \cup {k}

----------------------------------------------------------------------------
(* get_connection. *)

\* The lookup, and whether the connection it found is alive.
Look(p, k) ==
  /\ req[p].at = "idle" /\ pool[k].in_flight < MaxInFlight
  /\ req' = [req EXCEPT ![p] =
       [at |-> IF pool[k] = NoRow THEN "check"
               ELSE IF pool[k].conn \in up THEN "reuse" ELSE "drop",
        key |-> k, conn |-> NoConn, of |-> k, seen |-> pool[k]]]
  /\ UNCHANGED <<tables, sweep, history>>

\* Plausible slips of the definitions after them: a reuse that is not counted,
\* a busy row taken for an idle one, a row deleted without gun:close.
ReuseUncounted(p) ==
  LET k == req[p].key  r == req[p].seen
  IN /\ req[p].at = "reuse"
     /\ lru' = lru \cup {k}
     /\ Uses(p, k, r.conn)
     /\ Rests(k, r)
     /\ UNCHANGED <<pool, up, sweep, strayed>>

AnyRow(k) == pool[k] # NoRow

LeftOpen(c) == up

\* One more request on the connection, counted from the row read before.
Reuse(p) ==
  LET k == req[p].key  r == req[p].seen
  IN /\ req[p].at = "reuse"
     /\ pool' = [pool EXCEPT ![k] = [r EXCEPT !.in_flight = @ + 1]]
     /\ lru' = lru \cup {k}
     /\ Uses(p, k, r.conn)
     /\ Rests(k, r)
     /\ UNCHANGED <<up, sweep, strayed>>

\* The row of a dead connection goes, its key in the LRU table stays.
Drop(p) ==
  LET k == req[p].key
  IN /\ req[p].at = "drop"
     /\ pool' = [pool EXCEPT ![k] = NoRow]
     /\ Rests(k, req[p].seen)
     /\ Goto(p, "open")
     /\ UNCHANGED <<lru, up, sweep, strayed>>

maybe_evict(p) ==
  /\ req[p].at = "check"
  /\ Goto(p, IF Size >= MAX_POOLS THEN "evict" ELSE "open")
  /\ UNCHANGED <<tables, sweep, history>>

Idle(k) == pool[k] # NoRow /\ pool[k].in_flight = 0

\* A round of evict_lru: the first key of the LRU table.  A busy one is
\* passed over and taken out of the table, one without a row ends the search.
evict_lru(p) ==
  /\ req[p].at = "evict"
  /\ \/ lru = {} /\ Goto(p, "open") /\ UNCHANGED lru
     \/ \E k \in lru :
          /\ \A i \in lru : k <= i
          /\ \/ Idle(k) /\ Sees(p, "close", k, pool[k]) /\ UNCHANGED lru
             \/ pool[k] # NoRow /\ ~Idle(k)
                /\ lru' = lru \ {k} /\ UNCHANGED req
             \/ pool[k] = NoRow /\ lru' = lru \ {k} /\ Goto(p, "open")
  /\ UNCHANGED <<pool, up, sweep, history>>

Closed(c) == up \ {c}

\* gun:close and the two deletions, for a row r read before.
Close(k, r) ==
  /\ up' = Closed(r.conn)
  /\ pool' = [pool EXCEPT ![k] = NoRow]
  /\ lru' = lru \ {k}
  /\ Rests(k, r)
  /\ UNCHANGED strayed

Evict(p) ==
  /\ req[p].at = "close"
  /\ Close(req[p].of, req[p].seen)
  /\ Goto(p, "open")
  /\ UNCHANGED sweep

\* A connection that nobody knows stands for a new one.
Known == {pool[k].conn : k \in Keys} \cup {req[p].conn : p \in Procs}
           \cup {req[p].seen.conn : p \in Procs} \cup {sweep.seen.conn}

\* open_new_connection, when gun:await_up is back: the row is overwritten.
Open(p) ==
  LET k == req[p].key
  IN /\ req[p].at = "open"
     /\ \E c \in Conns \ (Known \cup up) :
          /\ up' = up \cup {c}
          /\ pool' = [pool EXCEPT ![k] = [conn |-> c, in_flight |-> 1]]
          /\ Uses(p, k, c)
     /\ lru' = lru \cup {k}
     /\ Rests(k, NoRow) /\ strayed' = strayed \ {k}
     /\ UNCHANGED sweep

\* {error, {connect, Reason}}: the request is over.
OpenFails(p) ==
  /\ req[p].at = "open"
  /\ Ends(p)
  /\ UNCHANGED <<tables, sweep, history>>

----------------------------------------------------------------------------
(* return_connection. *)

\* The answer, an error or the timeout; then the lookup.  A count of 0 and
\* a row that is gone are left as they are.
Finish(p) ==
  LET k == req[p].key
  IN /\ req[p].at = "using"
     /\ IF pool[k].in_flight > 0 THEN Sees(p, "return", k, pool[k]) ELSE Ends(p)
     /\ UNCHANGED <<tables, sweep, history>>

\* One request fewer, whichever connection the row is about by now: the
\* connection that is returned (_ConnPid) is not looked at.
Return(p) ==
  LET k == req[p].key  r == req[p].seen
  IN /\ req[p].at = "return"
     /\ pool' = [pool EXCEPT ![k] = [r EXCEPT !.in_flight = @ - 1]]
     /\ Rests(k, r)
     /\ strayed' = IF r.conn = req[p].conn THEN strayed ELSE strayed \cup {k}
     /\ Ends(p)
     /\ UNCHANGED <<lru, up, sweep>>

\* cowboy kills a request whose client has gone: nothing is returned.
Kill(p) ==
  /\ req[p].at \notin {"idle", "gone"}
  /\ IF req[p].conn = NoConn THEN Ends(p) ELSE Goto(p, "gone")
  /\ UNCHANGED <<tables, sweep, history>>

----------------------------------------------------------------------------
(* cleanup_idle_connections, and the connections. *)

SweepLook ==
  /\ sweep = NoSweep
  /\ \E k \in Keys : Idle(k) /\ sweep' = [of |-> k, seen |-> pool[k]]
  /\ UNCHANGED <<tables, req, history>>

SweepClose ==
  /\ sweep # NoSweep
  /\ Close(sweep.of, sweep.seen)
  /\ sweep' = NoSweep
  /\ UNCHANGED req

ConnDies ==
  /\ \E c \in up : up' = up \ {c}
  /\ UNCHANGED <<pool, lru, req, sweep, history>>

Next ==
  \/ \E p \in Procs :
       \/ \E k \in Keys : Look(p, k)
       \/ Reuse(p) \/ Drop(p) \/ maybe_evict(p) \/ evict_lru(p) \/ Evict(p)
       \/ Open(p) \/ OpenFails(p) \/ Finish(p) \/ Return(p) \/ Kill(p)
  \/ SweepLook \/ SweepClose \/ ConnDies

Spec == Init /\ [][Next]_vars

----------------------------------------------------------------------------
\* Requests on a connection of k, those killed there and not counted out
\* among them.
Users(k, c) ==
  {p \in Procs : req[p].key = k /\ req[p].conn = c
                 /\ req[p].at \in {"using", "return", "gone"}}

\* Type invariant.
TypeOK ==
  /\ pool \in [Keys -> Row] /\ lru \subseteq Keys /\ up \subseteq Conns
  /\ req \in [Procs -> Request]
  /\ sweep \in [of : Keys, seen : Row]
  /\ stale \subseteq Keys /\ strayed \subseteq Keys

\* Two things spoil in_flight.  Reading and writing the row separately: a key
\* is stale once a write of it rested on a row that had changed.  And
\* return_connection, which counts down whatever row it finds: a request whose
\* connection has died takes one off the connection opened after it, with
\* nothing running at the same time.  A count that neither has touched is the
\* number of the requests on the connection, the killed ones included, through
\* reuse, dead connections, eviction and the sweep; stray returns alone make it
\* too small, never too large.
CountsUsers ==
  \A k \in Keys \ stale :
    LET users == Cardinality(Users(k, pool[k].conn))
    IN pool[k] # NoRow => /\ pool[k].in_flight <= users
                          /\ k \notin strayed => pool[k].in_flight = users

\* No connection is open that the pool has lost, unless some write rested on a
\* row that had changed: it has a row, which a later request, an eviction or
\* the sweep finds.  And a request whose connection is alive finds it in the
\* row of its key, unless that key is stale: return_connection counts down the
\* row of another connection only for one that has died.
NoLostConnection ==
  /\ stale = {} => \A c \in up : \E k \in Keys : pool[k].conn = c
  /\ \A p \in Procs :
       req[p].conn \in up /\ req[p].key \notin stale
         => pool[req[p].key].conn = req[p].conn

\* The step closes the connection of k, to make room or as idle, under a
\* request that runs.
ClosesBusy(k) ==
  /\ SweepClose \/ \E p \in Procs : Evict(p)
  /\ \E c \in up \ up' :
       pool[k].conn = c /\ \E p \in Users(k, c) : req[p].at # "gone"

\* The connection of a request that runs is never closed by the pool, unless
\* a write of its key rested on a row that had changed, in this very step or
\* before, or its count had been lowered by a stray return.  The latter does
\* happen, against docs/DESIGN.md:1121 ("active requests, not evicted when > 0").
SparesBusy == [][\A k \in Keys : ClosesBusy(k) => k \in stale' \cup strayed]_vars
=============================================================================
