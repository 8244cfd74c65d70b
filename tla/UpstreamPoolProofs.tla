------------------------- MODULE UpstreamPoolProofs -------------------------
(***************************************************************************)
(* Proofs about UpstreamPool for any requests, keys and connections, and   *)
(* any size of the pool.                                                   *)
(***************************************************************************)
EXTENDS UpstreamPool, FiniteSetTheorems, TLAPS

USE PoolAssumption

On == {"using", "return", "gone"}
Holding == {"reuse", "drop", "close", "return"}

\* What a request has at each of its points.
Stages ==
  \A p \in Procs :
    /\ req[p].at = "idle" => req[p] = NoReq
    /\ (req[p].at \in On) <=> (req[p].conn # NoConn)
    /\ (req[p].at \in Holding) <=> (req[p].seen # NoRow)
    /\ req[p].at \in {"reuse", "drop", "return"} => req[p].of = req[p].key
    /\ req[p].at = "close" => req[p].seen.in_flight = 0
    /\ req[p].at = "return" => req[p].seen.in_flight > 0
    /\ req[p].at = "drop" => req[p].seen.conn \notin up

SweepsIdle == sweep = NoSweep \/ (sweep.seen # NoRow /\ sweep.seen.in_flight = 0)

\* The key k is written down beside the connection c.
Beside(c, k) ==
  \/ pool[k].conn = c
  \/ \E p \in Procs : \/ req[p].key = k /\ req[p].conn = c
                      \/ req[p].of = k /\ req[p].seen.conn = c
  \/ sweep.of = k /\ sweep.seen.conn = c

OneKey ==
  \A c \in Conns, k, l \in Keys : Beside(c, k) /\ Beside(c, l) => k = l

IInv == TypeOK /\ Stages /\ SweepsIdle /\ OneKey /\ CountsUsers
          /\ NoLostConnection

----------------------------------------------------------------------------
(* Types. *)

LEMMA Rows == /\ NoRow \in Row /\ \A r \in Row : r.in_flight \in Nat
              /\ \A r \in Row : r.conn \in Conns <=> r # NoRow
              /\ \A r \in Row : r.conn \in Conns \cup {NoConn}
              /\ \A r \in Row : r # NoRow => r \in [conn : Conns, in_flight : Nat]
              /\ Someone \in Keys
BY DEF NoRow, Row, Someone

LEMMA SeesType ==
  ASSUME TypeOK, NEW p \in Procs, NEW at \in Points, NEW k \in Keys, NEW r \in Row,
         Sees(p, at, k, r)
  PROVE  /\ req' \in [Procs -> Request]
         /\ req' = [req EXCEPT ![p] =
              [at |-> at, key |-> req[p].key, conn |-> req[p].conn, of |-> k,
               seen |-> r]]
<1>1. req[p] \in Request
  BY DEF TypeOK
<1> QED BY <1>1 DEF Sees, TypeOK, Request

\* Each step writes rows and requests of the right form.
LEMMA TypesKept ==
  ASSUME TypeOK, Stages, SweepsIdle, [Next]_vars
  PROVE  TypeOK'
<1> USE Rows
<1>1. ASSUME NEW p \in Procs, NEW k \in Keys, Look(p, k) PROVE TypeOK'
  BY <1>1 DEF TypeOK, Look, tables, history, Request, Points
<1>2. ASSUME NEW p \in Procs, Reuse(p) PROVE TypeOK'
  <2> DEFINE r == req[p].seen
  <2>1. r \in [conn : Conns, in_flight : Nat]
    <3>1. req[p] \in Request /\ r # NoRow
      BY <1>2 DEF Reuse, Stages, Holding, TypeOK
    <3> QED BY <3>1 DEF Request
  <2>2. [r EXCEPT !.in_flight = @ + 1] \in Row
    BY <2>1 DEF Row
  <2>3. req' \in [Procs -> Request] /\ req[p].key \in Keys
    BY <1>2, <2>1 DEF Reuse, Uses, TypeOK, Request, Points
  <2> QED BY <1>2, <2>2, <2>3 DEF TypeOK, Reuse, Rests
<1>3. ASSUME NEW p \in Procs, Drop(p) PROVE TypeOK'
  <2>1. req' \in [Procs -> Request] /\ req[p].key \in Keys
    BY <1>3, SeesType DEF Drop, Goto, Points, TypeOK, Request
  <2> QED BY <1>3, <2>1 DEF TypeOK, Drop, Rests
<1>4. ASSUME NEW p \in Procs, maybe_evict(p) PROVE TypeOK'
  <2>1. req' \in [Procs -> Request]
    BY <1>4, SeesType DEF maybe_evict, Goto, Points
  <2> QED BY <1>4, <2>1 DEF TypeOK, maybe_evict, tables, history
<1>5. ASSUME NEW p \in Procs, evict_lru(p) PROVE TypeOK'
  <2>1. /\ UNCHANGED <<pool, up, sweep, history>> /\ lru' \subseteq lru
        /\ \/ UNCHANGED req
           \/ \E at \in Points, k \in Keys, r \in Row : Sees(p, at, k, r)
    <3>1. lru \subseteq Keys /\ \A k \in Keys : pool[k] \in Row
      BY DEF TypeOK
    <3> QED BY <1>5, <3>1 DEF evict_lru, Goto, Points
  <2>2. req' \in [Procs -> Request]
    BY <2>1, SeesType DEF TypeOK
  <2> QED BY <2>1, <2>2 DEF TypeOK, history
<1>6. ASSUME NEW p \in Procs, Evict(p) PROVE TypeOK'
  <2>1. req' \in [Procs -> Request] /\ req[p].of \in Keys
    BY <1>6, SeesType DEF Evict, Goto, Points, TypeOK, Request
  <2> QED BY <1>6, <2>1 DEF TypeOK, Evict, Close, Closed, Rests
<1>7. ASSUME NEW p \in Procs, Open(p) PROVE TypeOK'
  <2>1. PICK c \in Conns :
          /\ up' = up \cup {c} /\ Uses(p, req[p].key, c)
          /\ pool' = [pool EXCEPT ![req[p].key] = [conn |-> c, in_flight |-> 1]]
    BY <1>7 DEF Open
  <2>2. [conn |-> c, in_flight |-> 1] \in Row
    BY DEF Row
  <2>3. req' \in [Procs -> Request] /\ req[p].key \in Keys
    BY <2>1 DEF Uses, TypeOK, Request, Points
  <2> QED BY <1>7, <2>1, <2>2, <2>3 DEF TypeOK, Open, Rests
<1>8. ASSUME NEW p \in Procs, OpenFails(p) PROVE TypeOK'
  BY <1>8 DEF TypeOK, OpenFails, tables, history, Ends, NoReq, Request, Points
<1>9. ASSUME NEW p \in Procs, Finish(p) PROVE TypeOK'
  <2>1. req' \in [Procs -> Request]
    <3>1. req[p].key \in Keys /\ pool[req[p].key] \in Row
      BY DEF TypeOK, Request
    <3>2. CASE Sees(p, "return", req[p].key, pool[req[p].key])
      BY <3>1, <3>2, SeesType DEF Points
    <3>3. CASE Ends(p)
      BY <3>3 DEF Ends, NoReq, TypeOK, Request, Points
    <3> QED BY <1>9, <3>2, <3>3 DEF Finish
  <2> QED BY <1>9, <2>1 DEF TypeOK, Finish, tables, history
<1>10. ASSUME NEW p \in Procs, Return(p) PROVE TypeOK'
  <2> DEFINE r == req[p].seen
  <2>1. r \in [conn : Conns, in_flight : Nat] /\ r.in_flight > 0
    <3>1. req[p] \in Request /\ r # NoRow /\ r.in_flight > 0
      BY <1>10 DEF Return, Stages, Holding, TypeOK
    <3> QED BY <3>1 DEF Request
  <2>2. [r EXCEPT !.in_flight = @ - 1] \in Row
    BY <2>1 DEF Row
  <2> QED BY <1>10, <2>2
         DEF TypeOK, Return, Rests, Ends, NoReq, Request, Points
<1>11. ASSUME NEW p \in Procs, Kill(p) PROVE TypeOK'
  <2>1. req' \in [Procs -> Request]
    <3>1. CASE Goto(p, "gone")
      BY <3>1, SeesType DEF Goto, Points
    <3>2. CASE Ends(p)
      BY <3>2 DEF Ends, NoReq, TypeOK, Request, Points
    <3> QED BY <1>11, <3>1, <3>2 DEF Kill
  <2> QED BY <1>11, <2>1 DEF TypeOK, Kill, tables, history
<1>12. CASE SweepLook
  BY <1>12 DEF TypeOK, SweepLook, tables, history
<1>13. CASE SweepClose
  BY <1>13 DEF TypeOK, SweepClose, Close, Closed, Rests, NoSweep
<1>14. CASE ConnDies
  BY <1>14 DEF TypeOK, ConnDies, history
<1>15. CASE UNCHANGED vars
  BY <1>15 DEF TypeOK, vars, tables, history
<1> QED
  BY <1>1, <1>2, <1>3, <1>4, <1>5, <1>6, <1>7, <1>8, <1>9, <1>10, <1>11,
     <1>12, <1>13, <1>14, <1>15 DEF Next

----------------------------------------------------------------------------
(* Every connection belongs to one key. *)

\* Nothing is written beside a key that was not beside it before.
LEMMA Carried ==
  ASSUME TypeOK, OneKey, NEW p \in Procs, NEW x,
         req' = [req EXCEPT ![p] = x] \/ UNCHANGED req,
         x.conn \in Conns => Beside(x.conn, x.key),
         x.seen.conn \in Conns => Beside(x.seen.conn, x.of),
         \A k \in Keys :
           pool'[k].conn \in Conns => Beside(pool'[k].conn, k),
         sweep'.seen.conn \in Conns => Beside(sweep'.seen.conn, sweep'.of)
  PROVE  OneKey'
<1>1. ASSUME NEW c \in Conns, NEW k \in Keys, Beside(c, k)' PROVE Beside(c, k)
  <2>1. CASE pool'[k].conn = c
    BY <2>1
  <2>2. CASE sweep'.of = k /\ sweep'.seen.conn = c
    BY <2>2
  <2>3. ASSUME NEW q \in Procs,
               \/ req'[q].key = k /\ req'[q].conn = c
               \/ req'[q].of = k /\ req'[q].seen.conn = c
        PROVE  Beside(c, k)
    <3>1. req'[q] = req[q] \/ req'[q] = x
      BY DEF TypeOK
    <3> QED BY <2>3, <3>1 DEF Beside
  <2> QED BY <1>1, <2>1, <2>2, <2>3 DEF Beside
<1> QED BY <1>1 DEF OneKey

LEMMA OneKeyKept ==
  ASSUME TypeOK, Stages, OneKey, [Next]_vars
  PROVE  OneKey'
<1> USE Rows
<1>0. /\ NoConn \notin Conns /\ NoRow.conn = NoConn
      /\ NoReq.conn = NoConn /\ NoReq.seen.conn = NoConn
      /\ NoSweep.seen.conn = NoConn
  BY DEF NoRow, NoReq, NoSweep
<1>1. /\ \A k \in Keys : Beside(pool[k].conn, k)
      /\ Beside(sweep.seen.conn, sweep.of)
      /\ \A p \in Procs : Beside(req[p].conn, req[p].key)
                          /\ Beside(req[p].seen.conn, req[p].of)
  BY DEF Beside
<1>2. ASSUME NEW p \in Procs, NEW k \in Keys, Look(p, k) PROVE OneKey'
  <2> DEFINE x == [at |-> IF pool[k] = NoRow THEN "check"
                          ELSE IF pool[k].conn \in up THEN "reuse" ELSE "drop",
                   key |-> k, conn |-> NoConn, of |-> k, seen |-> pool[k]]
  <2>1. x.conn = NoConn /\ x.seen = pool[k] /\ x.of = k
    OBVIOUS
  <2>2. req' = [req EXCEPT ![p] = x] /\ UNCHANGED <<pool, sweep>>
    BY <1>2 DEF Look, tables
  <2> HIDE DEF x
  <2> QED BY <1>0, <1>1, <2>1, <2>2, Carried
<1>3. ASSUME NEW p \in Procs, Reuse(p) \/ Return(p) PROVE OneKey'
  <2> DEFINE k == req[p].key
             r == req[p].seen
             x == [at |-> "using", key |-> k, conn |-> r.conn, of |-> Someone,
                   seen |-> NoRow]
  <2>1. k \in Keys /\ r \in [conn : Conns, in_flight : Nat] /\ req[p].of = k
    <3>1. req[p] \in Request /\ r # NoRow /\ req[p].of = k
      BY <1>3 DEF Reuse, Return, Stages, Holding, TypeOK
    <3> QED BY <3>1 DEF Request
  <2>2. /\ req' = [req EXCEPT ![p] = x] \/ req' = [req EXCEPT ![p] = NoReq]
        /\ UNCHANGED sweep
    BY <1>3 DEF Reuse, Return, Uses, Ends
  <2>3. \A l \in Keys : pool'[l].conn = IF l = k THEN r.conn ELSE pool[l].conn
    BY <1>3, <2>1 DEF Reuse, Return, TypeOK
  <2>4. x.conn = r.conn /\ x.key = k /\ x.seen = NoRow
    OBVIOUS
  <2>5. Beside(r.conn, k)
    BY <1>1, <2>1
  <2> HIDE DEF x
  <2>6. CASE req' = [req EXCEPT ![p] = x]
    BY <1>0, <1>1, <2>2, <2>3, <2>4, <2>5, <2>6, Carried
  <2>7. CASE req' = [req EXCEPT ![p] = NoReq]
    BY <1>0, <1>1, <2>2, <2>3, <2>5, <2>7, Carried
  <2> QED BY <2>2, <2>6, <2>7
<1>4. ASSUME NEW p \in Procs,
             Drop(p) \/ maybe_evict(p) \/ evict_lru(p) \/ Evict(p)
               \/ OpenFails(p) \/ Finish(p) \/ Kill(p)
      PROVE  OneKey'
  <2>1. UNCHANGED sweep
    BY <1>4 DEF Drop, maybe_evict, evict_lru, Evict, OpenFails, Finish, Kill
  <2>2. \A k \in Keys : pool'[k] = pool[k] \/ pool'[k] = NoRow
    BY <1>4 DEF Drop, maybe_evict, evict_lru, Evict, Close, OpenFails, Finish,
                Kill, tables, TypeOK
  <2>3. \/ UNCHANGED req \/ Ends(p)
        \/ \E at \in Points, k \in Keys : Sees(p, at, k, NoRow)
        \/ \E at \in Points, k \in Keys : Sees(p, at, k, pool[k])
    <3>1. lru \subseteq Keys /\ req[p].key \in Keys
      BY DEF TypeOK, Request
    <3>2. Drop(p) \/ maybe_evict(p) \/ Evict(p) \/ OpenFails(p) \/ Kill(p) =>
            \/ UNCHANGED req \/ Ends(p)
            \/ \E at \in Points, k \in Keys : Sees(p, at, k, NoRow)
      BY DEF Drop, maybe_evict, Evict, OpenFails, Kill, Goto, Points
    <3>3. evict_lru(p) =>
            \/ UNCHANGED req
            \/ \E at \in Points, k \in Keys : Sees(p, at, k, NoRow)
            \/ \E at \in Points, k \in Keys : Sees(p, at, k, pool[k])
      BY <3>1 DEF evict_lru, Goto, Points
    <3>4. Finish(p) =>
            \/ Ends(p)
            \/ \E at \in Points, k \in Keys : Sees(p, at, k, pool[k])
      BY <3>1 DEF Finish, Points
    <3> QED BY <1>4, <3>2, <3>3, <3>4
  <2>4. CASE UNCHANGED req \/ Ends(p)
    BY <1>0, <1>1, <2>1, <2>2, <2>4, Carried DEF Ends
  <2>5. ASSUME NEW at \in Points, NEW k \in Keys, NEW r \in {NoRow, pool[k]},
               Sees(p, at, k, r)
        PROVE  OneKey'
    <3> DEFINE x == [at |-> at, key |-> req[p].key, conn |-> req[p].conn,
                     of |-> k, seen |-> r]
    <3>1. req' = [req EXCEPT ![p] = x]
      BY <2>5 DEF Sees
    <3>2. /\ x.conn = req[p].conn /\ x.key = req[p].key /\ x.of = k
          /\ x.seen = NoRow \/ x.seen = pool[k]
      OBVIOUS
    <3> HIDE DEF x
    <3> QED BY <1>0, <1>1, <2>1, <2>2, <3>1, <3>2, Carried
  <2> QED BY <2>3, <2>4, <2>5
<1>5. ASSUME NEW p \in Procs, Open(p) PROVE OneKey'
  <2>1. PICK c \in Conns \ (Known \cup up) :
          /\ Uses(p, req[p].key, c)
          /\ pool' = [pool EXCEPT ![req[p].key] = [conn |-> c, in_flight |-> 1]]
    BY <1>5 DEF Open
  <2>2. ASSUME NEW d \in Conns, NEW k \in Keys, Beside(d, k)'
        PROVE  IF d = c THEN k = req[p].key ELSE Beside(d, k)
    <3>1. UNCHANGED sweep /\ sweep.seen.conn # c
      BY <1>5, <2>1 DEF Open, Known
    <3>2. /\ pool[k].conn # c
          /\ pool'[k].conn = IF k = req[p].key THEN c ELSE pool[k].conn
      BY <2>1 DEF Known, TypeOK
    <3>3. ASSUME NEW q \in Procs
          PROVE  IF q = p
                   THEN /\ req'[q].key = req[p].key /\ req'[q].conn = c
                        /\ req'[q].seen.conn \notin Conns
                   ELSE req'[q] = req[q] /\ req[q].conn # c /\ req[q].seen.conn # c
      BY <1>0, <2>1 DEF Uses, Known, TypeOK
    <3> QED BY <2>2, <3>1, <3>2, <3>3 DEF Beside
  <2> QED BY <2>2 DEF OneKey
<1>6. CASE SweepLook \/ SweepClose
  <2>1. UNCHANGED req
    BY <1>6 DEF SweepLook, SweepClose
  <2>2. \A k \in Keys : pool'[k] = pool[k] \/ pool'[k] = NoRow
    BY <1>6 DEF SweepLook, SweepClose, Close, tables, TypeOK
  <2>3. \/ sweep' = NoSweep
        \/ \E k \in Keys : sweep'.of = k /\ sweep'.seen = pool[k]
    BY <1>6 DEF SweepLook, SweepClose
  <2>4. \A c \in Conns, k \in Keys : Beside(c, k)' => Beside(c, k)
    BY <1>0, <2>1, <2>2, <2>3 DEF Beside
  <2> QED BY <2>4 DEF OneKey
<1>7. CASE ConnDies \/ UNCHANGED vars
  <2>1. UNCHANGED <<pool, req, sweep>>
    BY <1>7, Zenon DEF ConnDies, vars, tables
  <2> QED BY <2>1 DEF OneKey, Beside
<1> QED
  BY <1>2, <1>3, <1>4, <1>5, <1>6, <1>7 DEF Next

----------------------------------------------------------------------------
(* What a request has at each of its points. *)

\* A request reads a row when it is about to act upon it, and only then.
LEMMA StagesKept ==
  ASSUME TypeOK, Stages, SweepsIdle, [Next]_vars
  PROVE  Stages' /\ SweepsIdle'
<1> USE Rows
<1> DEFINE Stage(q) ==
      /\ req[q].at = "idle" => req[q] = NoReq
      /\ (req[q].at \in On) <=> (req[q].conn # NoConn)
      /\ (req[q].at \in Holding) <=> (req[q].seen # NoRow)
      /\ req[q].at \in {"reuse", "drop", "return"} => req[q].of = req[q].key
      /\ req[q].at = "close" => req[q].seen.in_flight = 0
      /\ req[q].at = "return" => req[q].seen.in_flight > 0
      /\ req[q].at = "drop" => req[q].seen.conn \notin up
<1>0. /\ NoReq.at = "idle" /\ NoReq.conn = NoConn /\ NoReq.seen = NoRow
      /\ \A q \in Procs : Stage(q) /\ req[q] \in Request
  BY DEF NoReq, Stages, TypeOK
<1>1. ASSUME NEW p \in Procs, NEW x,
             req' = [req EXCEPT ![p] = x], up' \subseteq up, UNCHANGED sweep,
             Stage(p)'
      PROVE  Stages' /\ SweepsIdle'
  <2>1. ASSUME NEW q \in Procs, q # p PROVE Stage(q)'
    <3>1. req'[q] = req[q]
      BY <1>1, <2>1 DEF TypeOK
    <3> QED BY <1>0, <1>1, <3>1
  <2>2. \A q \in Procs : Stage(q)'
    BY <1>1, <2>1
  <2> QED BY <1>1, <2>2 DEF Stages, SweepsIdle
<1>2. ASSUME NEW p \in Procs, Ends(p), up' \subseteq up, UNCHANGED sweep
      PROVE  Stages' /\ SweepsIdle'
  <2>1. req'[p] = NoReq
    BY <1>2 DEF Ends, TypeOK
  <2>2. Stage(p)'
    BY <1>0, <2>1 DEF On, Holding
  <2> QED BY <1>1, <1>2, <2>2 DEF Ends
<1>3. ASSUME NEW p \in Procs, NEW at \in Points, NEW k \in Keys, NEW r \in Row,
             Sees(p, at, k, r), up' \subseteq up, UNCHANGED sweep,
             at # "idle" /\ at # "drop" /\ (at \in On <=> req[p].at \in On),
             at \in Holding <=> r # NoRow,
             at \in {"reuse", "return"} => k = req[p].key,
             at = "close" => r.in_flight = 0, at = "return" => r.in_flight > 0
      PROVE  Stages' /\ SweepsIdle'
  <2>1. /\ req'[p].at = at /\ req'[p].key = req[p].key
        /\ req'[p].conn = req[p].conn /\ req'[p].of = k /\ req'[p].seen = r
    BY <1>3 DEF Sees, TypeOK
  <2>2. Stage(p)'
    BY <1>0, <1>3, <2>1 DEF On, Holding
  <2> QED BY <1>1, <1>3, <2>2 DEF Sees
<1>4. ASSUME NEW p \in Procs, NEW k \in Keys, Look(p, k)
      PROVE  Stages' /\ SweepsIdle'
  <2>1. /\ req'[p].at = IF pool[k] = NoRow THEN "check"
                        ELSE IF pool[k].conn \in up THEN "reuse" ELSE "drop"
        /\ req'[p].key = k /\ req'[p].conn = NoConn /\ req'[p].of = k
        /\ req'[p].seen = pool[k]
    BY <1>4 DEF Look, TypeOK
  <2>2. Stage(p)'
    BY <1>4, <2>1 DEF On, Holding, Look, tables
  <2> QED BY <1>1, <1>4, <2>2 DEF Look, tables
<1>5. ASSUME NEW p \in Procs, NEW k \in Keys, NEW c \in Conns, Uses(p, k, c)
      PROVE  Stage(p)'
  <2>1. /\ req'[p].at = "using" /\ req'[p].conn = c /\ req'[p].seen = NoRow
    BY <1>5 DEF Uses, TypeOK
  <2> QED BY <2>1 DEF On, Holding
<1>6. ASSUME NEW p \in Procs, Reuse(p) PROVE Stages' /\ SweepsIdle'
  <2>1. req[p].key \in Keys /\ req[p].seen.conn \in Conns
    BY <1>0, <1>6 DEF Reuse, Holding, Request
  <2> QED BY <1>1, <1>5, <1>6, <2>1 DEF Reuse, Uses
<1>7. ASSUME NEW p \in Procs, Open(p) PROVE Stages' /\ SweepsIdle'
  <2>1. PICK c \in Conns \ (Known \cup up) :
          Uses(p, req[p].key, c) /\ up' = up \cup {c}
    BY <1>7 DEF Open
  <2>2. Stage(p)'
    BY <1>0, <1>5, <2>1 DEF Request
  <2>3. ASSUME NEW q \in Procs, q # p PROVE Stage(q)'
    <3>1. req'[q] = req[q] /\ req[q].seen.conn # c
      BY <2>1, <2>3 DEF Uses, Known, TypeOK
    <3> QED BY <1>0, <2>1, <3>1
  <2> QED BY <1>7, <2>2, <2>3 DEF Stages, SweepsIdle, Open
<1>8. ASSUME NEW p \in Procs, Drop(p) \/ maybe_evict(p) \/ Evict(p)
      PROVE  Stages' /\ SweepsIdle'
  <2>1. \/ Sees(p, "open", Someone, NoRow) \/ Sees(p, "evict", Someone, NoRow)
    BY <1>8 DEF Drop, maybe_evict, Evict, Goto
  <2>2. up' \subseteq up /\ UNCHANGED sweep /\ req[p].at \notin On
    BY <1>8 DEF Drop, maybe_evict, Evict, Close, Closed, tables, On
  <2> QED BY <1>3, <2>1, <2>2 DEF On, Holding, Points
<1>9. ASSUME NEW p \in Procs, evict_lru(p) PROVE Stages' /\ SweepsIdle'
  <2>1. /\ up' \subseteq up /\ UNCHANGED sweep /\ req[p].at \notin On
        /\ lru \subseteq Keys
    BY <1>9 DEF evict_lru, On, TypeOK
  <2>2. CASE Sees(p, "open", Someone, NoRow)
    BY <1>3, <2>1, <2>2 DEF On, Holding, Points
  <2>3. ASSUME NEW k \in lru, Idle(k), Sees(p, "close", k, pool[k])
        PROVE  Stages' /\ SweepsIdle'
    <3>1. k \in Keys /\ pool[k] \in Row /\ pool[k] # NoRow /\ pool[k].in_flight = 0
      BY <2>1, <2>3 DEF Idle, TypeOK
    <3> QED BY <1>3, <2>1, <2>3, <3>1 DEF On, Holding, Points
  <2>4. CASE UNCHANGED req
    BY <2>1, <2>4 DEF Stages, SweepsIdle
  <2> QED BY <1>9, <2>2, <2>3, <2>4 DEF evict_lru, Goto
<1>10. ASSUME NEW p \in Procs, OpenFails(p) \/ Return(p)
       PROVE  Stages' /\ SweepsIdle'
  BY <1>2, <1>10 DEF OpenFails, Return, tables
<1>11. ASSUME NEW p \in Procs, Finish(p) PROVE Stages' /\ SweepsIdle'
  <2>1. CASE Ends(p)
    BY <1>2, <1>11, <2>1 DEF Finish, tables
  <2>2. CASE /\ pool[req[p].key].in_flight > 0
             /\ Sees(p, "return", req[p].key, pool[req[p].key])
    <3>1. req[p].key \in Keys /\ pool[req[p].key] \in Row
      BY <1>0 DEF Request, TypeOK
    <3>2. pool[req[p].key] # NoRow
      BY <2>2 DEF NoRow
    <3>3. up' \subseteq up /\ UNCHANGED sweep /\ req[p].at \in On
      BY <1>11 DEF Finish, tables, On
    <3> QED BY <1>3, <2>2, <3>1, <3>2, <3>3 DEF On, Holding, Points
  <2> QED BY <1>11, <2>1, <2>2 DEF Finish
<1>12. ASSUME NEW p \in Procs, Kill(p) PROVE Stages' /\ SweepsIdle'
  <2>1. up' \subseteq up /\ UNCHANGED sweep
    BY <1>12 DEF Kill, tables
  <2>2. CASE Ends(p)
    BY <1>2, <2>1, <2>2
  <2>3. CASE req[p].conn # NoConn /\ Sees(p, "gone", Someone, NoRow)
    BY <1>0, <1>3, <2>1, <2>3 DEF On, Holding, Points
  <2> QED BY <1>12, <2>2, <2>3 DEF Kill, Goto
<1>13. CASE SweepLook
  <2>1. PICK k \in Keys : Idle(k) /\ sweep' = [of |-> k, seen |-> pool[k]]
    BY <1>13 DEF SweepLook
  <2>2. SweepsIdle'
    BY <2>1 DEF SweepsIdle, Idle
  <2> QED BY <1>13, <2>2 DEF SweepLook, Stages, tables
<1>14. CASE SweepClose
  BY <1>14 DEF SweepClose, Close, Closed, Stages, SweepsIdle
<1>15. CASE ConnDies \/ UNCHANGED vars
  BY <1>15 DEF Stages, SweepsIdle, ConnDies, vars, tables
<1> QED
  BY <1>4, <1>6, <1>7, <1>8, <1>9, <1>10, <1>11, <1>12, <1>13, <1>14, <1>15
  DEF Next

----------------------------------------------------------------------------
(* in_flight is the number of users. *)

LEMMA FiniteUsers ==
  \A k, c : IsFiniteSet(Users(k, c)) /\ IsFiniteSet(Users(k, c)')
<1>1. \A k, c : Users(k, c) \subseteq Procs /\ Users(k, c)' \subseteq Procs
  BY DEF Users
<1> QED BY <1>1, FS_Subset

\* CountsUsers with the connection as a constant.
Counted(k) ==
  \A c \in Conns :
    pool[k].conn = c =>
      /\ pool[k].in_flight <= Cardinality(Users(k, c))
      /\ k \notin strayed => pool[k].in_flight = Cardinality(Users(k, c))

LEMMA CountedEach ==
  ASSUME TypeOK
  PROVE  CountsUsers <=> \A k \in Keys \ stale : Counted(k)
<1>1. \A k \in Keys : pool[k] # NoRow <=> pool[k].conn \in Conns
  BY Rows DEF TypeOK
<1> QED BY <1>1 DEF CountsUsers, Counted

LEMMA CountedEachNext ==
  ASSUME TypeOK'
  PROVE  CountsUsers' <=> \A k \in Keys \ stale' : Counted(k)'
<1>1. \A k \in Keys : pool'[k] # NoRow <=> pool'[k].conn \in Conns
  BY Rows DEF TypeOK
<1> QED BY <1>1 DEF CountsUsers, Counted, Users

\* A row that stays or goes is still right if its users are the same.
LEMMA CountStays ==
  ASSUME NEW k \in Keys, Counted(k),
         pool'[k] = pool[k] \/ pool'[k] = NoRow, k \in strayed => k \in strayed',
         \A c \in Conns : pool[k].conn = c => Users(k, c)' = Users(k, c)
  PROVE  Counted(k)'
<1>1. NoRow.conn \notin Conns
  BY DEF NoRow
<1> QED BY <1>1 DEF Counted

\* A step that moves nobody on or off a connection.
LEMMA UsersStay ==
  ASSUME TypeOK,
         \A q \in Procs :
           /\ req'[q].at \in On <=> req[q].at \in On
           /\ req[q].at \in On => req'[q].key = req[q].key
                                  /\ req'[q].conn = req[q].conn
  PROVE  \A k, c : Users(k, c)' = Users(k, c)
BY DEF Users, On

LEMMA UsersMove ==
  ASSUME TypeOK, NEW p \in Procs, NEW x, req' = [req EXCEPT ![p] = x]
  PROVE  \A k, c : \A q \in Procs \ {p} : q \in Users(k, c)' <=> q \in Users(k, c)
<1>1. \A q \in Procs \ {p} : req'[q] = req[q]
  BY DEF TypeOK
<1> QED BY <1>1 DEF Users

LEMMA UserJoins ==
  ASSUME NEW p \in Procs, NEW k, NEW c, p \notin Users(k, c), p \in Users(k, c)',
         \A q \in Procs \ {p} : q \in Users(k, c)' <=> q \in Users(k, c)
  PROVE  Cardinality(Users(k, c)') = Cardinality(Users(k, c)) + 1
<1> DEFINE A == Users(k, c)
           B == Users(k, c)'
<1>1. B = A \cup {p}
  <2>1. A \subseteq Procs /\ B \subseteq Procs
    BY DEF Users
  <2> QED BY <2>1
<1>2. IsFiniteSet(A)
  BY FiniteUsers
<1> HIDE DEF A, B
<1>3. p \notin A
  BY DEF A
<1>4. Cardinality(A \cup {p}) = Cardinality(A) + 1
  BY <1>2, <1>3, FS_AddElement
<1> QED BY <1>1, <1>4 DEF A, B

LEMMA UserLeaves ==
  ASSUME NEW p \in Procs, NEW k, NEW c, p \in Users(k, c), p \notin Users(k, c)',
         \A q \in Procs \ {p} : q \in Users(k, c)' <=> q \in Users(k, c)
  PROVE  Cardinality(Users(k, c)') = Cardinality(Users(k, c)) - 1
<1> DEFINE A == Users(k, c)
           B == Users(k, c)'
<1>1. B = A \ {p}
  <2>1. A \subseteq Procs /\ B \subseteq Procs
    BY DEF Users
  <2> QED BY <2>1
<1>2. IsFiniteSet(A)
  BY FiniteUsers
<1> HIDE DEF A, B
<1>3. p \in A
  BY DEF A
<1>4. Cardinality(A \ {p}) = Cardinality(A) - 1
  BY <1>2, <1>3, FS_RemoveElement
<1> QED BY <1>1, <1>4 DEF A, B

LEMMA CountKept ==
  ASSUME TypeOK, TypeOK', Stages, CountsUsers, [Next]_vars
  PROVE  CountsUsers'
<1> USE Rows
<1>0. /\ NoReq.at = "idle" /\ NoReq.conn = NoConn /\ NoConn \notin Conns
      /\ \A q \in Procs : req[q] \in Request
      /\ \A k \in Keys : pool[k] \in Row
      /\ \A k \in Keys \ stale : Counted(k)
  BY CountedEach DEF NoReq, TypeOK
<1>1. ASSUME \A q \in Procs :
               /\ req'[q].at \in On <=> req[q].at \in On
               /\ req[q].at \in On => req'[q].key = req[q].key
                                      /\ req'[q].conn = req[q].conn,
             stale \subseteq stale', UNCHANGED strayed,
             \A k \in Keys : pool'[k] = pool[k] \/ pool'[k] = NoRow
      PROVE  CountsUsers'
  <2>1. \A k, c : Users(k, c)' = Users(k, c)
    BY <1>1, UsersStay
  <2>2. \A k \in Keys \ stale' : Counted(k)'
    BY <1>0, <1>1, <2>1, CountStays
  <2> QED BY <2>2, CountedEachNext
<1>2. ASSUME NEW p \in Procs, NEW k \in Keys, Look(p, k) PROVE CountsUsers'
  <2>1. \A q \in Procs :
          /\ req'[q].at \in On <=> req[q].at \in On
          /\ req[q].at \in On => req'[q].key = req[q].key
                                 /\ req'[q].conn = req[q].conn
    BY <1>2 DEF Look, On, TypeOK
  <2> QED BY <1>1, <1>2, <2>1 DEF Look, tables, history
<1>3. ASSUME NEW p \in Procs,
             Drop(p) \/ maybe_evict(p) \/ evict_lru(p) \/ Evict(p) \/ OpenFails(p)
               \/ Kill(p) \/ (Finish(p) /\ ~Ends(p))
      PROVE  CountsUsers'
  <2>1. /\ stale \subseteq stale' /\ UNCHANGED strayed
        /\ \A k \in Keys : pool'[k] = pool[k] \/ pool'[k] = NoRow
    BY <1>3 DEF Drop, maybe_evict, evict_lru, Evict, Close, Rests, OpenFails, Kill,
                Finish, tables, history, TypeOK
  <2>2. \/ UNCHANGED req
        \/ Ends(p) /\ req[p].at \notin On
        \/ \E at, k, r : Sees(p, at, k, r) /\ (at \in On <=> req[p].at \in On)
    <3>1. Kill(p) => \/ Ends(p) /\ req[p].at \notin On
                     \/ Sees(p, "gone", Someone, NoRow) /\ req[p].at \in On
      BY DEF Kill, Goto, Stages
    <3>2. Drop(p) \/ maybe_evict(p) \/ Evict(p) \/ OpenFails(p) =>
            \/ Ends(p) /\ req[p].at \notin On
            \/ \E at, k, r : Sees(p, at, k, r) /\ (at \in On <=> req[p].at \in On)
      <4>1. maybe_evict(p) => \/ Sees(p, "evict", Someone, NoRow)
                              \/ Sees(p, "open", Someone, NoRow)
        BY DEF maybe_evict, Goto
      <4> QED BY <4>1 DEF Drop, maybe_evict, Evict, OpenFails, Goto, On
    <3>3. evict_lru(p) =>
            \/ UNCHANGED req
            \/ \E at, k, r : Sees(p, at, k, r) /\ (at \in On <=> req[p].at \in On)
      BY DEF evict_lru, Goto, On
    <3>4. Finish(p) /\ ~Ends(p) =>
            \E at, k, r : Sees(p, at, k, r) /\ (at \in On <=> req[p].at \in On)
      BY DEF Finish, On
    <3> QED BY <1>3, <3>1, <3>2, <3>3, <3>4 DEF On
  <2>3. \A q \in Procs :
          /\ req'[q].at \in On <=> req[q].at \in On
          /\ req[q].at \in On => req'[q].key = req[q].key
                                 /\ req'[q].conn = req[q].conn
    <3>1. CASE UNCHANGED req
      BY <3>1
    <3>2. CASE Ends(p) /\ req[p].at \notin On
      BY <1>0, <3>2 DEF Ends, TypeOK, On
    <3>3. ASSUME NEW at, NEW k, NEW r, Sees(p, at, k, r),
                 at \in On <=> req[p].at \in On, NEW q \in Procs
          PROVE  /\ req'[q].at \in On <=> req[q].at \in On
                 /\ req'[q].key = req[q].key /\ req'[q].conn = req[q].conn
      BY <3>3 DEF Sees, TypeOK
    <3> QED BY <2>2, <3>1, <3>2, <3>3
  <2> QED BY <1>1, <2>1, <2>3
<1>4. ASSUME NEW p \in Procs, Finish(p), Ends(p) PROVE CountsUsers'
  <2> DEFINE k0 == req[p].key
  <2>1. k0 \in Keys /\ req[p].at = "using" /\ req'[p] = NoReq
    BY <1>0, <1>4 DEF Finish, Ends, Request, TypeOK
  <2>2. pool[k0].in_flight = 0
    <3>1. Sees(p, "return", k0, pool[k0]) => req'[p].at = "return"
      BY DEF Sees, TypeOK
    <3>2. pool[k0].in_flight \in Nat
      BY <1>0, <2>1
    <3> QED BY <1>0, <1>4, <2>1, <3>1, <3>2 DEF Finish
  <2>3. ASSUME NEW k \in Keys \ stale, NEW c \in Conns, pool[k].conn = c
        PROVE  /\ pool[k].in_flight <= Cardinality(Users(k, c)')
               /\ k \notin strayed => pool[k].in_flight = Cardinality(Users(k, c)')
    <3>1. CASE p \notin Users(k, c)
      <4>1. p \notin Users(k, c)'
        BY <1>0, <2>1 DEF Users
      <4>2. \A q \in Procs \ {p} : q \in Users(k, c)' <=> q \in Users(k, c)
        BY <1>4, UsersMove DEF Ends
      <4>3. Users(k, c)' \subseteq Procs /\ Users(k, c) \subseteq Procs
        BY DEF Users
      <4>4. Users(k, c)' = Users(k, c)
        BY <3>1, <4>1, <4>2, <4>3
      <4> QED BY <1>0, <2>3, <4>4 DEF Counted
    <3>2. CASE p \in Users(k, c)
      <4>1. pool[k].in_flight = 0
        BY <2>2, <3>2 DEF Users
      <4>2. k \in strayed
        <5>1. SUFFICES ASSUME k \notin strayed PROVE FALSE
          OBVIOUS
        <5>2. Cardinality(Users(k, c)) = 0
          BY <1>0, <2>3, <4>1, <5>1 DEF Counted
        <5> QED BY <3>2, <5>2, FiniteUsers, FS_EmptySet
      <4>3. Cardinality(Users(k, c)') \in Nat
        BY FiniteUsers, FS_CardinalityType
      <4> QED BY <4>1, <4>2, <4>3
    <3> QED BY <3>1, <3>2
  <2>4. UNCHANGED <<pool, history>>
    BY <1>4 DEF Finish, tables
  <2>5. \A k \in Keys \ stale' : Counted(k)'
    BY <2>3, <2>4 DEF Counted, history
  <2> QED BY <2>5, CountedEachNext
<1>5. ASSUME NEW p \in Procs, NEW x, NEW k0 \in Keys,
             req' = [req EXCEPT ![p] = x],
             req[p].at \in On => req[p].key = k0,
             x.at \in On => x.key = k0,
             stale \subseteq stale', strayed \ {k0} \subseteq strayed',
             strayed' \subseteq strayed \cup {k0},
             \A k \in Keys \ {k0} : pool'[k] = pool[k],
             k0 \notin stale' => Counted(k0)'
      PROVE  CountsUsers'
  <2>1. ASSUME NEW k \in Keys \ {k0}, NEW c PROVE Users(k, c)' = Users(k, c)
    <3>1. req'[p] = x
      BY <1>5 DEF TypeOK
    <3>2. p \notin Users(k, c) /\ p \notin Users(k, c)'
      BY <1>5, <2>1, <3>1 DEF Users, On
    <3>3. \A q \in Procs \ {p} : q \in Users(k, c)' <=> q \in Users(k, c)
      BY <1>5, UsersMove
    <3>4. Users(k, c)' \subseteq Procs /\ Users(k, c) \subseteq Procs
      BY DEF Users
    <3> QED BY <3>2, <3>3, <3>4
  <2>2. \A k \in Keys \ {k0} : k \notin stale' => Counted(k)'
    BY <1>0, <1>5, <2>1, CountStays
  <2> QED BY <1>5, <2>2, CountedEachNext
<1>6. ASSUME NEW p \in Procs, Reuse(p) PROVE CountsUsers'
  <2>1. PICK k0 \in Keys, r \in [conn : Conns, in_flight : Nat] :
          k0 = req[p].key /\ r = req[p].seen
    <3>1. req[p] \in Request /\ req[p].seen # NoRow
      BY <1>6 DEF Reuse, Stages, Holding, TypeOK
    <3> QED BY <3>1 DEF Request
  <2> DEFINE x == [at |-> "using", key |-> k0, conn |-> r.conn, of |-> Someone,
                   seen |-> NoRow]
  <2>2. req' = [req EXCEPT ![p] = x] /\ req[p].at = "reuse"
    BY <1>6, <2>1 DEF Reuse, Uses
  <2>3. /\ stale \subseteq stale' /\ UNCHANGED strayed
        /\ \A k \in Keys \ {k0} : pool'[k] = pool[k]
        /\ pool'[k0].conn = r.conn /\ pool'[k0].in_flight = r.in_flight + 1
        /\ k0 \notin stale' => pool[k0] = r
    BY <1>6, <2>1 DEF Reuse, Rests, TypeOK
  <2>4. ASSUME k0 \notin stale' PROVE Counted(k0)'
    <3>1. req'[p].at = "using" /\ req'[p].key = k0 /\ req'[p].conn = r.conn
      BY <2>2 DEF TypeOK
    <3>2. p \notin Users(k0, r.conn) /\ p \in Users(k0, r.conn)'
      BY <2>1, <2>2, <3>1 DEF Users
    <3>3. Cardinality(Users(k0, r.conn)') = Cardinality(Users(k0, r.conn)) + 1
      <4> HIDE DEF x
      <4> QED BY <2>2, <3>2, UsersMove, UserJoins
    <3>4. /\ r.in_flight <= Cardinality(Users(k0, r.conn))
          /\ k0 \notin strayed => r.in_flight = Cardinality(Users(k0, r.conn))
      BY <1>0, <2>1, <2>3, <2>4 DEF Counted
    <3>5. Cardinality(Users(k0, r.conn)) \in Nat
      BY FiniteUsers, FS_CardinalityType
    <3> QED BY <2>3, <3>3, <3>4, <3>5 DEF Counted
  <2> HIDE DEF x
  <2>5. x.key = k0
    BY DEF x
  <2> QED BY <1>5, <2>1, <2>2, <2>3, <2>4, <2>5
<1>7. ASSUME NEW p \in Procs, Return(p) PROVE CountsUsers'
  <2>1. PICK k0 \in Keys, r \in [conn : Conns, in_flight : Nat] :
          k0 = req[p].key /\ r = req[p].seen
    <3>1. req[p] \in Request /\ req[p].seen # NoRow
      BY <1>7 DEF Return, Stages, Holding, TypeOK
    <3> QED BY <3>1 DEF Request
  <2>2. req' = [req EXCEPT ![p] = NoReq] /\ req[p].at = "return"
    BY <1>7 DEF Return, Ends
  <2>3. /\ stale \subseteq stale'
        /\ \A k \in Keys \ {k0} : pool'[k] = pool[k]
        /\ pool'[k0].conn = r.conn /\ pool'[k0].in_flight = r.in_flight - 1
        /\ k0 \notin stale' => pool[k0] = r
        /\ strayed' = IF r.conn = req[p].conn THEN strayed ELSE strayed \cup {k0}
    BY <1>7, <2>1 DEF Return, Rests, TypeOK
  <2>4. ASSUME k0 \notin stale' PROVE Counted(k0)'
    <3>1. req'[p].at = "idle" /\ p \notin Users(k0, r.conn)'
      BY <1>0, <2>2 DEF TypeOK, Users
    <3>2. /\ r.in_flight <= Cardinality(Users(k0, r.conn))
          /\ k0 \notin strayed => r.in_flight = Cardinality(Users(k0, r.conn))
      BY <1>0, <2>1, <2>3, <2>4 DEF Counted
    <3>3. Cardinality(Users(k0, r.conn)) \in Nat
      BY FiniteUsers, FS_CardinalityType
    <3>4. CASE r.conn = req[p].conn
      <4>1. p \in Users(k0, r.conn)
        BY <2>1, <2>2, <3>4 DEF Users
      <4>2. Cardinality(Users(k0, r.conn)') = Cardinality(Users(k0, r.conn)) - 1
        <5>1. \A q \in Procs \ {p} :
                q \in Users(k0, r.conn)' <=> q \in Users(k0, r.conn)
          BY <2>2, UsersMove
        <5> QED BY <3>1, <4>1, <5>1, UserLeaves
      <4> QED BY <2>3, <3>2, <3>3, <3>4, <4>2 DEF Counted
    <3>5. CASE r.conn # req[p].conn
      <4>1. p \notin Users(k0, r.conn)
        BY <3>5 DEF Users
      <4>2. \A q \in Procs \ {p} :
              q \in Users(k0, r.conn)' <=> q \in Users(k0, r.conn)
        BY <2>2, UsersMove
      <4>3. Users(k0, r.conn)' \subseteq Procs /\ Users(k0, r.conn) \subseteq Procs
        BY DEF Users
      <4>4. Users(k0, r.conn)' = Users(k0, r.conn)
        BY <3>1, <4>1, <4>2, <4>3
      <4> QED BY <2>3, <3>2, <3>3, <3>5, <4>4 DEF Counted
    <3> QED BY <3>4, <3>5
  <2>5. NoReq.at \notin On
    BY <1>0 DEF On
  <2> QED BY <1>5, <2>1, <2>2, <2>3, <2>4, <2>5
<1>8. ASSUME NEW p \in Procs, Open(p) PROVE CountsUsers'
  <2>0. PICK k0 \in Keys : k0 = req[p].key
    BY <1>0 DEF Request
  <2>1. PICK c \in Conns \ (Known \cup up) :
          /\ Uses(p, k0, c)
          /\ pool' = [pool EXCEPT ![k0] = [conn |-> c, in_flight |-> 1]]
    BY <1>8, <2>0 DEF Open
  <2> DEFINE x == [at |-> "using", key |-> k0, conn |-> c, of |-> Someone,
                   seen |-> NoRow]
  <2>2. /\ req[p].at = "open" /\ stale \subseteq stale'
        /\ strayed' = strayed \ {k0}
    BY <1>0, <1>8, <2>0 DEF Open, Rests, Request
  <2>3. req' = [req EXCEPT ![p] = x]
    BY <2>1 DEF Uses
  <2>4. /\ \A k \in Keys \ {k0} : pool'[k] = pool[k]
        /\ pool'[k0].conn = c /\ pool'[k0].in_flight = 1
    BY <2>1, <2>2 DEF TypeOK
  <2>5. Users(k0, c)' = {p}
    <3>1. req'[p].at = "using" /\ req'[p].key = k0 /\ req'[p].conn = c
      BY <2>3 DEF TypeOK
    <3>2. \A q \in Procs \ {p} : req'[q] = req[q] /\ req[q].conn # c
      BY <2>1, <2>3 DEF TypeOK, Known
    <3> QED BY <3>1, <3>2 DEF Users
  <2>6. Counted(k0)'
    <3>1. Cardinality({p}) = 1
      BY FS_Singleton
    <3> QED BY <2>4, <2>5, <3>1 DEF Counted
  <2> HIDE DEF x
  <2>7. x.key = k0
    BY DEF x
  <2> QED BY <1>5, <2>0, <2>2, <2>3, <2>4, <2>6, <2>7
<1>9. CASE SweepLook \/ SweepClose \/ ConnDies \/ UNCHANGED vars
  <2>1. UNCHANGED <<req, strayed>> /\ stale \subseteq stale'
    BY <1>9 DEF SweepLook, SweepClose, ConnDies, vars, tables, history, Close, Rests
  <2>2. \A k \in Keys : pool'[k] = pool[k] \/ pool'[k] = NoRow
    BY <1>9 DEF SweepLook, SweepClose, ConnDies, vars, tables, Close, TypeOK
  <2> QED BY <1>1, <2>1, <2>2
<1> QED
  BY <1>2, <1>3, <1>4, <1>6, <1>7, <1>8, <1>9 DEF Next

----------------------------------------------------------------------------
(* Open connections have a row. *)

\* The two parts of NoLostConnection.
RowEach == stale = {} => \A c \in up : \E k \in Keys : pool[k].conn = c

OwnRow ==
  \A p \in Procs : req[p].conn \in up /\ req[p].key \notin stale
                     => pool[req[p].key].conn = req[p].conn

LEMMA NoneLost ==
  ASSUME TypeOK, Stages, RowEach, [Next]_vars
  PROVE  RowEach'
<1> USE Rows
<1>0. /\ NoConn \notin Conns /\ NoRow.conn = NoConn /\ up \subseteq Conns
      /\ \A q \in Procs : req[q] \in Request
  BY DEF NoRow, TypeOK
<1> SUFFICES ASSUME stale' = {}, NEW c \in up'
             PROVE  \E k \in Keys : pool'[k].conn = c
  BY DEF RowEach
<1>1. stale = {}
  BY DEF Next, Look, Reuse, Drop, maybe_evict, evict_lru, Evict, Close, Open,
         OpenFails, Finish, Return, Kill, SweepLook, SweepClose, ConnDies, vars, history,
         Rests
<1>2. ASSUME c \in up PROVE \E k \in Keys : pool[k].conn = c
  BY <1>1, <1>2 DEF RowEach
<1>3. ASSUME NEW p \in Procs, Reuse(p) \/ Return(p)
      PROVE  \E k \in Keys : pool'[k].conn = c
  <2>1. \A k \in Keys : pool'[k].conn = pool[k].conn
    <3>1. /\ pool[req[p].key] = req[p].seen /\ UNCHANGED up
          /\ \/ pool' = [pool EXCEPT ![req[p].key] =
                           [req[p].seen EXCEPT !.in_flight = @ + 1]]
             \/ pool' = [pool EXCEPT ![req[p].key] =
                           [req[p].seen EXCEPT !.in_flight = @ - 1]]
      BY <1>3 DEF Reuse, Return, Rests
    <3>2. req[p].seen \in [conn : Conns, in_flight : Nat]
      BY <1>0, <1>3 DEF Reuse, Return, Stages, Holding, Request
    <3> QED BY <1>0, <3>1, <3>2 DEF TypeOK
  <2>2. UNCHANGED up
    BY <1>3 DEF Reuse, Return
  <2> QED BY <1>2, <2>1, <2>2
<1>4. ASSUME NEW k \in Keys, NEW r, r = pool[k], r.conn \notin up',
             pool' = [pool EXCEPT ![k] = NoRow], up' \subseteq up
      PROVE  \E l \in Keys : pool'[l].conn = c
  <2>1. PICK l \in Keys : pool[l].conn = c
    BY <1>2, <1>4
  <2>2. l # k
    BY <1>4, <2>1
  <2> QED BY <1>4, <2>1, <2>2 DEF TypeOK
<1>5. ASSUME NEW p \in Procs, Drop(p)
      PROVE  \E k \in Keys : pool'[k].conn = c
  <2>1. req[p].seen = pool[req[p].key] /\ req[p].seen.conn \notin up
    BY <1>5 DEF Drop, Rests, Stages
  <2> QED BY <1>0, <1>4, <1>5, <2>1 DEF Drop, Request
<1>6. ASSUME NEW p \in Procs, Evict(p)
      PROVE  \E k \in Keys : pool'[k].conn = c
  BY <1>0, <1>4, <1>6 DEF Evict, Close, Closed, Rests, Request
<1>7. CASE SweepClose
  <2>1. sweep.of \in Keys
    BY DEF TypeOK
  <2> QED BY <1>4, <1>7, <2>1 DEF SweepClose, Close, Closed, Rests
<1>8. ASSUME NEW p \in Procs, Open(p)
      PROVE  \E k \in Keys : pool'[k].conn = c
  <2> DEFINE k0 == req[p].key
  <2>1. PICK d \in Conns :
          /\ up' = up \cup {d}
          /\ pool' = [pool EXCEPT ![k0] = [conn |-> d, in_flight |-> 1]]
    BY <1>8 DEF Open
  <2>2. k0 \in Keys /\ pool[k0] = NoRow
    BY <1>0, <1>8 DEF Open, Rests, Request
  <2>3. CASE c = d
    BY <2>1, <2>2, <2>3 DEF TypeOK
  <2>4. CASE c # d
    <3>1. PICK k \in Keys : pool[k].conn = c
      BY <1>2, <2>1, <2>4
    <3>2. k # k0
      BY <1>0, <2>1, <2>2, <2>4, <3>1
    <3> QED BY <2>1, <3>1, <3>2 DEF TypeOK
  <2> QED BY <2>3, <2>4
<1>9. CASE UNCHANGED pool /\ up' \subseteq up
  BY <1>2, <1>9
<1>10. ASSUME NEW p \in Procs,
              maybe_evict(p) \/ evict_lru(p) \/ OpenFails(p) \/ Finish(p)
                \/ Kill(p) \/ \E k \in Keys : Look(p, k)
       PROVE  UNCHANGED pool /\ up' \subseteq up
  BY <1>10 DEF maybe_evict, evict_lru, OpenFails, Finish, Kill, Look, tables
<1>11. CASE SweepLook \/ ConnDies \/ UNCHANGED vars
  BY <1>9, <1>11 DEF SweepLook, ConnDies, vars, tables
<1> QED
  BY <1>3, <1>5, <1>6, <1>7, <1>8, <1>9, <1>10, <1>11 DEF Next

\* A request whose connection is alive keeps its row: whoever writes the row
\* leaves the connection in it, or has found it dead, or closes it.
LEMMA OwnRowKept ==
  ASSUME TypeOK, TypeOK', Stages, OwnRow, [Next]_vars
  PROVE  OwnRow'
<1> USE Rows
<1>0. /\ NoConn \notin Conns /\ NoRow.conn = NoConn /\ up \subseteq Conns
      /\ up' \subseteq Conns
      /\ \A q \in Procs : req[q] \in Request
      /\ NoReq.conn = NoConn
  BY DEF NoRow, NoReq, TypeOK
<1>1. ASSUME NEW q \in Procs, req[q].conn \in up, req[q].key \notin stale
      PROVE  pool[req[q].key].conn = req[q].conn
  BY <1>1 DEF OwnRow
<1>2. ASSUME \A q \in Procs : req'[q].conn \in Conns =>
               req'[q].conn = req[q].conn /\ req'[q].key = req[q].key,
             stale \subseteq stale', up' \subseteq up,
             \A k \in Keys \ stale' :
               pool[k].conn \in up' => pool'[k].conn = pool[k].conn
      PROVE  OwnRow'
  <2>1. ASSUME NEW q \in Procs, req'[q].conn \in up', req'[q].key \notin stale'
        PROVE  pool'[req'[q].key].conn = req'[q].conn
    <3>1. /\ req'[q].conn = req[q].conn /\ req'[q].key = req[q].key
          /\ req[q].key \in Keys
      BY <1>0, <1>2, <2>1 DEF Request
    <3> QED BY <1>1, <1>2, <2>1, <3>1
  <2> QED BY <2>1 DEF OwnRow
<1>3. ASSUME NEW p \in Procs, NEW at, NEW k, NEW r, Sees(p, at, k, r),
             NEW q \in Procs
      PROVE  req'[q].conn = req[q].conn /\ req'[q].key = req[q].key
  BY <1>3 DEF Sees, TypeOK
<1>4. ASSUME NEW p \in Procs, Ends(p), NEW q \in Procs, req'[q].conn \in Conns
      PROVE  req'[q].conn = req[q].conn /\ req'[q].key = req[q].key
  BY <1>0, <1>4 DEF Ends, TypeOK
<1>5. ASSUME NEW p \in Procs, NEW k \in Keys, Look(p, k) PROVE OwnRow'
  <2>1. \A q \in Procs : req'[q].conn \in Conns =>
          req'[q].conn = req[q].conn /\ req'[q].key = req[q].key
    BY <1>0, <1>5 DEF Look, TypeOK
  <2> QED BY <1>2, <1>5, <2>1 DEF Look, tables, history
<1>6. ASSUME NEW p \in Procs, Reuse(p) \/ Return(p) PROVE OwnRow'
  <2> DEFINE k0 == req[p].key
             r == req[p].seen
  <2>1. k0 \in Keys /\ r \in [conn : Conns, in_flight : Nat]
    <3>1. req[p] \in Request /\ r # NoRow
      BY <1>0, <1>6 DEF Reuse, Return, Stages, Holding
    <3> QED BY <3>1 DEF Request
  <2>2. /\ stale \subseteq stale' /\ up' = up
        /\ k0 \notin stale' => pool[k0] = r
        /\ pool'[k0].conn = r.conn
        /\ \A k \in Keys \ {k0} : pool'[k] = pool[k]
    BY <1>6, <2>1 DEF Reuse, Return, Rests, TypeOK
  <2>3. \A k \in Keys \ stale' : pool'[k].conn = pool[k].conn
    BY <2>2
  <2>4. CASE Return(p)
    BY <1>2, <1>4, <2>2, <2>3, <2>4 DEF Return
  <2>5. CASE Reuse(p)
    <3>1. /\ req'[p].conn = r.conn /\ req'[p].key = k0
          /\ \A q \in Procs \ {p} : req'[q] = req[q]
      BY <2>5 DEF Reuse, Uses, TypeOK
    <3>2. ASSUME NEW q \in Procs, req'[q].conn \in up', req'[q].key \notin stale'
          PROVE  pool'[req'[q].key].conn = req'[q].conn
      <4>1. CASE q = p
        BY <2>2, <3>1, <4>1
      <4>2. CASE q # p
        <5>1. req'[q] = req[q] /\ req[q].key \in Keys
          BY <1>0, <3>1, <4>2 DEF Request
        <5>2. req[q].conn \in up /\ req[q].key \notin stale
          BY <2>2, <3>2, <5>1
        <5>3. pool'[req[q].key].conn = pool[req[q].key].conn
          BY <2>3, <3>2, <5>1
        <5> HIDE DEF k0, r
        <5> QED BY <1>1, <5>1, <5>2, <5>3
      <4> QED BY <4>1, <4>2
    <3> QED BY <3>2 DEF OwnRow
  <2> QED BY <1>6, <2>4, <2>5
<1>7. ASSUME NEW p \in Procs, Drop(p) PROVE OwnRow'
  <2>1. /\ stale \subseteq stale' /\ UNCHANGED up
        /\ req[p].key \notin stale' => pool[req[p].key].conn \notin up
        /\ \A k \in Keys \ {req[p].key} : pool'[k] = pool[k]
    BY <1>7 DEF Drop, Rests, Stages, TypeOK
  <2>2. \A q \in Procs : req'[q].conn = req[q].conn /\ req'[q].key = req[q].key
    BY <1>3, <1>7 DEF Drop, Goto
  <2> QED BY <1>2, <2>1, <2>2
<1>8. ASSUME NEW k0 \in Keys, NEW r, Close(k0, r),
             \A q \in Procs : req'[q].conn = req[q].conn /\ req'[q].key = req[q].key
      PROVE  OwnRow'
  <2>1. /\ stale \subseteq stale' /\ up' = up \ {r.conn}
        /\ k0 \notin stale' => pool[k0] = r
        /\ \A k \in Keys \ {k0} : pool'[k] = pool[k]
    BY <1>8 DEF Close, Closed, Rests, TypeOK
  <2> QED BY <1>2, <1>8, <2>1
<1>9. ASSUME NEW p \in Procs, Evict(p) PROVE OwnRow'
  <2>1. \A q \in Procs : req'[q].conn = req[q].conn /\ req'[q].key = req[q].key
    BY <1>3, <1>9 DEF Evict, Goto
  <2> QED BY <1>0, <1>8, <1>9, <2>1 DEF Evict, Request
<1>10. CASE SweepClose
  <2>1. UNCHANGED req /\ sweep.of \in Keys
    BY <1>10 DEF SweepClose, TypeOK
  <2> QED BY <1>8, <1>10, <2>1 DEF SweepClose
<1>11. ASSUME NEW p \in Procs, Open(p) PROVE OwnRow'
  <2>0. PICK k0 \in Keys : k0 = req[p].key
    BY <1>0 DEF Request
  <2>1. PICK c \in Conns \ (Known \cup up) :
          /\ up' = up \cup {c} /\ Uses(p, k0, c)
          /\ pool' = [pool EXCEPT ![k0] = [conn |-> c, in_flight |-> 1]]
    BY <1>11, <2>0 DEF Open
  <2>2. /\ stale \subseteq stale'
        /\ k0 \notin stale' => pool[k0] = NoRow
        /\ pool'[k0].conn = c
        /\ \A k \in Keys \ {k0} : pool'[k] = pool[k]
    BY <1>11, <2>0, <2>1 DEF Open, Rests, TypeOK
  <2>3. /\ req'[p].key = k0 /\ req'[p].conn = c
        /\ \A q \in Procs \ {p} : req'[q] = req[q] /\ req[q].conn # c
    BY <2>1 DEF Uses, Known, TypeOK
  <2>4. ASSUME NEW q \in Procs, req'[q].conn \in up', req'[q].key \notin stale'
        PROVE  pool'[req'[q].key].conn = req'[q].conn
    <3>1. CASE q = p
      BY <2>2, <2>3, <3>1
    <3>2. CASE q # p
      <4>1. /\ req'[q] = req[q] /\ req[q].key \in Keys
            /\ req[q].conn \in up /\ req[q].key \notin stale
        BY <1>0, <2>1, <2>2, <2>3, <2>4, <3>2 DEF Request
      <4>2. pool[req[q].key].conn = req[q].conn
        BY <1>1, <4>1
      <4>3. req[q].key # k0
        BY <1>0, <2>2, <2>4, <4>1, <4>2
      <4> QED BY <2>2, <4>1, <4>2, <4>3
    <3> QED BY <3>1, <3>2
  <2> QED BY <2>4 DEF OwnRow
<1>12. ASSUME NEW p \in Procs,
              maybe_evict(p) \/ evict_lru(p) \/ OpenFails(p) \/ Finish(p) \/ Kill(p)
       PROVE  OwnRow'
  <2>1. UNCHANGED <<pool, up, stale>>
    BY <1>12 DEF maybe_evict, evict_lru, OpenFails, Finish, Kill, tables, history
  <2>2. UNCHANGED req \/ Ends(p) \/ \E at, k, r : Sees(p, at, k, r)
    BY <1>12 DEF maybe_evict, evict_lru, OpenFails, Finish, Kill, Goto
  <2> QED BY <1>2, <1>3, <1>4, <2>1, <2>2
<1>13. CASE SweepLook \/ ConnDies \/ UNCHANGED vars
  <2>1. UNCHANGED <<pool, req, stale>> /\ up' \subseteq up
    BY <1>13 DEF SweepLook, ConnDies, vars, tables, history
  <2> QED BY <1>2, <2>1
<1> QED
  BY <1>5, <1>6, <1>7, <1>9, <1>10, <1>11, <1>12, <1>13 DEF Next

----------------------------------------------------------------------------
(* The theorems. *)

LEMMA InitIInv == Init => IInv
<1> SUFFICES ASSUME Init PROVE IInv
  OBVIOUS
<1> USE Rows DEF Init
<1>1. TypeOK
  BY DEF TypeOK, NoReq, NoSweep, Request, Points
<1>2. Stages /\ SweepsIdle
  BY DEF Stages, SweepsIdle, NoReq, On, Holding
<1>3. OneKey
  BY DEF OneKey, Beside, NoReq, NoSweep, NoRow
<1> QED BY <1>1, <1>2, <1>3 DEF IInv, CountsUsers, NoLostConnection

LEMMA NextIInv == IInv /\ [Next]_vars => IInv'
<1>1. NoLostConnection <=> RowEach /\ OwnRow
  BY DEF NoLostConnection, RowEach, OwnRow
<1>2. NoLostConnection' <=> RowEach' /\ OwnRow'
  BY DEF NoLostConnection, RowEach, OwnRow
<1> QED
  BY <1>1, <1>2, TypesKept, StagesKept, OneKeyKept, CountKept, NoneLost, OwnRowKept
  DEF IInv

LEMMA Invariance == Spec => []IInv
BY InitIInv, NextIInv, PTL DEF Spec

\* The types of every variable, in every reachable state.
THEOREM TypeCorrect == Spec => []TypeOK
BY Invariance, PTL DEF IInv

\* in_flight is at most the number of users, for any number of requests and
\* keys, as long as no write rested on a row that had changed, and exactly that
\* number unless a request on an earlier connection has been counted down.
THEOREM CountCorrect == Spec => []CountsUsers
BY Invariance, PTL DEF IInv

\* The pool loses no open connection as long as no write rested on a row that
\* had changed, and a request on an open connection finds it in its row.
THEOREM NothingLost == Spec => []NoLostConnection
BY Invariance, PTL DEF IInv

\* Neither eviction nor the sweep closes a connection in use unless the key is
\* stale or strayed: the row read was idle, it is still the row, and so by
\* CountsUsers it has no user; no other key knows the connection.
THEOREM BusySpared == Spec => SparesBusy
<1>1. ASSUME IInv, Next, NEW k \in Keys, ClosesBusy(k), k \notin stale',
             k \notin strayed
      PROVE  FALSE
  <2> USE Rows
  <2>0. PICK c \in up \ up' : pool[k].conn = c /\ Users(k, c) # {}
    BY <1>1 DEF ClosesBusy
  <2>1. PICK l \in Keys, r \in Row :
          /\ Close(l, r) /\ Beside(r.conn, l) /\ r.in_flight = 0
    <3>1. CASE SweepClose
      <4>1. sweep.of \in Keys /\ sweep.seen \in Row /\ sweep.seen.in_flight = 0
        BY <1>1, <3>1 DEF IInv, SweepsIdle, SweepClose, TypeOK
      <4> QED BY <3>1, <4>1 DEF SweepClose, Beside
    <3>2. ASSUME NEW p \in Procs, Evict(p)
          PROVE  \E l \in Keys, r \in Row :
                   Close(l, r) /\ Beside(r.conn, l) /\ r.in_flight = 0
      <4>1. req[p].of \in Keys /\ req[p].seen \in Row /\ req[p].seen.in_flight = 0
        BY <1>1, <3>2 DEF IInv, Stages, Evict, TypeOK, Request
      <4> QED BY <3>2, <4>1 DEF Evict, Beside
    <3> QED BY <1>1, <3>1, <3>2 DEF ClosesBusy
  <2>2. r.conn = c /\ c \in Conns
    BY <1>1, <2>0, <2>1 DEF Close, Closed, IInv, TypeOK
  <2>3. l = k
    BY <1>1, <2>0, <2>1, <2>2 DEF IInv, OneKey, Beside
  <2>4. pool[k] = r /\ k \notin stale /\ pool[k] # NoRow
    BY <1>1, <2>1, <2>2, <2>3 DEF Close, Rests, NoRow
  <2>5. Cardinality(Users(k, c)) = 0
    BY <1>1, <2>0, <2>1, <2>4 DEF IInv, CountsUsers
  <2> QED BY <2>0, <2>5, FiniteUsers, FS_EmptySet
<1>2. IInv /\ [Next]_vars =>
        [\A k \in Keys : ClosesBusy(k) => k \in stale' \cup strayed]_vars
  BY <1>1
<1> QED BY <1>2, Invariance, PTL DEF Spec, SparesBusy
=============================================================================
