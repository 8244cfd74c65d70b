--------------------------- MODULE BillingProofs ---------------------------
(***************************************************************************)
(* Proofs about Billing for any number of users, requests and credits, any *)
(* costs and balances, and any of the faults.                              *)
(***************************************************************************)
EXTENDS Billing, FiniteSetTheorems, TLAPS

USE BillingAssumption DEF known

----------------------------------------------------------------------------
(* Types. *)

\* The steps of a request keep the types: a cost is a positive number, what is
\* read is a balance, and the process is always at one of its program points.
LEMMA RequestTypes ==
  ASSUME TypeOK, NEW r \in Requests, RequestStep(r) \/ Kill(r)
  PROVE  TypeOK'
<1>1. UserOf[r] \in Users
  OBVIOUS
<1>2. CASE Begin(r)
  BY <1>2 DEF TypeOK, Begin, GoTo, syncVars, PendingUsers
<1>3. CASE Lookup(r)
  BY <1>1, <1>3 DEF TypeOK, Lookup, Hit, Miss, Reading, syncVars, PendingUsers
<1>4. CASE ReadDB(r)
  BY <1>1, <1>4 DEF TypeOK, ReadDB, ReadRow, ReadFails, Reading, syncVars,
                    PendingUsers
<1>5. CASE Insert(r)
  BY <1>1, <1>5 DEF TypeOK, Insert, Reading, syncVars, PendingUsers
<1>6. CASE Checked(r)
  BY <1>6 DEF TypeOK, Checked, GoTo, syncVars, PendingUsers
<1>7. CASE Charge(r)
  <2>1. PICK c \in Costs :
          /\ cache' = [cache EXCEPT ![UserOf[r]] = @ - c]
          /\ cost' = [cost EXCEPT ![r] = c]
          /\ charged' = [charged EXCEPT ![UserOf[r]] = @ + c]
    BY <1>7 DEF Charge
  <2>2. c \in Nat /\ cache[UserOf[r]] \in Int
    BY <1>1, <1>7 DEF Charge, TypeOK
  <2>3. /\ cache' \in [Users -> Int \cup {NoRow}]
        /\ cost' \in [Requests -> Nat] /\ charged' \in [Users -> Nat]
    BY <1>1, <2>1, <2>2 DEF TypeOK
  <2> QED BY <1>7, <2>3 DEF TypeOK, Charge, GoTo, syncVars, PendingUsers
<1>8. CASE NoRowToCharge(r)
  BY <1>8 DEF TypeOK, NoRowToCharge, GoTo, syncVars, PendingUsers
<1>9. CASE Report(r)
  BY <1>1, <1>9 DEF TypeOK, Report, GoTo, syncVars, PendingUsers
<1>10. CASE Kill(r)
  BY <1>10 DEF TypeOK, Kill, GoTo, syncVars, PendingUsers
<1> QED
  BY <1>2, <1>3, <1>4, <1>5, <1>6, <1>7, <1>8, <1>9, <1>10 DEF RequestStep

\* The steps of the server keep the types, and what do_sync_all has still to do
\* is always among the charges that are pending.
LEMMA SyncTypes ==
  ASSUME TypeOK, SyncStep
  PROVE  TypeOK'
<1>1. ASSUME NEW u \in Users, HandleSyncDeduct(u) PROVE TypeOK'
  <2>1. PICK c \in 1..casts[u] : /\ casts' = [casts EXCEPT ![u] = @ - c]
                                 /\ pending' = [pending EXCEPT ![u] = @ + c]
    BY <1>1 DEF HandleSyncDeduct
  <2>2. /\ casts' \in [Users -> Nat] /\ pending' \in [Users -> Nat]
        /\ \A v \in Users : pending'[v] >= pending[v]
    BY <2>1 DEF TypeOK
  <2>3. PendingUsers \subseteq PendingUsers'
    BY <2>2 DEF PendingUsers, TypeOK
  <2> QED BY <1>1, <2>2, <2>3 DEF TypeOK, HandleSyncDeduct, reqVars
<1>2. ASSUME NEW u \in Users, TrySyncOne(u) PROVE TypeOK'
  BY <1>2 DEF TypeOK, TrySyncOne, reqVars, PendingUsers
<1>3. ASSUME NEW u \in Users, SyncUser(u) PROVE TypeOK'
  <2>1. /\ db' \in [Users -> Int] /\ failed' \in Nat /\ todo' = todo \ {u}
        /\ UNCHANGED <<cache, casts, reqVars, pending, circuit, failures, mode,
                       held, credit, credited, known>>
    BY <1>3 DEF TypeOK, SyncUser
  <2>2. mishap' \in BOOLEAN
    BY <1>3 DEF TypeOK, SyncUser
  <2> QED BY <2>1, <2>2 DEF TypeOK, reqVars, PendingUsers
<1>4. ASSUME NEW k \in Fulfilments, HandleSyncBalance(k) PROVE TypeOK'
  BY <1>4 DEF TypeOK, HandleSyncBalance, reqVars, PendingUsers, Credits
<1>5. ASSUME NEW k \in Fulfilments, OverwriteBalance(k) PROVE TypeOK'
  BY <1>5 DEF TypeOK, OverwriteBalance, reqVars, PendingUsers, Credits
<1>6. CASE StartSync
  BY <1>6 DEF TypeOK, StartSync, reqVars, PendingUsers
<1>7. CASE EndSync
  <2>1. /\ todo' = {} /\ failures' \in Nat /\ circuit' \in {"closed", "open"}
    BY <1>7 DEF TypeOK, EndSync
  <2> QED BY <1>7, <2>1 DEF TypeOK, EndSync, reqVars
<1>8. CASE NothingToSync
  BY <1>8 DEF TypeOK, NothingToSync, vars, reqVars, syncVars, PendingUsers
<1> QED
  BY <1>1, <1>2, <1>3, <1>4, <1>5, <1>6, <1>7, <1>8 DEF SyncStep

\* The types of every variable, in every reachable state.
THEOREM TypeCorrect == Spec => []TypeOK
<1>1. Init => TypeOK
  <2> SUFFICES ASSUME Init PROVE TypeOK
    OBVIOUS
  <2>1. mishap \in BOOLEAN
    BY DEF Init
  <2> QED BY <2>1 DEF Init, TypeOK, PendingUsers
<1>2. TypeOK /\ [Next]_vars => TypeOK'
  <2> SUFFICES ASSUME TypeOK, [Next]_vars PROVE TypeOK'
    OBVIOUS
  <2>1. ASSUME NEW k \in Credits, Credit(k) PROVE TypeOK'
    <3>1. UserOf[k] \in Users
      BY DEF Credits
    <3> QED
      BY <2>1, <3>1 DEF TypeOK, Credit, AddToBalance, AddFails, AfterAdd, reqVars,
                        syncVars, PendingUsers
  <2>2. CASE Crash
    BY <2>2 DEF TypeOK, Crash, reqVars
  <2>3. CASE UNCHANGED vars
    BY <2>3 DEF TypeOK, vars, reqVars, syncVars, PendingUsers
  <2> QED BY <2>1, <2>2, <2>3, RequestTypes, SyncTypes DEF Next
<1> QED BY <1>1, <1>2, PTL DEF Spec
----------------------------------------------------------------------------
(* The circuit breaker. *)

\* The circuit and the failure count agree in every reachable state: EndSync is
\* the only step that moves them, and it moves them together.
THEOREM BreakerCorrect == Spec => []BreakerConsistent
<1>1. Init => BreakerConsistent
  BY DEF Init, BreakerConsistent
<1>2. TypeOK /\ BreakerConsistent /\ [Next]_vars => BreakerConsistent'
  <2> SUFFICES ASSUME TypeOK, BreakerConsistent, [Next]_vars
               PROVE  BreakerConsistent'
    OBVIOUS
  <2>1. CASE EndSync
    BY <2>1 DEF EndSync, BreakerConsistent, TypeOK
  <2>2. CASE Crash
    BY <2>2 DEF Crash, BreakerConsistent
  <2>3. ASSUME NEW r \in Requests, RequestStep(r) \/ Kill(r)
        PROVE  UNCHANGED <<circuit, failures>>
    BY <2>3 DEF RequestStep, Begin, Lookup, ReadDB, Insert, Checked, Charge,
                NoRowToCharge, Report, Kill, syncVars
  <2>4. ASSUME NEW k \in Credits, Credit(k)
        PROVE  UNCHANGED <<circuit, failures>>
    BY <2>4 DEF Credit, syncVars
  <2>5. ASSUME NEW u \in Users, HandleSyncDeduct(u) \/ TrySyncOne(u) \/ SyncUser(u)
        PROVE  UNCHANGED <<circuit, failures>>
    BY <2>5 DEF HandleSyncDeduct, TrySyncOne, SyncUser
  <2>6. ASSUME NEW k \in Fulfilments, HandleSyncBalance(k) \/ OverwriteBalance(k)
        PROVE  UNCHANGED <<circuit, failures>>
    BY <2>6 DEF HandleSyncBalance, OverwriteBalance
  <2>7. CASE StartSync \/ NothingToSync \/ UNCHANGED vars
    BY <2>7 DEF StartSync, NothingToSync, BreakerConsistent, vars, syncVars
  <2> QED
    BY <2>1, <2>2, <2>3, <2>4, <2>5, <2>6, <2>7
    DEF Next, SyncStep, BreakerConsistent
<1> QED BY <1>1, <1>2, TypeCorrect, PTL DEF Spec
----------------------------------------------------------------------------
(* The way of a charge from its cast to the users table. *)

\* The step took nothing from the user, and moved nothing out of the ledger
\* unless it was a mishap.
Kept(u) == /\ Excess(u)' >= Excess(u)
           /\ ~mishap' => Excess(u)' = Excess(u)

\* The excess of a user is a number.
LEMMA ExcessType == ASSUME TypeOK, NEW u \in Users PROVE Excess(u) \in Int
<1>1. NotApplied(u) \in Int
  BY DEF NotApplied, TypeOK
<1> QED BY <1>1 DEF Excess, TypeOK

\* Where the excess does not move, the step kept it.
LEMMA KeptEqual ==
  ASSUME TypeOK, NEW u \in Users, Excess(u)' = Excess(u)
  PROVE  Kept(u)
BY ExcessType DEF Kept

\* Where none of the accounts moves, the excess does not.
LEMMA KeptSame ==
  ASSUME TypeOK, NEW u \in Users,
         UNCHANGED <<db, reported, credited, casts, pending, mode, todo>>
  PROVE  Kept(u)
<1>1. Excess(u)' = Excess(u)
  BY DEF Excess, NotApplied
<1> QED BY <1>1, KeptEqual

\* A request moves an account only when it reports its charge: the cast is in
\* the mailbox from the moment it counts as reported.
LEMMA KeptRequest ==
  ASSUME TypeOK, NEW r \in Requests, RequestStep(r) \/ Kill(r), NEW u \in Users
  PROVE  Kept(u)
<1>1. CASE Report(r)
  <2>1. /\ NotApplied(u)' = NotApplied(u) /\ NotApplied(u) \in Int
        /\ db' = db /\ credited' = credited
    BY <1>1 DEF Report, NotApplied, syncVars, TypeOK
  <2>2. cost[r] \in Nat /\ casts[u] \in Nat /\ reported[u] \in Nat
    BY DEF TypeOK
  <2>3. \/ casts'[u] = casts[u] + cost[r] /\ reported'[u] = reported[u] + cost[r]
        \/ casts'[u] = casts[u] /\ reported'[u] = reported[u]
    BY <1>1 DEF Report, TypeOK
  <2>4. db[u] \in Int /\ credited[u] \in Nat /\ InitialBalance[u] \in Int
    BY DEF TypeOK
  <2>5. Excess(u)' = Excess(u)
    BY <2>1, <2>2, <2>3, <2>4 DEF Excess
  <2> QED BY <2>5, KeptEqual
<1>2. CASE ~Report(r)
  <2>1. UNCHANGED <<db, reported, credited, casts, pending, mode, todo>>
    BY <1>2 DEF RequestStep, Begin, Lookup, ReadDB, Insert, Checked, Charge,
                NoRowToCharge, Kill, syncVars
  <2> QED BY <2>1, KeptSame
<1> QED BY <1>1, <1>2

\* A credit is in the users table as soon as it counts as credited.
LEMMA KeptCredit ==
  ASSUME TypeOK, NEW k \in Credits, Credit(k), NEW u \in Users
  PROVE  Kept(u)
<1>1. /\ NotApplied(u)' = NotApplied(u) /\ NotApplied(u) \in Int
      /\ reported' = reported /\ casts' = casts
  BY DEF Credit, NotApplied, syncVars, reqVars, TypeOK
<1>2. /\ db[u] \in Int /\ credited[u] \in Nat /\ CreditAmount \in Nat
      /\ InitialBalance[u] \in Int /\ reported[u] \in Nat /\ casts[u] \in Nat
  BY DEF TypeOK
<1>3. \/ db'[u] = db[u] + CreditAmount /\ credited'[u] = credited[u] + CreditAmount
      \/ db'[u] = db[u] /\ credited'[u] = credited[u]
  BY DEF Credit, AddToBalance, AddFails, TypeOK
<1>4. Excess(u)' = Excess(u)
  BY <1>1, <1>2, <1>3 DEF Excess
<1> QED BY <1>4, KeptEqual

\* The next messages of a user move on from the mailbox to pending_syncs.
LEMMA KeptDeduct ==
  ASSUME TypeOK, NEW v \in Users, HandleSyncDeduct(v), NEW u \in Users
  PROVE  Kept(u)
<1>1. PICK c \in 1..casts[v] : /\ casts' = [casts EXCEPT ![v] = @ - c]
                               /\ pending' = [pending EXCEPT ![v] = @ + c]
  BY DEF HandleSyncDeduct
<1>2. /\ NotApplied(u) = pending[u] /\ NotApplied(u)' = pending'[u]
      /\ db' = db /\ reported' = reported /\ credited' = credited
  BY DEF HandleSyncDeduct, NotApplied, reqVars
<1>3. \/ casts'[u] = casts[u] - c /\ pending'[u] = pending[u] + c
      \/ casts'[u] = casts[u] /\ pending'[u] = pending[u]
  BY <1>1 DEF TypeOK
<1>4. /\ db[u] \in Int /\ credited[u] \in Nat /\ InitialBalance[u] \in Int
      /\ reported[u] \in Nat /\ casts[u] \in Nat /\ pending[u] \in Nat
      /\ c \in Int
  BY DEF TypeOK
<1>5. Excess(u)' = Excess(u)
  BY <1>2, <1>3, <1>4 DEF Excess
<1> QED BY <1>5, KeptEqual

\* do_sync_all moves them on to the users table; a failed update drops them.
LEMMA KeptSyncUser ==
  ASSUME TypeOK, NEW v \in Users, SyncUser(v), NEW u \in Users
  PROVE  Kept(u)
<1>1. /\ db[u] \in Int /\ credited[u] \in Nat /\ InitialBalance[u] \in Int
      /\ reported[u] \in Nat /\ casts[u] \in Nat /\ pending[u] \in Nat
      /\ reported' = reported /\ credited' = credited /\ casts' = casts
  BY DEF TypeOK, SyncUser, reqVars
<1>2. CASE u = v
  <2>1. NotApplied(u) = pending[u] /\ NotApplied(u)' = 0
    BY <1>2 DEF SyncUser, NotApplied
  <2>2. \/ db'[u] = db[u] - pending[u]
        \/ db'[u] = db[u] /\ mishap'
    BY <1>2 DEF SyncUser, TypeOK
  <2> QED BY <1>1, <2>1, <2>2 DEF Excess, Kept
<1>3. CASE u # v
  <2>1. /\ NotApplied(u)' = NotApplied(u) /\ NotApplied(u) \in Int
        /\ db'[u] = db[u]
    BY <1>1, <1>3 DEF SyncUser, NotApplied, TypeOK
  <2> QED BY <1>1, <2>1 DEF Excess, Kept
<1> QED BY <1>2, <1>3

\* The probe charges its user what is pending, and do_sync_all will again.
LEMMA ProbeTakes ==
  ASSUME TypeOK, NEW v \in Users, TrySyncOne(v), NEW u \in Users
  PROVE  Excess(u)' = IF u = v THEN Excess(u) - pending[u] ELSE Excess(u)
<1>1. /\ db[u] \in Int /\ credited[u] \in Nat /\ InitialBalance[u] \in Int
      /\ reported[u] \in Nat /\ casts[u] \in Nat /\ pending[u] \in Nat
      /\ reported' = reported /\ credited' = credited /\ casts' = casts
      /\ mode = "idle" /\ mode' = "reopen" /\ todo' = PendingUsers
      /\ pending' = pending
  BY DEF TypeOK, TrySyncOne, reqVars
<1>2. NotApplied(u) = pending[u] /\ NotApplied(u)' = pending[u]
  BY <1>1 DEF NotApplied, PendingUsers
<1>3. db'[u] = IF u = v THEN db[u] - pending[u] ELSE db[u]
  BY DEF TrySyncOne, TypeOK
<1> QED BY <1>1, <1>2, <1>3 DEF Excess

\* sync_balance overwrites the balance of its own user.
LEMMA KeptOverwrite ==
  ASSUME TypeOK, NEW k \in Fulfilments, OverwriteBalance(k),
         NEW u \in Users, UserOf[k] # u
  PROVE  Kept(u)
<1>1. /\ UNCHANGED <<reported, credited, casts, pending>>
      /\ mode = "sync_user" /\ mode' = "idle" /\ db'[u] = db[u]
  BY DEF OverwriteBalance, reqVars, TypeOK
<1>2. Excess(u)' = Excess(u)
  BY <1>1 DEF Excess, NotApplied
<1> QED BY <1>2, KeptEqual

\* The server moves amounts from the mailbox to pending_syncs and on to the
\* users table; only a failed update drops one, and only the two steps of
\* Repeats may take one twice.
LEMMA KeptSync ==
  ASSUME TypeOK, SyncStep, NEW u \in Users, ~Repeats(u)
  PROVE  Kept(u)
<1>1. ASSUME NEW v \in Users, TrySyncOne(v) PROVE Kept(u)
  <2>1. u # v
    BY <1>1 DEF Repeats
  <2> QED BY <1>1, <2>1, ProbeTakes, KeptEqual
<1>2. ASSUME NEW k \in Fulfilments, OverwriteBalance(k) PROVE Kept(u)
  BY <1>2, KeptOverwrite DEF Repeats
<1>3. ASSUME NEW k \in Fulfilments, HandleSyncBalance(k) PROVE Kept(u)
  <2>1. NotApplied(u)' = NotApplied(u)
    BY <1>3 DEF HandleSyncBalance, NotApplied
  <2>2. Excess(u)' = Excess(u)
    BY <1>3, <2>1 DEF HandleSyncBalance, Excess, reqVars
  <2> QED BY <2>2, KeptEqual
<1>4. CASE StartSync
  <2>1. NotApplied(u)' = NotApplied(u)
    BY <1>4 DEF StartSync, NotApplied, PendingUsers, TypeOK
  <2>2. Excess(u)' = Excess(u)
    BY <1>4, <2>1 DEF StartSync, Excess, reqVars
  <2> QED BY <2>2, KeptEqual
<1>5. CASE EndSync
  <2>1. NotApplied(u) = 0 /\ NotApplied(u)' = 0
    BY <1>5 DEF EndSync, NotApplied
  <2>2. Excess(u)' = Excess(u)
    BY <1>5, <2>1 DEF EndSync, Excess, reqVars
  <2> QED BY <2>2, KeptEqual
<1>6. CASE NothingToSync
  BY <1>6, KeptSame DEF NothingToSync, vars, reqVars, syncVars
<1> QED
  BY <1>1, <1>2, <1>3, <1>4, <1>5, <1>6, KeptDeduct, KeptSyncUser DEF SyncStep

\* A restart forgets what was on its way.
LEMMA KeptCrash ==
  ASSUME TypeOK, Crash, NEW u \in Users
  PROVE  Kept(u)
<1>1. /\ casts'[u] = 0 /\ NotApplied(u)' = 0 /\ mishap'
      /\ db' = db /\ reported' = reported /\ credited' = credited
  BY DEF Crash, NotApplied, reqVars
<1>2. casts[u] \in Nat /\ NotApplied(u) \in Nat
  BY DEF TypeOK, NotApplied
<1>3. /\ db[u] \in Int /\ credited[u] \in Nat /\ InitialBalance[u] \in Int
      /\ reported[u] \in Nat
  BY DEF TypeOK
<1> QED BY <1>1, <1>2, <1>3 DEF Excess, Kept

\* No step but those of Repeats takes from a user.
LEMMA KeptNext ==
  ASSUME TypeOK, [Next]_vars, NEW u \in Users, ~Repeats(u)
  PROVE  Kept(u)
<1>1. CASE UNCHANGED vars
  BY <1>1, KeptSame DEF vars, reqVars, syncVars
<1> QED BY <1>1, KeptRequest, KeptCredit, KeptSync, KeptCrash DEF Next

\* In every behaviour, whatever fails, is killed or crashes: a step takes more
\* from a user than was reported only by a probe of that user, and then what
\* was pending, or by an overwriting of that user's row.
THEOREM TakenOnlyByRepeats == Spec => OnlyRepeatsTake
<1>1. ASSUME TypeOK, [Next]_vars, NEW u \in Users
      PROVE  \/ Excess(u)' >= Excess(u)
             \/ Repeats(u) /\ (TrySyncOne(u) => Excess(u)' = Excess(u) - pending[u])
  <2>1. CASE Repeats(u)
    BY <2>1, <1>1, ProbeTakes
  <2>2. CASE ~Repeats(u)
    BY <2>2, <1>1, KeptNext DEF Kept
  <2> QED BY <2>1, <2>2
<1>2. ASSUME TypeOK, [Next]_vars
      PROVE  [\A u \in Users :
                \/ Excess(u)' >= Excess(u)
                \/ Repeats(u)
                   /\ (TrySyncOne(u) => Excess(u)' = Excess(u) - pending[u])]_vars
  BY <1>1, <1>2
<1> QED BY <1>2, TypeCorrect, PTL DEF Spec, OnlyRepeatsTake

\* Whatever fails, is killed or crashes, and whatever happens to other users,
\* the users table never shows too little of a user who was not probed and
\* whose row was not overwritten.
THEOREM EnoughUntilRepeated ==
  ASSUME NEW u \in Users
  PROVE  Spec /\ [][~Repeats(u)]_vars => []Enough(u)
<1>1. Init => Excess(u) >= 0
  BY DEF Init, Excess, NotApplied
<1>2. TypeOK /\ TypeOK' /\ Excess(u) >= 0 /\ [Next]_vars /\ [~Repeats(u)]_vars
        => (Excess(u) >= 0)'
  <2> SUFFICES ASSUME TypeOK, TypeOK', Excess(u) >= 0, [Next]_vars,
                      [~Repeats(u)]_vars
               PROVE  Excess(u)' >= 0
    OBVIOUS
  <2>1. Excess(u)' >= Excess(u)
    <3>1. CASE UNCHANGED vars
      BY <3>1, KeptSame DEF Kept, vars, reqVars, syncVars
    <3>2. CASE ~Repeats(u)
      BY <3>2, KeptNext DEF Kept
    <3> QED BY <3>1, <3>2
  <2>2. Excess(u) \in Int /\ Excess(u)' \in Int
    BY DEF Excess, NotApplied, TypeOK
  <2> QED BY <2>1, <2>2
<1>3. TypeOK /\ Excess(u) >= 0 => Enough(u)
  <2> SUFFICES ASSUME TypeOK, Excess(u) >= 0 PROVE Enough(u)
    OBVIOUS
  <2>1. /\ casts[u] \in Nat /\ NotApplied(u) \in Nat /\ db[u] \in Int
        /\ credited[u] \in Nat /\ InitialBalance[u] \in Int /\ reported[u] \in Nat
    BY DEF TypeOK, NotApplied
  <2> QED BY <2>1 DEF Excess, Enough
<1> QED BY <1>1, <1>2, <1>3, TypeCorrect, PTL DEF Spec

NoRepeats == \A u \in Users : ~Repeats(u)

NoShortfall == \A u \in Users : Excess(u) >= 0

\* If no probe of an open circuit works and no fulfilment overwrites a row, no
\* user is ever overcharged: the two ways the runs show it to go wrong are the
\* only two.
THEOREM NotOvercharged == Spec /\ [][NoRepeats]_vars => []NeverOvercharged
<1>1. Init => NoShortfall
  BY DEF Init, NoShortfall, Excess, NotApplied
<1>2. TypeOK /\ TypeOK' /\ NoShortfall /\ [Next]_vars /\ [NoRepeats]_vars
        => NoShortfall'
  <2> SUFFICES ASSUME TypeOK, TypeOK', NoShortfall, [Next]_vars,
                      [NoRepeats]_vars, NEW u \in Users
               PROVE  Excess(u)' >= 0
    BY DEF NoShortfall
  <2>1. Excess(u)' >= Excess(u)
    <3>1. CASE UNCHANGED vars
      BY <3>1, KeptSame DEF Kept, vars, reqVars, syncVars
    <3>2. CASE NoRepeats
      BY <3>2, KeptNext DEF Kept, NoRepeats
    <3> QED BY <3>1, <3>2
  <2>2. Excess(u) \in Int /\ Excess(u)' \in Int
    BY DEF Excess, NotApplied, TypeOK
  <2> QED BY <2>1, <2>2 DEF NoShortfall
<1>3. TypeOK /\ NoShortfall => NeverOvercharged
  <2> SUFFICES ASSUME TypeOK, NoShortfall, NEW u \in Users
               PROVE  db[u] + reported[u] >= InitialBalance[u] + credited[u]
    BY DEF NeverOvercharged, Enough
  <2>1. /\ casts[u] \in Nat /\ NotApplied(u) \in Nat /\ db[u] \in Int
        /\ credited[u] \in Nat /\ InitialBalance[u] \in Int /\ reported[u] \in Nat
    BY DEF TypeOK, NotApplied
  <2> QED BY <2>1 DEF NoShortfall, Excess
<1> QED BY <1>1, <1>2, <1>3, TypeCorrect, PTL DEF Spec

\* Nothing leaves the ledger, and no failure is counted, without a mishap.
ExactInv ==
  ~mishap => /\ \A u \in Users : Excess(u) = 0
             /\ failed = 0 /\ failures = 0 /\ circuit = "closed"

\* A mishap is not forgotten, and a step without one overwrites and restarts
\* nothing.
LEMMA MishapStays ==
  ASSUME TypeOK, [Next]_vars, ~mishap'
  PROVE  ~mishap /\ ~Crash /\ \A k \in Fulfilments : ~OverwriteBalance(k)
<1>1. ASSUME NEW r \in Requests, RequestStep(r) \/ Kill(r)
      PROVE  mishap => mishap'
  BY <1>1 DEF RequestStep, Begin, Lookup, ReadDB, Insert, Checked, Charge,
              NoRowToCharge, Report, Kill, TypeOK
<1>2. ASSUME NEW k \in Credits, Credit(k) PROVE mishap => mishap'
  BY <1>2 DEF Credit
<1>3. ASSUME SyncStep PROVE mishap => mishap'
  BY <1>3 DEF SyncStep, HandleSyncDeduct, TrySyncOne, SyncUser, StartSync,
              EndSync, NothingToSync, vars, HandleSyncBalance, OverwriteBalance
<1>4. ~Crash /\ \A k \in Fulfilments : ~OverwriteBalance(k)
  BY DEF Crash, OverwriteBalance
<1> QED BY <1>1, <1>2, <1>3, <1>4 DEF Next, vars

\* Until something goes wrong, every charge that was reported is in the mailbox,
\* in pending_syncs or in the users table, and in one of them only.
LEMMA LedgerExact == Spec => []ExactInv
<1>1. Init => ExactInv
  BY DEF Init, ExactInv, Excess, NotApplied
<1>2. TypeOK /\ ExactInv /\ [Next]_vars => ExactInv'
  <2> SUFFICES ASSUME TypeOK, ExactInv, [Next]_vars, ~mishap'
               PROVE  /\ \A u \in Users : Excess(u)' = 0
                      /\ failed' = 0 /\ failures' = 0 /\ circuit' = "closed"
    BY DEF ExactInv
  <2>1. ~mishap /\ ~Crash /\ \A k \in Fulfilments : ~OverwriteBalance(k)
    BY MishapStays
  <2>2. /\ \A u \in Users : Excess(u) = 0
        /\ failed = 0 /\ failures = 0 /\ circuit = "closed"
    BY <2>1 DEF ExactInv
  <2>3. \A u \in Users : Excess(u)' = 0
    <3>1. \A u \in Users : ~TrySyncOne(u)
      BY <2>2 DEF TrySyncOne
    <3> QED BY <2>1, <2>2, <3>1, KeptNext DEF Kept, Repeats
  <2>4. failed' = 0 /\ failures' = 0 /\ circuit' = "closed"
    <3>1. CASE SyncStep
      BY <2>1, <2>2, <3>1
      DEF SyncStep, HandleSyncDeduct, TrySyncOne, SyncUser, StartSync, EndSync,
          NothingToSync, vars, syncVars, HandleSyncBalance
    <3>2. ASSUME NEW r \in Requests, RequestStep(r) \/ Kill(r)
          PROVE  UNCHANGED <<failed, failures, circuit>>
      BY <3>2 DEF RequestStep, Begin, Lookup, ReadDB, Insert, Checked, Charge,
                  NoRowToCharge, Report, Kill, syncVars
    <3>3. ASSUME NEW k \in Credits, Credit(k)
          PROVE  UNCHANGED <<failed, failures, circuit>>
      BY <3>3 DEF Credit, syncVars
    <3> QED
      BY <2>1, <2>2, <3>1, <3>2, <3>3 DEF Next, vars, syncVars
  <2> QED BY <2>3, <2>4
<1> QED BY <1>1, <1>2, TypeCorrect, PTL DEF Spec
----------------------------------------------------------------------------
(* The cache.  What was charged but not reported yet is a sum over the     *)
(* requests; the prover has no sums, so its units are counted instead.     *)

Units(r, n) == {<<r, i>> : i \in 1..n}

Counted ==
  \A u \in Users :
    /\ IsFiniteSet(Unreported(u))
    /\ charged[u] = reported[u] + Cardinality(Unreported(u))

\* What a request has read and is about to insert is not too little either, for
\* the credits the table had when it was read.
ReadsEnough ==
  \A r \in Requests : step[r] = "insert"
    => val[r] + charged[UserOf[r]] >= InitialBalance[UserOf[r]] + readCredited[r]

\* The units of an amount number as many as the amount.
LEMMA UnitsCount ==
  ASSUME NEW r, NEW n \in Nat
  PROVE  IsFiniteSet(Units(r, n)) /\ Cardinality(Units(r, n)) = n
<1> DEFINE f == [i \in 1..n |-> <<r, i>>]
<1>1. IsFiniteSet(1..n) /\ Cardinality(1..n) = n
  BY FS_Interval
<1>2. f \in Bijection(1..n, Units(r, n))
  BY DEF Bijection, Injection, Surjection, IsInjective, Units
<1>3. ExistsBijection(1..n, Units(r, n))
  BY <1>2 DEF ExistsBijection
<1> QED BY <1>1, <1>3, FS_Bijection

Owes(p) == p \in {"report", "lost"}

\* A step that charges and reports nothing, and kills no request for good that
\* has something to report, keeps the count.
LEMMA CountedSame ==
  ASSUME TypeOK, Counted, UNCHANGED <<charged, reported, cost>>,
         \A r \in Requests : Owes(phase'[r]) <=> Owes(phase[r])
  PROVE  Counted'
<1>1. ASSUME NEW u \in Users PROVE Unreported(u)' = Unreported(u)
  BY DEF Unreported, Owes
<1> QED BY <1>1 DEF Counted

\* A charge adds its units to what is unreported.
LEMMA CountedCharge ==
  ASSUME TypeOK, Counted, NEW r \in Requests, Charge(r)
  PROVE  Counted'
<1> SUFFICES ASSUME NEW u \in Users
             PROVE  /\ IsFiniteSet(Unreported(u)')
                    /\ charged'[u] = reported'[u] + Cardinality(Unreported(u)')
  BY DEF Counted
<1>1. PICK c \in Costs : /\ cost' = [cost EXCEPT ![r] = c]
                         /\ charged' = [charged EXCEPT ![UserOf[r]] = @ + c]
  BY DEF Charge
<1>2. /\ c \in Nat /\ phase[r] \notin {"report", "lost"} /\ reported' = reported
      /\ phase' = [phase EXCEPT ![r] = "report"] /\ UserOf[r] \in Users
  BY DEF Charge, GoTo
<1>3. /\ IsFiniteSet(Unreported(u)) /\ Cardinality(Unreported(u)) \in Nat
      /\ charged[u] = reported[u] + Cardinality(Unreported(u))
      /\ charged[u] \in Nat /\ reported[u] \in Nat
  BY FS_CardinalityType DEF Counted, TypeOK, Charge
<1>4. CASE u = UserOf[r]
  <2>1. Unreported(u)' = Unreported(u) \cup Units(r, c)
    BY <1>1, <1>2, <1>4 DEF Unreported, Units, TypeOK
  <2>2. Unreported(u) \cap Units(r, c) = {}
    BY <1>2 DEF Unreported, Units
  <2>3. IsFiniteSet(Units(r, c)) /\ Cardinality(Units(r, c)) = c
    BY <1>2, UnitsCount
  <2>4. /\ IsFiniteSet(Unreported(u) \cup Units(r, c))
        /\ Cardinality(Unreported(u) \cup Units(r, c)) =
             Cardinality(Unreported(u)) + Cardinality(Units(r, c))
               - Cardinality(Unreported(u) \cap Units(r, c))
    BY <1>3, <2>3, FS_Union
  <2>5. Cardinality(Unreported(u) \cap Units(r, c)) = 0
    BY <2>2, FS_EmptySet
  <2>6. charged'[u] = charged[u] + c
    BY <1>1, <1>2, <1>4 DEF TypeOK
  <2> QED BY <1>2, <1>3, <2>1, <2>3, <2>4, <2>5, <2>6
<1>5. CASE u # UserOf[r]
  <2>1. Unreported(u)' = Unreported(u)
    BY <1>1, <1>2, <1>5 DEF Unreported, TypeOK
  <2>2. charged'[u] = charged[u]
    BY <1>1, <1>2, <1>5 DEF TypeOK
  <2> QED BY <1>2, <1>3, <2>1, <2>2
<1> QED BY <1>4, <1>5

\* A report takes the units of its request out of what is unreported.
LEMMA CountedReport ==
  ASSUME TypeOK, Counted, NEW r \in Requests, Report(r)
  PROVE  Counted'
<1> SUFFICES ASSUME NEW u \in Users
             PROVE  /\ IsFiniteSet(Unreported(u)')
                    /\ charged'[u] = reported'[u] + Cardinality(Unreported(u)')
  BY DEF Counted
<1> DEFINE c == cost[r]
<1>1. /\ reported' = [reported EXCEPT ![UserOf[r]] = @ + c]
      /\ phase[r] = "report" /\ charged' = charged /\ cost' = cost
      /\ phase' = [phase EXCEPT ![r] = "over"]
      /\ UserOf[r] \in Users /\ c \in Nat
  BY DEF Report, GoTo, TypeOK
<1> HIDE DEF c
<1>2. /\ IsFiniteSet(Unreported(u)) /\ Cardinality(Unreported(u)) \in Nat
      /\ charged[u] = reported[u] + Cardinality(Unreported(u))
      /\ charged[u] \in Nat /\ reported[u] \in Nat
  BY FS_CardinalityType DEF Counted, TypeOK, Report
<1>3. CASE u = UserOf[r]
  <2>1. Unreported(u)' = Unreported(u) \ Units(r, c)
    BY <1>1, <1>3 DEF Unreported, Units, TypeOK, c
  <2>2. Unreported(u) \cap Units(r, c) = Units(r, c)
    BY <1>1, <1>3 DEF Unreported, Units, c
  <2>3. Cardinality(Units(r, c)) = c
    BY <1>1, UnitsCount
  <2>4. /\ IsFiniteSet(Unreported(u) \ Units(r, c))
        /\ Cardinality(Unreported(u) \ Units(r, c)) =
             Cardinality(Unreported(u)) - Cardinality(Unreported(u) \cap Units(r, c))
    BY <1>2, FS_Difference
  <2>5. reported'[u] = reported[u] + c
    BY <1>1, <1>3 DEF TypeOK
  <2>6. Cardinality(Unreported(u)') = Cardinality(Unreported(u)) - c
    BY <2>1, <2>2, <2>3, <2>4
  <2>7. charged'[u] = charged[u]
    BY <1>1
  <2>8. IsFiniteSet(Unreported(u)')
    BY <2>1, <2>4
  <2> QED BY <1>1, <1>2, <2>5, <2>6, <2>7, <2>8
<1>4. CASE u # UserOf[r]
  <2>1. Unreported(u)' = Unreported(u)
    BY <1>1, <1>4 DEF Unreported, TypeOK
  <2>2. reported'[u] = reported[u]
    BY <1>1, <1>4 DEF TypeOK
  <2> QED BY <1>1, <1>2, <2>1, <2>2
<1> QED BY <1>3, <1>4

\* Every step keeps what was charged equal to what was reported and what is
\* still to be reported, or lost.
LEMMA CountedNext ==
  ASSUME TypeOK, Counted, [Next]_vars
  PROVE  Counted'
<1>1. CASE \E r \in Requests : Charge(r) \/ Report(r)
  BY <1>1, CountedCharge, CountedReport
<1>2. ASSUME NEW r \in Requests, RequestStep(r) \/ Kill(r), ~Charge(r), ~Report(r)
      PROVE  Counted'
  <2>1. UNCHANGED <<charged, reported, cost>>
    BY <1>2 DEF RequestStep, Begin, Lookup, ReadDB, Insert, Checked, NoRowToCharge,
                Kill
  <2>2. \A q \in Requests : Owes(phase'[q]) <=> Owes(phase[q])
    BY <1>2 DEF RequestStep, Begin, Lookup, ReadDB, Insert, Checked, NoRowToCharge,
                Kill, GoTo, Owes, TypeOK
  <2> QED BY <2>1, <2>2, CountedSame
<1>3. UNCHANGED reqVars \/ \E r \in Requests : RequestStep(r) \/ Kill(r)
  BY DEF Next, Credit, SyncStep, HandleSyncDeduct, TrySyncOne, SyncUser, StartSync,
         EndSync, NothingToSync, HandleSyncBalance, OverwriteBalance, Crash, vars
<1>4. CASE UNCHANGED reqVars
  <2>1. UNCHANGED <<charged, reported, cost, phase>>
    BY <1>4 DEF reqVars
  <2> QED BY <2>1, CountedSame
<1> QED BY <1>1, <1>2, <1>3, <1>4

\* In the beginning nothing is charged.
LEMMA CountedInit == Init => Counted
<1> SUFFICES ASSUME Init, NEW u \in Users
             PROVE  /\ IsFiniteSet(Unreported(u))
                    /\ charged[u] = reported[u] + Cardinality(Unreported(u))
  BY DEF Counted
<1>1. Unreported(u) = {} /\ charged[u] = 0 /\ reported[u] = 0
  BY DEF Init, Unreported
<1> QED BY <1>1, FS_EmptySet

\* The count holds in every reachable state.
LEMMA CountedHolds == Spec => []Counted
BY CountedInit, CountedNext, TypeCorrect, PTL DEF Spec

\* Until an update fails, the server restarts or a balance is overwritten, every
\* unit that was taken from a cached balance is in its request, killed or not,
\* in the mailbox, in pending_syncs or in the users table, and in one of them
\* only: when all have come to rest, the table is short of nothing but what
\* killed requests had not reported.
THEOREM NothingLostOrDoubled == Spec => []ChargesAccounted
<1>1. TypeOK /\ ExactInv /\ Counted => ChargesAccounted
  <2> SUFFICES ASSUME TypeOK, ExactInv, Counted, ~mishap, NEW u \in Users
               PROVE  db[u] + charged[u] = InitialBalance[u] + credited[u] + casts[u]
                                            + NotApplied(u)
                                            + Cardinality(Unreported(u))
    BY DEF ChargesAccounted
  <2>1. /\ casts[u] \in Nat /\ NotApplied(u) \in Nat /\ db[u] \in Int
        /\ credited[u] \in Nat /\ InitialBalance[u] \in Int /\ reported[u] \in Nat
    BY DEF TypeOK, NotApplied
  <2>2. /\ charged[u] = reported[u] + Cardinality(Unreported(u))
        /\ Cardinality(Unreported(u)) \in Nat
    BY FS_CardinalityType DEF Counted
  <2>3. Excess(u) = 0
    BY DEF ExactInv
  <2> QED BY <2>1, <2>2, <2>3 DEF Excess
<1> QED BY <1>1, TypeCorrect, LedgerExact, CountedHolds, PTL

\* A row that is read, and a row that is inserted, is at least what the user
\* had and was credited by then, less all that was ever charged: the table is
\* not short of it, and what was charged is at least what was reported.
LEMMA EnoughRequest ==
  ASSUME TypeOK, NeverOvercharged, Counted, ReadsEnough, CacheNeverShort,
         NEW r \in Requests, RequestStep(r) \/ Kill(r)
  PROVE  ReadsEnough' /\ CacheNeverShort'
<1> USE DEF ReadsEnough, CacheNeverShort
<1>1. ASSUME NEW u \in Users PROVE charged[u] >= reported[u]
  <2>1. /\ Cardinality(Unreported(u)) \in Nat
        /\ charged[u] = reported[u] + Cardinality(Unreported(u))
    BY FS_CardinalityType DEF Counted
  <2> QED BY <2>1 DEF TypeOK
<1>2. \A q \in Requests : UserOf[q] \in Users
  OBVIOUS
<1>3. CASE ReadDB(r)
  <2>1. cache' = cache /\ charged' = charged /\ rowCredited' = rowCredited
    BY <1>3 DEF ReadDB
  <2>2. ASSUME NEW q \in Requests, step'[q] = "insert"
        PROVE  val'[q] + charged[UserOf[q]] >= InitialBalance[UserOf[q]]
                                                 + readCredited'[q]
    <3> DEFINE u == UserOf[q]
    <3>1. CASE q = r
      <4>1. val'[q] = db[u] /\ readCredited'[q] = credited[u]
        BY <1>3, <2>2, <3>1 DEF ReadDB, ReadRow, ReadFails, TypeOK
      <4>2. db[u] + reported[u] >= InitialBalance[u] + credited[u]
        BY <1>2 DEF NeverOvercharged, Enough
      <4>3. /\ db[u] \in Int /\ reported[u] \in Nat /\ credited[u] \in Nat
            /\ charged[u] \in Nat /\ InitialBalance[u] \in Int
            /\ charged[u] >= reported[u]
        BY <1>1, <1>2 DEF TypeOK
      <4> QED BY <4>1, <4>2, <4>3
    <3>2. CASE q # r
      <4>1. /\ step[q] = "insert" /\ val'[q] = val[q]
            /\ readCredited'[q] = readCredited[q]
        BY <1>3, <2>2, <3>2 DEF ReadDB, ReadRow, ReadFails, TypeOK
      <4> QED BY <4>1
    <3> QED BY <3>1, <3>2
  <2> QED BY <2>1, <2>2
<1>4. CASE Insert(r)
  <2>1. /\ charged' = charged /\ val' = val
        /\ \A q \in Requests : step'[q] = "insert"
             => step[q] = "insert" /\ readCredited'[q] = readCredited[q]
    BY <1>4 DEF Insert, TypeOK
  <2>2. ASSUME NEW u \in Users, cache'[u] # NoRow
        PROVE  cache'[u] + charged[u] >= InitialBalance[u] + rowCredited'[u]
    <3>1. CASE u = UserOf[r]
      BY <1>2, <1>4, <3>1 DEF Insert, TypeOK
    <3>2. CASE u # UserOf[r]
      BY <1>4, <2>2, <3>2 DEF Insert, TypeOK
    <3> QED BY <3>1, <3>2
  <2> QED BY <2>1, <2>2
<1>5. CASE Charge(r)
  <2>1. PICK c \in Costs : /\ cache' = [cache EXCEPT ![UserOf[r]] = @ - c]
                           /\ charged' = [charged EXCEPT ![UserOf[r]] = @ + c]
    BY <1>5 DEF Charge
  <2>2. /\ c \in Nat /\ val' = val /\ cache[UserOf[r]] # NoRow
        /\ readCredited' = readCredited /\ rowCredited' = rowCredited
        /\ \A q \in Requests : step'[q] = "insert" => step[q] = "insert"
    BY <1>5 DEF Charge, GoTo, TypeOK
  <2>3. ASSUME NEW q \in Requests, step'[q] = "insert"
        PROVE  val[q] + charged'[UserOf[q]] >= InitialBalance[UserOf[q]]
                                                 + readCredited[q]
    <3>1. val[q] + charged[UserOf[q]] >= InitialBalance[UserOf[q]] + readCredited[q]
      BY <2>2, <2>3
    <3>2. charged'[UserOf[q]] >= charged[UserOf[q]]
      BY <1>2, <2>1, <2>2 DEF TypeOK
    <3>3. /\ val[q] \in Int /\ charged[UserOf[q]] \in Nat
          /\ charged'[UserOf[q]] \in Int /\ InitialBalance[UserOf[q]] \in Int
          /\ readCredited[q] \in Nat
      BY <1>2, <2>1, <2>2 DEF TypeOK
    <3> QED BY <3>1, <3>2, <3>3
  <2>4. ASSUME NEW u \in Users, cache'[u] # NoRow
        PROVE  cache'[u] + charged'[u] >= InitialBalance[u] + rowCredited[u]
    <3>1. CASE u = UserOf[r]
      <4>1. cache'[u] = cache[u] - c /\ charged'[u] = charged[u] + c
        BY <1>2, <2>1, <3>1 DEF TypeOK
      <4>2. /\ cache[u] \in Int /\ charged[u] \in Nat /\ InitialBalance[u] \in Int
            /\ rowCredited[u] \in Nat
            /\ cache[u] + charged[u] >= InitialBalance[u] + rowCredited[u]
        BY <2>2, <3>1 DEF TypeOK
      <4> QED BY <2>2, <4>1, <4>2
    <3>2. CASE u # UserOf[r]
      BY <2>1, <2>4, <3>2 DEF TypeOK
    <3> QED BY <3>1, <3>2
  <2> QED BY <2>2, <2>3, <2>4
<1>6. CASE ~ReadDB(r) /\ ~Insert(r) /\ ~Charge(r)
  <2>1. cache' = cache /\ charged' = charged /\ rowCredited' = rowCredited
    BY <1>6 DEF RequestStep, Begin, Lookup, Checked, NoRowToCharge, Report, Kill
  <2>2. \A q \in Requests : step'[q] = "insert"
          => /\ step[q] = "insert" /\ val'[q] = val[q]
             /\ readCredited'[q] = readCredited[q]
    BY <1>6 DEF RequestStep, Begin, Lookup, Hit, Miss, Checked, NoRowToCharge,
                Report, Kill, GoTo, TypeOK
  <2> QED BY <2>1, <2>2
<1> QED BY <1>3, <1>4, <1>5, <1>6

\* The cached balance is never less than what the user had, and was credited
\* before the row was read from the table, less what was charged to it: a row
\* loaded late, or after a restart, errs in the user's favour, but for credit
\* that came after it was read.  As for the table, it is assumed that no step
\* charges twice.
THEOREM CacheErrsForUser == Spec /\ [][NoRepeats]_vars => []CacheNeverShort
<1>1. Init => ReadsEnough /\ CacheNeverShort
  BY DEF Init, ReadsEnough, CacheNeverShort
<1>2. TypeOK /\ NeverOvercharged /\ Counted /\ ReadsEnough /\ CacheNeverShort
        /\ [Next]_vars => ReadsEnough' /\ CacheNeverShort'
  <2> SUFFICES ASSUME TypeOK, NeverOvercharged, Counted, ReadsEnough,
                      CacheNeverShort, [Next]_vars
               PROVE  ReadsEnough' /\ CacheNeverShort'
    OBVIOUS
  <2>1. CASE UNCHANGED <<reqVars, known, cache>>
    BY <2>1 DEF reqVars, ReadsEnough, CacheNeverShort
  <2>2. CASE Crash
    BY <2>2 DEF Crash, reqVars, ReadsEnough, CacheNeverShort
  <2>3. ASSUME NEW r \in Requests, RequestStep(r) \/ Kill(r)
        PROVE  ReadsEnough' /\ CacheNeverShort'
    BY <2>3, EnoughRequest
  <2>4. \/ UNCHANGED <<reqVars, known, cache>>
        \/ Crash
        \/ \E r \in Requests : RequestStep(r) \/ Kill(r)
    BY DEF Next, Credit, SyncStep, HandleSyncDeduct, TrySyncOne, SyncUser,
           StartSync, EndSync, NothingToSync, HandleSyncBalance,
           OverwriteBalance, vars
  <2> QED BY <2>1, <2>2, <2>3, <2>4
<1> QED
  BY <1>1, <1>2, TypeCorrect, CountedHolds, NotOvercharged, PTL DEF Spec
=============================================================================
