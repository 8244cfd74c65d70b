-------------------------- MODULE AppStoresProofs --------------------------
(***************************************************************************)
(* Proofs about AppStores for any number of users, announcements, requests *)
(* and timers.                                                             *)
(***************************************************************************)
EXTENDS AppStores, FiniteSetTheorems, TLAPS

USE StoresAssumption

----------------------------------------------------------------------------
(* Subscriptions: only an answer of the newest generation is shown, and    *)
(* that one was asked for in this session.                                 *)

SubsType ==
  /\ session \in Owner
  /\ gen \in Nat /\ active \in Nat
  /\ subReqs \in SUBSET SubRequest /\ subs \in SubRequest
  /\ fresh \in BOOLEAN /\ polling \in BOOLEAN

SubsInv ==
  /\ SubsType
  /\ polling => session # Nobody
  /\ \A r \in subReqs :
       r.gen <= gen /\ (r.gen = gen => r.user = session /\ r.user # Nobody)
  /\ subs.gen <= gen
  /\ SubscriptionsOfSession

\* A request that is sent is of the current generation and of the session.
LEMMA FetchKeeps ==
  ASSUME SubsInv, NEW u \in Users, NEW force \in BOOLEAN, FetchSubs(u, force),
         u = session \/ \A r \in subReqs : r.gen # gen
  PROVE  /\ gen' \in Nat /\ active' \in Nat /\ gen' >= gen
         /\ subReqs' \in SUBSET SubRequest
         /\ \A r \in subReqs' :
              r.gen <= gen' /\ (r.gen = gen' => r.user = u /\ r.user # Nobody)
<1>1. CASE StartSubRequest(u)
  <2>1. [user |-> u, gen |-> gen + 1] \in SubRequest
    BY DEF SubsInv, SubsType, SubRequest, Owner
  <2>2. \A r \in subReqs : r.gen \in Nat /\ r.gen <= gen
    BY DEF SubsInv, SubsType, SubRequest
  <2> QED BY <1>1, <2>1, <2>2 DEF StartSubRequest, SubsInv, SubsType
<1>2. CASE UNCHANGED <<gen, active, subReqs>>
  BY <1>2 DEF SubsInv, SubsType
<1> QED BY <1>1, <1>2 DEF FetchSubs

\* No step makes the subscription store show or ask for what is not the
\* session's.
LEMMA SubsStepKeeps ==
  ASSUME SubsInv, [Next]_vars
  PROVE  SubsInv' /\ (subs'.gen >= subs.gen \/ session' # session)
<1>1. CASE ViewFetchesSubs \/ Poll
  <2>1. session \in Users /\ \E force \in BOOLEAN : FetchSubs(session, force)
    BY <1>1 DEF ViewFetchesSubs, Poll, SubsInv, SubsType, Owner
  <2>2. UNCHANGED <<session, subs, fresh, polling>>
    BY <1>1 DEF ViewFetchesSubs, Poll
  <2>3. PICK force \in BOOLEAN : FetchSubs(session, force)
    BY <2>1
  <2>4. /\ gen' \in Nat /\ active' \in Nat /\ gen' >= gen
        /\ subReqs' \in SUBSET SubRequest
        /\ \A r \in subReqs' :
             r.gen <= gen' /\ (r.gen = gen' => r.user = session /\ r.user # Nobody)
    BY <2>1, <2>3, FetchKeeps
  <2>5. subs.gen \in Nat /\ gen \in Nat
    BY DEF SubsInv, SubsType, SubRequest
  <2> QED BY <2>2, <2>4, <2>5 DEF SubsInv, SubsType, SubscriptionsOfSession
<1>2. ASSUME NEW r \in subReqs, NEW ok \in BOOLEAN, SubAnswer(r, ok)
      PROVE  SubsInv' /\ (subs'.gen >= subs.gen \/ session' # session)
  <2>1. r \in SubRequest /\ r.gen \in Nat /\ subs.gen \in Nat /\ gen \in Nat
    BY DEF SubsInv, SubsType, SubRequest
  <2>2. /\ UNCHANGED <<session, gen, polling>>
        /\ subReqs' \subseteq subReqs /\ active' \in Nat
    BY <1>2 DEF SubAnswer, SubsInv, SubsType
  <2>3. CASE subs' = r /\ fresh' = TRUE /\ r.gen = gen
    BY <2>1, <2>2, <2>3 DEF SubsInv, SubsType, SubscriptionsOfSession
  <2>4. CASE UNCHANGED <<subs, fresh>>
    BY <2>1, <2>2, <2>4 DEF SubsInv, SubsType, SubscriptionsOfSession
  <2> QED BY <1>2, <2>3, <2>4 DEF SubAnswer, IsCurrent
<1>3. ASSUME NEW u \in Users, Login(u)
      PROVE  SubsInv' /\ (subs'.gen >= subs.gen \/ session' # session)
  <2>1. /\ session = Nobody /\ session' = u /\ FetchSubs(u, FALSE)
        /\ polling' = TRUE /\ UNCHANGED <<subs, fresh>>
    BY <1>3 DEF Login
  <2>2. \A r \in subReqs : r.gen # gen
    BY <2>1 DEF SubsInv
  <2>3. /\ gen' \in Nat /\ active' \in Nat /\ gen' >= gen
        /\ subReqs' \in SUBSET SubRequest
        /\ \A r \in subReqs' :
             r.gen <= gen' /\ (r.gen = gen' => r.user = u /\ r.user # Nobody)
    BY <2>1, <2>2, FetchKeeps
  <2>4. subs.gen \in Nat /\ gen \in Nat /\ subs.user = Nobody /\ u # Nobody
    BY <2>1 DEF SubsInv, SubsType, SubRequest, SubscriptionsOfSession
  <2> QED BY <2>1, <2>3, <2>4
          DEF SubsInv, SubsType, SubscriptionsOfSession, Owner
<1>4. CASE Logout
  <2>1. /\ session # Nobody /\ session' = Nobody /\ gen' = gen + 1 /\ active' = 0
        /\ subs' = NoSubs /\ subReqs' = subReqs
    BY <1>4 DEF Logout, ClearSubs
  <2>0. fresh' \in BOOLEAN /\ polling' \in BOOLEAN /\ ~polling'
    BY <1>4 DEF Logout, ClearSubs
  <2>2. NoSubs \in SubRequest /\ NoSubs.user = Nobody /\ NoSubs.gen = 0
    BY DEF NoSubs, SubRequest, Owner
  <2>3. gen \in Nat /\ \A r \in subReqs : r.gen \in Nat /\ r.gen <= gen
    BY DEF SubsInv, SubsType, SubRequest
  <2>4. \A r \in subReqs' : r.gen <= gen' /\ r.gen # gen'
    BY <2>1, <2>3
  <2>5. SubsType'
    BY <2>0, <2>1, <2>2, <2>3 DEF SubsInv, SubsType, Owner
  <2>6. SubscriptionsOfSession' /\ subs'.gen <= gen'
    BY <2>1, <2>2, <2>3 DEF SubscriptionsOfSession
  <2> QED BY <2>0, <2>1, <2>4, <2>5, <2>6 DEF SubsInv
<1>5. CASE SubsExpire
  <2>1. UNCHANGED <<session, gen, active, subReqs, subs, polling>> /\ fresh' = FALSE
    BY <1>5 DEF SubsExpire
  <2>2. subs.gen \in Nat
    BY DEF SubsInv, SubsType, SubRequest
  <2>3. SubsType'
    BY <2>1 DEF SubsInv, SubsType
  <2>4. polling' => session' # Nobody
    BY <2>1 DEF SubsInv
  <2> QED BY <2>1, <2>2, <2>3, <2>4 DEF SubsInv, SubscriptionsOfSession
<1>6. CASE UNCHANGED <<session, subVars>>
  <2>1. subs.gen \in Nat
    BY DEF SubsInv, SubsType, SubRequest
  <2> QED BY <1>6, <2>1 DEF subVars, SubsInv, SubsType, SubscriptionsOfSession
<1>7. PopupStep => UNCHANGED <<session, subVars>>
  BY DEF PopupStep, ListStep, PageFetchesList, DelayedFetch, ListAnswer,
         ListFails, ThrottleExpires, Dismiss, ShowTimer
<1>8. UNCHANGED vars => UNCHANGED <<session, subVars>>
  BY DEF vars, subVars
<1> QED BY <1>1, <1>2, <1>3, <1>4, <1>5, <1>6, <1>7, <1>8 DEF Next, SubsStep

\* So it holds in every state, across logins and logouts.
LEMMA SubsInvHolds == Spec => []SubsInv
<1>1. Init => SubsInv
  <2> SUFFICES ASSUME Init PROVE SubsInv
    OBVIOUS
  <2>1. subs \in SubRequest /\ subs.user = Nobody /\ subs.gen = 0 /\ gen = 0
    BY DEF Init, NoSubs, SubRequest, Owner
  <2>2. session \in Owner /\ active \in Nat /\ subReqs = {}
    BY DEF Init, Owner
  <2>3. fresh \in BOOLEAN /\ polling \in BOOLEAN /\ ~polling
    BY DEF Init
  <2> QED BY <2>1, <2>2, <2>3 DEF SubsInv, SubsType, SubscriptionsOfSession
<1>2. SubsInv /\ [Next]_vars => SubsInv'
  BY SubsStepKeeps
<1> QED BY <1>1, <1>2, PTL DEF Spec

\* Whatever answers of earlier sessions arrive, only the subscriptions of the
\* user who is logged in are shown.
THEOREM OwnSubscriptions == Spec => []SubscriptionsOfSession
BY SubsInvHolds, PTL DEF SubsInv

\* However requests overlap and in whatever order they are answered, an older
\* answer never replaces a newer one.
THEOREM NewestWins == Spec => SubscriptionsNeverRegress
<1>1. SubsInv /\ [Next]_vars => [subs'.gen >= subs.gen \/ session' # session]_vars
  BY SubsStepKeeps
<1> QED BY <1>1, SubsInvHolds, PTL DEF Spec, SubscriptionsNeverRegress

----------------------------------------------------------------------------
(* Popups: the queue holds each announcement once, and none that has been  *)
(* shown, so whichever comes first may be shown.                           *)

PopupsType ==
  /\ lists \in [Fetches -> [busy : BOOLEAN, user : Owner]]
  /\ throttled \in BOOLEAN
  /\ popup \in Ids \cup {NoPopup} /\ shown \in SUBSET Ids
  /\ showTimers \in Nat /\ fetchTimers \in Nat
  /\ strayed \in BOOLEAN

Unseen(q, seen) ==
  /\ q \in Seq(Ids)
  /\ \A k \in 1..Len(q) : q[k] \notin seen
  /\ \A j, k \in 1..Len(q) : j # k => q[j] # q[k]

PopupsInv ==
  /\ PopupsType
  /\ Unseen(queue, shown)
  /\ PopupNotStuck
  /\ PopupsOfSession

\* As many places as there are new announcements: each gets one.
LEMMA Places ==
  ASSUME NEW L \in Nat, NEW T, IsFiniteSet(T),
         NEW s \in [1..(L + Cardinality(T)) -> Ids],
         \A t \in T : \E k \in (L + 1)..(L + Cardinality(T)) : s[k] = t,
         \A k \in (L + 1)..(L + Cardinality(T)) : s[k] \in T
  PROVE  \A j, k \in (L + 1)..(L + Cardinality(T)) : j # k => s[j] # s[k]
<1> DEFINE C == Cardinality(T)
           f == [i \in 1..C |-> s[L + i]]
<1>1. C \in Nat
  BY FS_CardinalityType
<1>2. IsFiniteSet(1..C) /\ Cardinality(1..C) = C
  BY <1>1, FS_Interval
<1>3. f \in [1..C -> T]
  BY <1>1
<1>4. ASSUME NEW t \in T PROVE \E i \in 1..C : f[i] = t
  <2>1. PICK k \in (L + 1)..(L + C) : s[k] = t
    OBVIOUS
  <2>2. k - L \in 1..C /\ L + (k - L) = k
    BY <1>1
  <2> QED BY <2>1, <2>2
<1>5. f \in Surjection(1..C, T)
  BY <1>3, <1>4 DEF Surjection
<1>6. f \in Injection(1..C, T)
  <2> HIDE DEF f, C
  <2> QED BY <1>2, <1>5, FS_SurjSameCardinalityImpliesInj DEF C
<1>7. \A i, j \in 1..C : f[i] = f[j] => i = j
  BY <1>6 DEF Injection, IsInjective
<1> TAKE j, k \in (L + 1)..(L + C)
<1>8. j - L \in 1..C /\ k - L \in 1..C /\ L + (j - L) = j /\ L + (k - L) = k
  BY <1>1
<1>9. f[j - L] = s[j] /\ f[k - L] = s[k]
  BY <1>8
<1> HIDE DEF f
<1> QED BY <1>7, <1>8, <1>9

\* The queue after an answer.
LEMMA EnqueuedUnseen ==
  ASSUME Unseen(queue, shown), NEW unread \in SUBSET Ids, NEW q \in Enqueued(unread)
  PROVE  /\ Unseen(q, shown)
         /\ RangeOf(q) \subseteq RangeOf(queue) \cup unread
         /\ (\E i \in unread : IsNew(i)) => q # <<>>
         /\ queue # <<>> => q # <<>>
<1> DEFINE L == Len(queue)
           T == {i \in unread : IsNew(i)} \ RangeOf(queue)
           C == Cardinality(T)
<1>1. L \in Nat /\ \A k \in 1..L : queue[k] \in Ids /\ queue[k] \notin shown
      /\ queue[k] \in RangeOf(queue)
  BY DEF Unseen, RangeOf
<1>2. IsFiniteSet(T) /\ C \in Nat
  <2>1. T \in SUBSET Ids
    OBVIOUS
  <2> QED BY <2>1, FS_Subset, FS_CardinalityType
<1>3. /\ q \in [1..(L + C) -> Ids]
      /\ \A k \in 1..L : q[k] = queue[k]
      /\ T \subseteq RangeOf(q)
      /\ \A k \in (L + 1)..Len(q) : q[k] \in T
  BY DEF Enqueued
<1>4. \A t \in T : t \in Ids /\ t \in unread /\ t \notin shown /\ t \notin RangeOf(queue)
  BY DEF IsNew
<1> HIDE DEF L, T, C
<1>5. Len(q) = L + C /\ q \in Seq(Ids)
  BY <1>1, <1>2, <1>3
<1>6. ASSUME NEW t \in T PROVE \E k \in (L + 1)..(L + C) : q[k] = t
  <2>1. PICK k \in 1..Len(q) : q[k] = t
    BY <1>3 DEF RangeOf
  <2>2. k \notin 1..L
    BY <1>1, <1>3, <1>4, <2>1
  <2> QED BY <1>1, <1>2, <1>5, <2>1, <2>2
<1>7. \A j, k \in (L + 1)..(L + C) : j # k => q[j] # q[k]
  BY <1>1, <1>2, <1>3, <1>5, <1>6, Places DEF C
<1>8. \A k \in 1..Len(q) : k \in 1..L \/ k \in (L + 1)..(L + C)
  BY <1>1, <1>2, <1>5
<1>9. \A k \in 1..Len(q) : q[k] \notin shown /\ q[k] \in RangeOf(queue) \cup unread
  BY <1>1, <1>3, <1>4, <1>5, <1>8
<1>10. \A j, k \in 1..L : j # k => q[j] # q[k]
  BY <1>3 DEF Unseen, L
<1>11. \A j \in 1..L, k \in (L + 1)..(L + C) : q[j] # q[k]
  BY <1>1, <1>3, <1>4, <1>5
<1>12. \A j, k \in 1..Len(q) : j # k => q[j] # q[k]
  BY <1>7, <1>8, <1>10, <1>11
<1>13. Unseen(q, shown)
  BY <1>5, <1>9, <1>12 DEF Unseen
<1>14. RangeOf(q) \subseteq RangeOf(queue) \cup unread
  BY <1>9 DEF RangeOf
<1>15. queue # <<>> => q # <<>>
  <2>1. queue # <<>> => L > 0
    BY DEF L, Unseen
  <2> QED BY <1>1, <1>2, <1>5, <2>1
<1>16. ASSUME NEW i \in unread, IsNew(i) PROVE q # <<>>
  <2>1. CASE i \in T
    BY <1>3, <2>1 DEF RangeOf
  <2>2. CASE i \in RangeOf(queue)
    BY <1>15, <2>2 DEF RangeOf
  <2> QED BY <1>16, <2>1, <2>2 DEF T
<1> QED BY <1>13, <1>14, <1>15, <1>16

\* The first of the queue is shown, and a popup is missing only if none waits.
LEMMA ShowNextUnseen ==
  ASSUME NEW q, Unseen(q, shown), shown \in SUBSET Ids, ShowNext(q)
  PROVE  /\ Unseen(queue', shown') /\ shown' \in SUBSET Ids
         /\ popup' \in Ids \cup {NoPopup}
         /\ popup' = NoPopup => queue' = <<>>
         /\ RangeOf(queue') \cup ({popup'} \ {NoPopup}) \subseteq RangeOf(q)
         /\ q # <<>> => popup' # NoPopup
         /\ popup' # NoPopup => popup' \notin shown
<1>1. CASE q = <<>>
  BY <1>1 DEF ShowNext, Unseen, RangeOf
<1>2. CASE q # <<>>
  <2>1. popup' = Head(q) /\ queue' = Tail(q) /\ shown' = shown \cup {Head(q)}
    BY <1>2 DEF ShowNext
  <2>2. /\ Len(q) \in Nat /\ Len(q) > 0 /\ Head(q) = q[1] /\ q[1] \in Ids
        /\ Tail(q) \in Seq(Ids) /\ Len(Tail(q)) = Len(q) - 1
        /\ \A k \in 1..Len(Tail(q)) : Tail(q)[k] = q[k + 1]
    BY <1>2 DEF Unseen
  <2>3. /\ 1 \in 1..Len(q)
        /\ \A k \in 1..Len(Tail(q)) : k + 1 \in 1..Len(q) /\ k + 1 # 1
    BY <2>2
  <2>4. Unseen(queue', shown')
    BY <2>1, <2>2, <2>3 DEF Unseen
  <2>5. RangeOf(queue') \cup {popup'} \subseteq RangeOf(q)
    BY <2>1, <2>2, <2>3 DEF RangeOf
  <2> QED BY <1>2, <2>1, <2>2, <2>3, <2>4, <2>5 DEF Unseen
<1> QED BY <1>1, <1>2

\* Every step keeps the types of the rest.
LEMMA TypesStay ==
  ASSUME SubsInv, PopupsInv, [Next]_vars
  PROVE  /\ lists' \in [Fetches -> [busy : BOOLEAN, user : Owner]]
         /\ throttled' \in BOOLEAN /\ strayed' \in BOOLEAN
         /\ showTimers' \in Nat /\ fetchTimers' \in Nat
<1>1. NoList \in [busy : BOOLEAN, user : Owner]
  BY DEF NoList, Owner
<1>2. ASSUME NEW u \in Owner PROVE [busy |-> TRUE, user |-> u] \in [busy : BOOLEAN, user : Owner]
  BY <1>2
<1>3. session \in Owner
  BY DEF SubsInv, SubsType
<1>4. lists' \in [Fetches -> [busy : BOOLEAN, user : Owner]]
  <2>1. ASSUME NEW f \in Fetches, NEW v \in [busy : BOOLEAN, user : Owner],
               lists' = [lists EXCEPT ![f] = v]
        PROVE  lists' \in [Fetches -> [busy : BOOLEAN, user : Owner]]
    BY <2>1 DEF PopupsInv, PopupsType
  <2>2. ASSUME NEW f \in Fetches, ListStep(f)
        PROVE  \E v \in [busy : BOOLEAN, user : Owner] : lists' = [lists EXCEPT ![f] = v]
    BY <1>1, <1>2, <1>3, <2>2
       DEF ListStep, PageFetchesList, DelayedFetch, ListAnswer, ListFails, FetchList
  <2>3. lists' = lists \/ \E f \in Fetches : ListStep(f)
    BY DEF Next, SubsStep, PopupStep, ViewFetchesSubs, Poll, SubsExpire, SubAnswer,
           ThrottleExpires, Dismiss, ShowTimer, Login, Logout, vars
  <2> QED BY <2>1, <2>2, <2>3 DEF PopupsInv, PopupsType
<1>5. throttled' \in BOOLEAN
  <2>1. throttled' \in {throttled, TRUE, FALSE}
    BY DEF Next, SubsStep, PopupStep, ViewFetchesSubs, Poll, SubsExpire, SubAnswer,
           ThrottleExpires, Dismiss, ShowTimer, Login, Logout, vars, ListStep,
           PageFetchesList, DelayedFetch, ListAnswer, ListFails, FetchList,
           popupVars, ResetPopups
  <2> QED BY <2>1 DEF PopupsInv, PopupsType
<1>6. strayed' \in BOOLEAN
  <2>1. strayed' = strayed \/ strayed' \in BOOLEAN
    BY DEF Next, SubsStep, PopupStep, ViewFetchesSubs, Poll, SubsExpire, SubAnswer,
           ThrottleExpires, Dismiss, ShowTimer, Login, Logout, vars, ListStep,
           PageFetchesList, DelayedFetch, ListAnswer, ListFails
  <2> QED BY <2>1 DEF PopupsInv, PopupsType
<1>7. showTimers \in Nat /\ fetchTimers \in Nat
  BY DEF PopupsInv, PopupsType
<1>8. showTimers' \in Nat
  <2>1. \/ showTimers' \in {showTimers, showTimers + 1}
        \/ showTimers > 0 /\ showTimers' = showTimers - 1
    BY DEF Next, SubsStep, PopupStep, ViewFetchesSubs, Poll, SubsExpire, SubAnswer,
           ThrottleExpires, Dismiss, DismissTimer, ShowTimer, Login, Logout, vars,
           ListStep, PageFetchesList, DelayedFetch, ListAnswer, ListFails
  <2> QED BY <1>7, <2>1
<1>9. fetchTimers' \in Nat
  <2>1. \/ fetchTimers' \in {fetchTimers, fetchTimers + 1}
        \/ fetchTimers > 0 /\ fetchTimers' = fetchTimers - 1
    BY DEF Next, SubsStep, PopupStep, ViewFetchesSubs, Poll, SubsExpire, SubAnswer,
           ThrottleExpires, Dismiss, ShowTimer, Login, Logout, vars, ListStep,
           PageFetchesList, DelayedFetch, ListAnswer, ListFails
  <2> QED BY <1>7, <2>1
<1> QED BY <1>4, <1>5, <1>6, <1>8, <1>9

\* What each user may see.
Mine(u) == IF u = Nobody THEN {} ELSE PopupsFor[u]

\* No step queues a popup twice or after it was
\* shown.
LEMMA PopupsStepKeeps ==
  ASSUME SubsInv, PopupsInv, [Next]_vars
  PROVE  PopupsInv' /\ (popup' \notin {popup, NoPopup} => popup' \notin shown)
<1>1. /\ Unseen(queue, shown) /\ shown \in SUBSET Ids
      /\ popup \in Ids \cup {NoPopup} /\ showTimers \in Nat
      /\ queue # <<>> /\ popup = NoPopup => showTimers > 0
      /\ ~strayed => RangeOf(queue) \cup ({popup} \ {NoPopup}) \subseteq Mine(session)
  BY DEF PopupsInv, PopupsType, PopupNotStuck, PopupsOfSession, Mine
<1> DEFINE Goal ==
      /\ Unseen(queue', shown') /\ shown' \in SUBSET Ids
      /\ popup' \in Ids \cup {NoPopup}
      /\ queue' # <<>> /\ popup' = NoPopup => showTimers' > 0
      /\ ~strayed' => RangeOf(queue') \cup ({popup'} \ {NoPopup}) \subseteq Mine(session')
      /\ popup' \notin {popup, NoPopup} => popup' \notin shown
<1>2. ASSUME UNCHANGED <<queue, popup, shown, showTimers>>,
             session' = session, strayed' = strayed
      PROVE  Goal
  BY <1>1, <1>2
<1>3. ASSUME NEW u \in Users, Login(u)
      PROVE  Goal
  <2>1. session = Nobody /\ UNCHANGED <<queue, popup, shown, showTimers, strayed>>
    BY <1>3 DEF Login, popupVars
  <2>2. Mine(session) = {}
    BY <2>1 DEF Mine
  <2> QED BY <1>1, <2>1, <2>2
<1>4. ASSUME Logout
      PROVE  Goal
  <2>1. queue' = <<>> /\ popup' = NoPopup /\ shown' = {}
    BY <1>4 DEF Logout, ResetPopups
  <2>2. Unseen(queue', shown') /\ RangeOf(queue') = {}
    BY <2>1 DEF Unseen, RangeOf
  <2> QED BY <2>1, <2>2
<1>5. ASSUME Dismiss
      PROVE  Goal
  <2>1. /\ popup' = NoPopup /\ UNCHANGED <<queue, shown, session, strayed>>
        /\ showTimers' = IF queue # <<>> THEN showTimers + 1 ELSE showTimers
    BY <1>5 DEF Dismiss, DismissTimer
  <2> QED BY <1>1, <2>1
<1>6. ASSUME ShowTimer
      PROVE  Goal
  <2>1. ShowNext(queue) /\ session' = session /\ strayed' = strayed
    BY <1>6 DEF ShowTimer
  <2>2. /\ Unseen(queue', shown') /\ shown' \in SUBSET Ids
        /\ popup' \in Ids \cup {NoPopup}
        /\ popup' = NoPopup => queue' = <<>>
        /\ RangeOf(queue') \cup ({popup'} \ {NoPopup}) \subseteq RangeOf(queue)
        /\ popup' # NoPopup => popup' \notin shown
    BY <1>1, <2>1, ShowNextUnseen
  <2> QED BY <1>1, <2>1, <2>2
<1>7. ASSUME NEW f \in Fetches, ListAnswer(f)
      PROVE  Goal
  <2> DEFINE u == lists[f].user
  <2>1. /\ u # Nobody /\ session' = session /\ showTimers' = showTimers
        /\ strayed' = (strayed \/ u # session)
    BY <1>7 DEF ListAnswer
  <2>2. PICK unread \in SUBSET PopupsFor[u] : EnqueueNewPopups(unread)
    BY <1>7 DEF ListAnswer
  <2>3. u \in Users /\ unread \in SUBSET Ids
    BY <2>1 DEF PopupsInv, PopupsType, Owner
  <2>4. ~strayed' => ~strayed /\ u = session /\ unread \subseteq Mine(session)
    BY <2>1 DEF Mine
  <2> HIDE DEF u
  <2>5. CASE UNCHANGED <<queue, popup, shown>>
    BY <1>1, <2>1, <2>4, <2>5
  <2>6. ASSUME \E i \in unread : IsNew(i), NEW q \in Enqueued(unread),
               IF popup = NoPopup THEN ShowNext(q)
               ELSE queue' = q /\ UNCHANGED <<popup, shown>>
        PROVE  Goal
    <3>1. /\ Unseen(q, shown) /\ q # <<>>
          /\ RangeOf(q) \subseteq RangeOf(queue) \cup unread
      BY <1>1, <2>3, <2>6, EnqueuedUnseen
    <3>2. ~strayed' => RangeOf(q) \subseteq Mine(session)
      BY <1>1, <2>4, <3>1
    <3>3. CASE popup = NoPopup
      <4>1. /\ Unseen(queue', shown') /\ shown' \in SUBSET Ids
            /\ popup' \in Ids \cup {NoPopup}
            /\ RangeOf(queue') \cup ({popup'} \ {NoPopup}) \subseteq RangeOf(q)
            /\ popup' # NoPopup /\ popup' \notin shown
        BY <1>1, <2>6, <3>1, <3>3, ShowNextUnseen
      <4> QED BY <2>1, <3>2, <4>1
    <3>4. CASE popup # NoPopup
      BY <1>1, <2>1, <2>4, <2>6, <3>1, <3>2, <3>4
    <3> QED BY <3>3, <3>4
  <2> QED BY <2>2, <2>5, <2>6 DEF EnqueueNewPopups
<1>8. \/ UNCHANGED <<queue, popup, shown, showTimers>>
           /\ session' = session /\ strayed' = strayed
      \/ \E u \in Users : Login(u)
      \/ Logout \/ Dismiss \/ ShowTimer
      \/ \E f \in Fetches : ListAnswer(f)
  BY DEF Next, SubsStep, PopupStep, ViewFetchesSubs, Poll, SubsExpire, SubAnswer,
         ThrottleExpires, vars, ListStep, PageFetchesList, DelayedFetch, ListFails,
         FetchList, popupVars
<1>9. Goal
  <2> HIDE DEF Goal
  <2> QED BY <1>2, <1>3, <1>4, <1>5, <1>6, <1>7, <1>8
<1> QED
  BY <1>9, TypesStay DEF PopupsInv, PopupsType, PopupNotStuck, PopupsOfSession, Mine

\* Both stores keep their invariants in every step.
LEMMA StoresInvHolds == Spec => [](SubsInv /\ PopupsInv)
<1>1. Init => PopupsInv
  <2> SUFFICES ASSUME Init PROVE PopupsInv
    OBVIOUS
  <2>1. PopupsType
    BY DEF Init, PopupsType, NoList, Owner
  <2> QED BY <2>1 DEF Init, PopupsInv, Unseen, PopupNotStuck, PopupsOfSession, RangeOf
<1>2. SubsInv /\ PopupsInv /\ [Next]_vars => PopupsInv'
  BY PopupsStepKeeps
<1> QED BY <1>1, <1>2, SubsInvHolds, PTL DEF Spec

\* The types of all variables.
THEOREM TypeCorrect == Spec => []TypeOK
<1>1. SubsInv /\ PopupsInv => TypeOK
  BY DEF SubsInv, SubsType, PopupsInv, PopupsType, Unseen, TypeOK
<1> QED BY <1>1, StoresInvHolds, PTL

\* A queued popup is always on its way to the screen.
THEOREM NextPopupComes == Spec => []PopupNotStuck
BY StoresInvHolds, PTL DEF PopupsInv

\* Only a list answered in another session than its own brings foreign popups.
THEOREM OwnPopups == Spec => []PopupsOfSession
BY StoresInvHolds, PTL DEF PopupsInv

\* However often the lists repeat an announcement, and however the timers of
\* several dismissals run, it is shown once in a session.
THEOREM ShownOnce == Spec => PopupOnce
<1>1. SubsInv /\ PopupsInv /\ [Next]_vars
        => [popup' \notin {popup, NoPopup} => popup' \notin shown]_vars
  BY PopupsStepKeeps
<1> QED BY <1>1, StoresInvHolds, PTL DEF Spec, PopupOnce
=============================================================================
