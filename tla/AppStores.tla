----------------------------- MODULE AppStores -----------------------------
(***************************************************************************)
(* What the browser client keeps for the user who is logged in:            *)
(* subscriptions (frontend/src/stores/subscriptions.ts) and announcements  *)
(* with their popups (frontend/src/stores/announcements.ts), as App.vue    *)
(* starts and clears them when somebody logs in and out.                   *)
(*                                                                         *)
(* An action is one task of the page: an answer, a timer or a click.       *)
(* Requests carry the user they were sent for; that user stays the same    *)
(* when a request is sent again is the subject of module Session.  A page  *)
(* that restores a session is a login whose delayed fetch never comes.     *)
(* Loading flags, the list of announcements shown in the header and its    *)
(* read marks, which no popup depends on, are left out: what is unread in  *)
(* an answer is up to the server.                                          *)
(***************************************************************************)
EXTENDS Integers, Sequences, FiniteSets

CONSTANTS
  Users, Nobody,
  Ids,          \* announcements with notify_mode "popup"
  PopupsFor,    \* the announcements a user gets
  NoPopup,      \* currentPopup when no popup is shown
  Fetches,      \* list requests in flight at once, a bound
  MaxGen,       \* subscription requests and logouts per page, a bound
  MaxTimers     \* pending timeouts of each kind, a bound

ASSUME StoresAssumption ==
  /\ Nobody \notin Users /\ NoPopup \notin Ids /\ IsFiniteSet(Ids)
  /\ PopupsFor \in [Users -> SUBSET Ids]
  /\ MaxGen \in Nat /\ MaxTimers \in Nat

VARIABLES
  session,     \* the user logged in
  gen,         \* requestGeneration
  active,      \* the generation of activePromise, 0 for null
  subReqs,     \* subscription requests in flight
  subs,        \* activeSubscriptions: whose, and of which request
  fresh,       \* loaded, and lastFetchedAt within CACHE_TTL_MS
  polling,     \* pollerInterval is set
  lists,       \* list requests in flight
  throttled,   \* lastFetchTime within THROTTLE_MS
  queue,       \* popupQueue
  popup,       \* currentPopup
  shown,       \* shownPopupIds
  showTimers,  \* pending timeouts of dismissPopup
  fetchTimers, \* pending timeouts of App.vue's delayed fetch
  strayed      \* history: a list was answered in another session than its own

subVars == <<gen, active, subReqs, subs, fresh, polling>>
popupVars == <<throttled, queue, popup, shown>>
vars == <<session, gen, active, subReqs, subs, fresh, polling, lists,
          throttled, queue, popup, shown, showTimers, fetchTimers, strayed>>

NoSubs == [user |-> Nobody, gen |-> 0]
NoList == [busy |-> FALSE, user |-> Nobody]

Init ==
  /\ session = Nobody
  /\ gen = 0 /\ active = 0 /\ subReqs = {} /\ subs = NoSubs
  /\ fresh = FALSE /\ polling = FALSE
  /\ lists = [f \in Fetches |-> NoList]
  /\ throttled = FALSE /\ queue = <<>> /\ popup = NoPopup /\ shown = {}
  /\ showTimers = 0 /\ fetchTimers = 0 /\ strayed = FALSE

----------------------------------------------------------------------------
(* Subscriptions. *)

\* fetchActiveSubscriptions past the cache: a request of a new generation.
StartSubRequest(u) ==
  /\ gen < MaxGen
  /\ gen' = gen + 1 /\ active' = gen + 1
  /\ subReqs' = subReqs \cup {[user |-> u, gen |-> gen + 1]}

\* A valid cache or a request in flight serves an unforced call.
FetchSubs(u, force) ==
  IF ~force /\ (fresh \/ active # 0)
  THEN UNCHANGED <<gen, active, subReqs>>
  ELSE StartSubRequest(u)

ViewFetchesSubs ==
  /\ session # Nobody
  /\ \E force \in BOOLEAN : FetchSubs(session, force)
  /\ UNCHANGED <<session, subs, fresh, polling, lists,
                 popupVars, showTimers, fetchTimers, strayed>>

\* The interval of startPolling.
Poll ==
  /\ polling
  /\ FetchSubs(session, TRUE)
  /\ UNCHANGED <<session, subs, fresh, polling, lists,
                 popupVars, showTimers, fetchTimers, strayed>>

AnyAnswerIsCurrent(r) == TRUE
\* A logout or a later request makes an answer stale.
IsCurrent(r) == r.gen = gen

\* then and finally: the promise of an older request is not activePromise.
SubAnswer(r, ok) ==
  /\ subReqs' = subReqs \ {r}
  /\ IF ok /\ IsCurrent(r)
     THEN subs' = r /\ fresh' = TRUE
     ELSE UNCHANGED <<subs, fresh>>
  /\ active' = IF active = r.gen THEN 0 ELSE active
  /\ UNCHANGED <<session, gen, polling, lists, popupVars,
                 showTimers, fetchTimers, strayed>>

\* A minute passes, or invalidateCache is called after a purchase.
SubsExpire ==
  /\ fresh /\ fresh' = FALSE
  /\ UNCHANGED <<session, gen, active, subReqs, subs, polling, lists, popupVars, showTimers, fetchTimers, strayed>>

----------------------------------------------------------------------------
(* Announcements. *)

FetchList(f, u) ==
  /\ ~lists[f].busy
  /\ lists' = [lists EXCEPT ![f] = [busy |-> TRUE, user |-> u]]
  /\ throttled' = TRUE

\* A change of route or of visibility: fetchAnnouncements, throttled.
PageFetchesList(f) ==
  /\ session # Nobody /\ ~throttled
  /\ FetchList(f, session)
  /\ UNCHANGED <<session, subVars, queue, popup, shown,
                 showTimers, fetchTimers, strayed>>

\* App.vue's timeout three seconds after a login, which nothing cancels.
DelayedFetch(f) ==
  /\ fetchTimers > 0 /\ fetchTimers' = fetchTimers - 1
  /\ FetchList(f, session)
  /\ UNCHANGED <<session, subVars, queue, popup, shown,
                 showTimers, strayed>>

IsNewIgnoringShown(i) == TRUE
IsNew(i) == i \notin shown

RangeOf(s) == {s[k] : k \in 1..Len(s)}

\* popupQueue after the announcements of an answer, in the order of the list.
Enqueued(unread) ==
  LET added == {i \in unread : IsNew(i)} \ RangeOf(queue)
  IN {s \in [1..(Len(queue) + Cardinality(added)) -> Ids] :
        /\ \A k \in 1..Len(queue) : s[k] = queue[k]
        /\ added \subseteq RangeOf(s)
        /\ \A k \in (Len(queue) + 1)..Len(s) : s[k] \in added}

\* showNextPopup on a queue q.
ShowNext(q) ==
  IF q = <<>> THEN popup' = NoPopup /\ queue' = q /\ UNCHANGED shown
  ELSE /\ popup' = Head(q) /\ queue' = Tail(q)
       /\ shown' = shown \cup {Head(q)}

\* enqueueNewPopups.  An answer without new popups does nothing, even if
\* some are queued and none is shown.
EnqueueNewPopups(unread) ==
  IF \A i \in unread : ~IsNew(i) THEN UNCHANGED <<queue, popup, shown>>
  ELSE \E q \in Enqueued(unread) :
         IF popup = NoPopup THEN ShowNext(q)
         ELSE queue' = q /\ UNCHANGED <<popup, shown>>

\* The list arrives with some of its user's popups unread; a read mark may
\* be on its way to the server.
ListAnswer(f) ==
  LET u == lists[f].user
  IN /\ lists[f].busy /\ u # Nobody
     /\ \E unread \in SUBSET PopupsFor[u] : EnqueueNewPopups(unread)
     /\ lists' = [lists EXCEPT ![f] = NoList]
     /\ strayed' = (strayed \/ u # session)
     /\ UNCHANGED <<session, subVars, throttled, showTimers, fetchTimers>>

ListFails(f) ==
  /\ lists[f].busy
  /\ lists' = [lists EXCEPT ![f] = NoList]
  /\ throttled' = FALSE
  /\ UNCHANGED <<session, subVars, queue, popup, shown,
                 showTimers, fetchTimers, strayed>>

ThrottleExpires ==
  /\ throttled /\ throttled' = FALSE
  /\ UNCHANGED <<session, subVars, lists, queue, popup, shown,
                 showTimers, fetchTimers, strayed>>

DismissForgetsTimer == UNCHANGED showTimers
DismissTimer ==
  showTimers' = IF queue # <<>> THEN showTimers + 1 ELSE showTimers

\* dismissPopup: hide it, and show the next one in 300 ms.
Dismiss ==
  /\ popup # NoPopup /\ showTimers < MaxTimers
  /\ popup' = NoPopup
  /\ DismissTimer
  /\ UNCHANGED <<session, subVars, lists, throttled, queue, shown,
                 fetchTimers, strayed>>

ShowTimer ==
  /\ showTimers > 0 /\ showTimers' = showTimers - 1
  /\ ShowNext(queue)
  /\ UNCHANGED <<session, subVars, lists, throttled,
                 fetchTimers, strayed>>

----------------------------------------------------------------------------
(* App.vue's watch of isAuthenticated. *)

Login(u) ==
  /\ session = Nobody /\ fetchTimers < MaxTimers
  /\ session' = u
  /\ FetchSubs(u, FALSE)
  /\ polling' = TRUE
  /\ fetchTimers' = fetchTimers + 1
  /\ UNCHANGED <<subs, fresh, lists, popupVars, showTimers,
                 strayed>>

ClearKeepsGeneration ==
  /\ gen' = gen
  /\ active' = 0 /\ subs' = NoSubs /\ fresh' = FALSE /\ polling' = FALSE
\* clear of the subscription store.  The bound leaves a generation for the
\* next login.
ClearSubs ==
  /\ gen + 1 < MaxGen /\ gen' = gen + 1
  /\ active' = 0 /\ subs' = NoSubs /\ fresh' = FALSE /\ polling' = FALSE

\* reset of the announcement store.
ResetPopups ==
  /\ throttled' = FALSE /\ queue' = <<>> /\ popup' = NoPopup /\ shown' = {}

Logout ==
  /\ session # Nobody
  /\ session' = Nobody
  /\ ClearSubs
  /\ ResetPopups
  /\ UNCHANGED <<subReqs, lists, showTimers, fetchTimers, strayed>>

SubsStep ==
  \/ ViewFetchesSubs \/ Poll \/ SubsExpire
  \/ \E r \in subReqs, ok \in BOOLEAN : SubAnswer(r, ok)

ListStep(f) ==
  PageFetchesList(f) \/ DelayedFetch(f) \/ ListAnswer(f) \/ ListFails(f)

PopupStep ==
  \/ \E f \in Fetches : ListStep(f)
  \/ ThrottleExpires \/ Dismiss \/ ShowTimer

Next == SubsStep \/ PopupStep \/ Logout \/ \E u \in Users : Login(u)

Spec == Init /\ [][Next]_vars

----------------------------------------------------------------------------
(* Properties. *)

Owner == Users \cup {Nobody}
SubRequest == [user : Owner, gen : Nat]

TypeOK ==
  /\ session \in Owner
  /\ gen \in Nat /\ active \in Nat
  /\ subReqs \in SUBSET SubRequest /\ subs \in SubRequest
  /\ fresh \in BOOLEAN /\ polling \in BOOLEAN
  /\ lists \in [Fetches -> [busy : BOOLEAN, user : Owner]]
  /\ throttled \in BOOLEAN
  /\ queue \in Seq(Ids) /\ popup \in Ids \cup {NoPopup} /\ shown \in SUBSET Ids
  /\ showTimers \in Nat /\ fetchTimers \in Nat
  /\ strayed \in BOOLEAN

\* Subscriptions on the screen are those of the user who is logged in,
\* whatever answers of earlier sessions still arrive.
SubscriptionsOfSession == subs.user \in {session, Nobody}

\* Polling, forced and unforced requests overlap, and their answers arrive in
\* any order: what is shown never goes back to an older request's answer.
SubscriptionsNeverRegress ==
  [][subs'.gen >= subs.gen \/ session' # session]_vars

\* A popup is shown once in a session, also if the list still calls it unread.
PopupOnce ==
  [][popup' \notin {popup, NoPopup} => popup' \notin shown]_vars

\* The next popup is never forgotten: if some are queued and none is shown, a
\* timeout will show one.
PopupNotStuck == queue # <<>> /\ popup = NoPopup => showTimers > 0

\* Nobody sees another user's popups, unless a list asked for in one session
\* arrived in a later one, which the store does not notice.
PopupsOfSession ==
  ~strayed =>
    RangeOf(queue) \cup ({popup} \ {NoPopup}) \subseteq
      (IF session = Nobody THEN {} ELSE PopupsFor[session])
============================================================================
