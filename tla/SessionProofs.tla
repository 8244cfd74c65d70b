--------------------------- MODULE SessionProofs ---------------------------
(***************************************************************************)
(* Session proved for any number of users and of requests in flight.       *)
(***************************************************************************)
EXTENDS Session, TLAPS

\* Why no request is sent a third time: one that waits or refreshes was sent
\* once, and one sent again is marked.  A login's 401 is final.
SendsCounted ==
  \A c \in Calls :
    /\ calls[c].sends <= 2
    /\ calls[c].st \in {"waiting", "refreshing"} =>
         calls[c].sends = 1 /\ calls[c].kind # "login"
    /\ calls[c].st = "sent" /\ ~calls[c].retried => calls[c].sends = 1

\* Why nothing comes back after a quiet logout: all that can be in flight is
\* the next login.
NothingComesBack ==
  out = "quiet" =>
    /\ store = ClearedStore /\ ls = ClearedStorage
    /\ \A c \in Calls : calls[c].st # "idle" =>
                          calls[c].st = "sent" /\ calls[c].kind = "login"

\* Why sessions do not mix: the requests in flight carry credentials of the
\* one user that is present.
OneOwner ==
  ~overlap =>
    \E w \in Owner :
      /\ Present \subseteq {w}
      /\ \A c \in Calls : calls[c].st # "idle" /\ calls[c].kind # "login" =>
                            {calls[c].as, calls[c].cred} \subseteq {w, Nobody}

IInv == TypeOK /\ SingleFlight /\ SendsCounted /\ NothingComesBack /\ OneOwner

\* A call that is sent has its type.
LEMMA SentTyped ==
  ASSUME TypeOK, NEW c \in Calls, NEW kind \in Kinds, NEW cred \in Owner,
         NEW storage, storage.auth_token \in Owner,
         Send(c, kind, cred, storage)
  PROVE  calls' \in [Calls -> Call]
<1>1. Sent(kind, cred, storage) \in Call
  BY DEF Sent, Idle, Call
<1> QED BY <1>1 DEF Send, TypeOK

\* So has one that is over.
LEMMA IdleTyped ==
  /\ Idle \in Call
  /\ ClearedStore \in [token : Owner, user : Owner, refresh : Owner,
                       expires : BOOLEAN, interval : BOOLEAN, timer : BOOLEAN]
  /\ ClearedStorage \in [auth_token : Owner, refresh_token : Owner,
                         auth_user : Owner, expires : BOOLEAN]
BY DEF Idle, Call, Kinds, Owner, ClearedStore, ClearedStorage

\* A request sent again, field by field.
LEMMA ResentFields ==
  ASSUME NEW call \in Call, NEW u \in Owner
  PROVE  /\ Resent(call, u) \in Call
         /\ Resent(call, u).st = "sent" /\ Resent(call, u).retried = TRUE
         /\ Resent(call, u).sends = call.sends + 1
         /\ Resent(call, u).kind = call.kind
         /\ Resent(call, u).as = u /\ Resent(call, u).cred = call.cred
<1>1. Resent(call, u) \in Call
  <2> DEFINE a == [call EXCEPT !.st = "sent"]
             b == [a EXCEPT !.as = u]
             d == [b EXCEPT !.retried = TRUE]
  <2>1. a \in Call
    BY DEF Call
  <2>2. b \in Call
    BY <2>1 DEF Call
  <2>3. d \in Call /\ d.sends = call.sends
    BY <2>2 DEF Call
  <2>4. [d EXCEPT !.sends = call.sends + 1] \in Call
    <3> HIDE DEF d
    <3> QED BY <2>3 DEF Call
  <2> QED BY <2>4 DEF Resent, Call
<1>2. Resent(call, u).st = "sent" /\ Resent(call, u).retried = TRUE
  BY DEF Resent, Call
<1>3. Resent(call, u).sends = call.sends + 1
  BY DEF Resent, Call
<1>4. Resent(call, u).kind = call.kind
  BY DEF Resent, Call
<1>5. Resent(call, u).as = u /\ Resent(call, u).cred = call.cred
  BY DEF Resent, Call
<1> QED BY <1>1, <1>2, <1>3, <1>4, <1>5

\* A step that adds nobody to the page and gives no request the credentials
\* of somebody who is not present keeps sessions apart.
LEMMA OwnerKept ==
  ASSUME OneOwner, overlap => overlap',
         Present' \subseteq Present \cup
           UNION {{calls[c].as, calls[c].cred} \ {Nobody} :
                  c \in {d \in Calls : calls[d].st # "idle" /\ calls[d].kind # "login"}},
         \A c \in Calls : calls'[c].st # "idle" /\ calls'[c].kind # "login" =>
           \/ calls[c].st # "idle" /\ calls[c].kind # "login"
              /\ {calls'[c].as, calls'[c].cred} \subseteq
                   {calls[c].as, calls[c].cred, Nobody} \cup Present
           \/ {calls'[c].as, calls'[c].cred} \subseteq Present \cup {Nobody}
  PROVE  OneOwner'
BY DEF OneOwner

\* What the callers do with a rejection: both the store and localStorage stay
\* or are cleared, and a quiet logout leaves nothing in flight.
LEMMA RejectedEffect ==
  ASSUME TypeOK, NEW cs \in SUBSET Calls, NEW status,
         NEW storage \in {ls, ClearedStorage}, Rejected(cs, status, storage)
  PROVE  /\ store' \in {store, ClearedStore}
         /\ ls' \in {ls, ClearedStorage}
         /\ out' \in {"no", "quiet", "busy"} /\ overlap' \in BOOLEAN
         /\ overlap => overlap'
         /\ Present' \subseteq Present
         /\ out' = "quiet" => \/ out = "quiet"
                             \/ /\ store' = ClearedStore
                                /\ ls' = ClearedStorage
                                /\ InFlight \subseteq cs
<1>1. /\ store' \in {store, ClearedStore}
      /\ ls' \in {ls, ClearedStorage}
      /\ out' \in {"no", "quiet", "busy"} /\ overlap' \in BOOLEAN
      /\ overlap => overlap'
  BY DEF Rejected, ClearAuth, TypeOK
<1>2. Present' \subseteq Present
  BY <1>1 DEF Present, ClearedStore, ClearedStorage
<1>3. out' = "quiet" => \/ out = "quiet"
                        \/ /\ store' = ClearedStore
                           /\ ls' = ClearedStorage
                           /\ InFlight \subseteq cs
  BY DEF Rejected, ClearAuth
<1> QED BY <1>1, <1>2, <1>3

\* The invariant and each operation in turn: a view's request, ...
LEMMA SendDataKeeps ==
  ASSUME IInv, NEW c \in Calls, SendData(c)
  PROVE  IInv'
<1> USE SessionAssumption
<1>1. TypeOK'
    BY SentTyped DEF IInv, TypeOK, SendData, Kinds, Owner
<1>2. SingleFlight'
    BY DEF IInv, TypeOK, SingleFlight, SendData, Send, Sent, Idle
<1>3. SendsCounted'
    BY DEF IInv, TypeOK, SendsCounted, SendData, Send, Sent, Idle
<1>4. NothingComesBack'
    BY DEF IInv, TypeOK, NothingComesBack, SendData, Send, Sent, Idle,
     isAuthenticated, ClearedStore
<1>5. OneOwner'
    BY OwnerKept DEF IInv, TypeOK, SendData, Send, Sent, Idle, Present
<1> QED BY <1>1, <1>2, <1>3, <1>4, <1>5 DEF IInv

\* ... the timer that refreshes the user, ...
LEMMA AutoRefreshKeeps ==
  ASSUME IInv, NEW c \in Calls, AutoRefresh(c)
  PROVE  IInv'
<1> USE SessionAssumption
<1>1. TypeOK'
    BY SentTyped DEF IInv, TypeOK, AutoRefresh, Kinds, Owner
<1>2. SingleFlight'
    BY DEF IInv, TypeOK, SingleFlight, AutoRefresh, Send, Sent, Idle
<1>3. SendsCounted'
    BY DEF IInv, TypeOK, SendsCounted, AutoRefresh, Send, Sent, Idle
<1>4. NothingComesBack'
    BY DEF IInv, TypeOK, NothingComesBack, AutoRefresh, Send, Sent, Idle,
     ClearedStore
<1>5. OneOwner'
    BY OwnerKept DEF IInv, TypeOK, AutoRefresh, Send, Sent, Idle, Present
<1> QED BY <1>1, <1>2, <1>3, <1>4, <1>5 DEF IInv

\* ... the timer that refreshes the token, ...
LEMMA TokenTimerKeeps ==
  ASSUME IInv, NEW c \in Calls, TokenTimer(c)
  PROVE  IInv'
<1> USE SessionAssumption
<1>0. \/ UNCHANGED calls
      \/ /\ calls[c].st = "idle"
         /\ calls' = [calls EXCEPT ![c] = Sent("refresh", ls.refresh_token, ls)]
  BY DEF TokenTimer, Send
<1>1. TypeOK'
    BY SentTyped DEF IInv, TypeOK, TokenTimer, Kinds, Owner
<1>2. SingleFlight'
  <2>1. UNCHANGED <<isRefreshing, refreshSubscribers>>
    BY DEF TokenTimer
  <2>2. CASE UNCHANGED calls
    BY <2>1, <2>2 DEF IInv, SingleFlight
  <2>3. CASE /\ calls[c].st = "idle"
             /\ calls' = [calls EXCEPT ![c] = Sent("refresh", ls.refresh_token, ls)]
    BY <2>1, <2>3 DEF Sent, Idle, IInv, TypeOK, SingleFlight
  <2> QED BY <1>0, <2>2, <2>3
<1>3. SendsCounted'
  <2>1. CASE UNCHANGED calls
    BY <2>1 DEF IInv, SendsCounted
  <2>2. CASE /\ calls[c].st = "idle"
             /\ calls' = [calls EXCEPT ![c] = Sent("refresh", ls.refresh_token, ls)]
    BY <2>2 DEF Sent, Idle, IInv, TypeOK, SendsCounted
  <2> QED BY <1>0, <2>1, <2>2
<1>4. NothingComesBack'
    BY DEF IInv, TypeOK, NothingComesBack, TokenTimer, Send, Sent, Idle,
     ClearedStore
<1>5. OneOwner'
  <2>1. CASE UNCHANGED calls
    BY <2>1, OwnerKept DEF IInv, TokenTimer, Present
  <2>2. CASE /\ calls[c].st = "idle"
             /\ calls' = [calls EXCEPT ![c] = Sent("refresh", ls.refresh_token, ls)]
    BY <2>2, OwnerKept DEF IInv, TypeOK, TokenTimer, Present, Sent, Idle
  <2> QED BY <1>0, <2>1, <2>2
<1> QED BY <1>1, <1>2, <1>3, <1>4, <1>5 DEF IInv

\* ... a login, ...
LEMMA LoginKeeps ==
  ASSUME IInv, NEW c \in Calls, NEW u \in Users, Login(c, u)
  PROVE  IInv'
<1> USE SessionAssumption
<1>1. TypeOK'
    BY SentTyped DEF IInv, TypeOK, Login, Kinds, Owner
<1>2. SingleFlight'
    BY DEF IInv, TypeOK, SingleFlight, Login, Send, Sent, Idle
<1>3. SendsCounted'
    BY DEF IInv, TypeOK, SendsCounted, Login, Send, Sent, Idle
<1>4. NothingComesBack'
    BY DEF IInv, TypeOK, NothingComesBack, Login, Send, Sent, Idle
<1>5. OneOwner'
    BY OwnerKept DEF IInv, TypeOK, Login, Send, Sent, Idle, Present
<1> QED BY <1>1, <1>2, <1>3, <1>4, <1>5 DEF IInv

\* ... an OAuth login, ...
LEMMA SetTokenKeeps ==
  ASSUME IInv, NEW c \in Calls, NEW u \in Users, NEW given \in BOOLEAN, SetToken(c, u, given)
  PROVE  IInv'
<1> USE SessionAssumption
<1>1. TypeOK'
    BY SentTyped DEF IInv, TypeOK, SetToken, Kinds, Owner
<1>2. SingleFlight'
    BY DEF IInv, TypeOK, SingleFlight, SetToken, Send, Sent, Idle
<1>3. SendsCounted'
    BY DEF IInv, TypeOK, SendsCounted, SetToken, Send, Sent, Idle
<1>4. NothingComesBack'
    BY DEF IInv, TypeOK, NothingComesBack, SetToken, Send, Sent, Idle
<1>5. OneOwner'
  <2> SUFFICES ASSUME ~overlap'
               PROVE  /\ Present' \subseteq {u}
                      /\ \A d \in Calls :
                           calls'[d].st # "idle" /\ calls'[d].kind # "login" =>
                             {calls'[d].as, calls'[d].cred} \subseteq {u, Nobody}
    BY DEF OneOwner, Owner
  <2>1. InFlight = {} /\ Present \subseteq {u}
    BY DEF SetToken
  <2>2. {store'.refresh, ls'.refresh_token, ls'.auth_user} \subseteq {u, Nobody}
    BY <2>1 DEF SetToken, Present, IInv, TypeOK
  <2>3. Present' \subseteq {u}
    BY <2>2 DEF SetToken, Present, IInv, TypeOK
  <2>4. \A d \in Calls : calls[d].st = "idle"
    BY <2>1 DEF InFlight
  <2>5. calls'[c].as = u /\ calls'[c].cred = ls'.refresh_token
    BY DEF SetToken, Send, Sent, Idle, IInv, TypeOK
  <2>6. \A d \in Calls : d # c => calls'[d] = calls[d]
    BY DEF SetToken, Send, IInv, TypeOK
  <2> QED BY <2>2, <2>3, <2>4, <2>5, <2>6
<1> QED BY <1>1, <1>2, <1>3, <1>4, <1>5 DEF IInv

\* ... a logout that is sent, ...
LEMMA LogoutKeeps ==
  ASSUME IInv, NEW c \in Calls, Logout(c)
  PROVE  IInv'
<1> USE SessionAssumption
<1>0. \/ /\ calls[c].st = "idle"
         /\ calls' = [calls EXCEPT ![c] = Sent("logout", ls.refresh_token, ls)]
         /\ UNCHANGED <<store, ls, out, overlap>>
      \/ LogoutDone(c) /\ UNCHANGED calls
  BY DEF Logout, Send
<1>1. TypeOK'
    BY SentTyped, IdleTyped DEF IInv, TypeOK, Logout, LogoutDone, ClearAuth,
     Kinds, Owner
<1>2. SingleFlight'
  <2>1. UNCHANGED <<isRefreshing, refreshSubscribers>>
    BY DEF Logout
  <2>2. CASE UNCHANGED calls
    BY <2>1, <2>2 DEF IInv, SingleFlight
  <2>3. CASE /\ calls[c].st = "idle"
             /\ calls' = [calls EXCEPT ![c] = Sent("logout", ls.refresh_token, ls)]
    BY <2>1, <2>3 DEF Sent, Idle, IInv, TypeOK, SingleFlight
  <2> QED BY <1>0, <2>2, <2>3
<1>3. SendsCounted'
  <2>1. CASE UNCHANGED calls
    BY <2>1 DEF IInv, SendsCounted
  <2>2. CASE /\ calls[c].st = "idle"
             /\ calls' = [calls EXCEPT ![c] = Sent("logout", ls.refresh_token, ls)]
    BY <2>2 DEF Sent, Idle, IInv, TypeOK, SendsCounted
  <2> QED BY <1>0, <2>1, <2>2
<1>4. NothingComesBack'
    BY DEF IInv, TypeOK, NothingComesBack, Logout, LogoutDone, ClearAuth,
     Send, Sent, Idle, Others, InFlight, isAuthenticated, ClearedStore
<1>5. OneOwner'
  <2>1. CASE /\ calls[c].st = "idle"
             /\ calls' = [calls EXCEPT ![c] = Sent("logout", ls.refresh_token, ls)]
             /\ UNCHANGED <<store, ls, out, overlap>>
    BY <2>1, OwnerKept DEF IInv, TypeOK, Present, Sent, Idle
  <2>2. CASE LogoutDone(c) /\ UNCHANGED calls
    BY <2>2, OwnerKept DEF IInv, LogoutDone, ClearAuth, ClearedStore,
       ClearedStorage, Present
  <2> QED BY <1>0, <2>1, <2>2
<1> QED BY <1>1, <1>2, <1>3, <1>4, <1>5 DEF IInv

\* ... an answer, ...
LEMMA RespondOkKeeps ==
  ASSUME IInv, NEW c \in Calls, RespondOk(c)
  PROVE  IInv'
<1> USE SessionAssumption
<1>0. \/ MeOk(c) \/ OAuthMeOk(c) \/ DataOk(c) \/ RefreshTokenOk(c)
      \/ LogoutOk(c) \/ LoginOk(c) \/ LoginChallenge(c)
  BY DEF RespondOk
<1>a. /\ calls[c] \in Call /\ calls[c].st = "sent"
      /\ calls'[c].st = "idle"
      /\ \A d \in Calls : d # c => calls'[d] = calls[d]
  BY DEF RespondOk, Answered, Idle, IInv, TypeOK
<1>1. TypeOK'
  <2>1. calls' \in [Calls -> Call]
    BY IdleTyped DEF RespondOk, Answered, IInv, TypeOK
  <2>2. UNCHANGED <<isRefreshing, refreshSubscribers, onLogin, leaving>>
    BY DEF RespondOk
  <2>3. CASE MeOk(c)
    BY <1>a, <2>1, <2>2, <2>3 DEF MeOk, Call, Owner, IInv, TypeOK
  <2>4. CASE OAuthMeOk(c)
    BY <1>a, <2>1, <2>2, <2>4 DEF OAuthMeOk, Call, Owner, IInv, TypeOK
  <2>5. CASE DataOk(c)
    BY <1>a, <2>1, <2>2, <2>5 DEF DataOk, Call, Owner, IInv, TypeOK
  <2>6. CASE RefreshTokenOk(c)
    BY <1>a, <2>1, <2>2, <2>6 DEF RefreshTokenOk, Call, Owner, IInv, TypeOK
  <2>7. CASE LogoutOk(c)
    BY <1>a, <2>1, <2>2, <2>7, IdleTyped DEF LogoutOk, LogoutDone, ClearAuth, Call, Owner, IInv, TypeOK
  <2>8. CASE LoginOk(c)
    BY <1>a, <2>1, <2>2, <2>8 DEF LoginOk, SetAuth, Call, Owner, IInv, TypeOK
  <2>9. CASE LoginChallenge(c)
    BY <1>a, <2>1, <2>2, <2>9 DEF LoginChallenge, Call, Owner, IInv, TypeOK
  <2> QED BY <1>0, <2>3, <2>4, <2>5, <2>6, <2>7, <2>8, <2>9
<1>2. SingleFlight'
    BY DEF IInv, TypeOK, SingleFlight, RespondOk, Answered, Idle
<1>3. SendsCounted'
    BY DEF IInv, TypeOK, SendsCounted, RespondOk, Answered, Idle
<1>4. NothingComesBack'
    BY DEF IInv, TypeOK, NothingComesBack, RespondOk, Answered, MeOk,
     OAuthMeOk, DataOk, RefreshTokenOk, LogoutOk, LoginOk, LoginChallenge,
     SetAuth, LogoutDone, ClearAuth, Idle, Others, InFlight
<1>5. OneOwner'
  <2>1. CASE MeOk(c)
    BY <1>a, <2>1, OwnerKept DEF MeOk, Present, IInv, TypeOK
  <2>2. CASE OAuthMeOk(c)
    BY <1>a, <2>2, OwnerKept DEF OAuthMeOk, Present, IInv, TypeOK
  <2>3. CASE DataOk(c)
    BY <1>a, <2>3, OwnerKept DEF DataOk, Present, IInv, TypeOK
  <2>4. CASE RefreshTokenOk(c)
    BY <1>a, <2>4, OwnerKept DEF RefreshTokenOk, Present, IInv, TypeOK
  <2>5. CASE LogoutOk(c)
    BY <1>a, <2>5, OwnerKept DEF LogoutOk, LogoutDone, ClearAuth, ClearedStore, ClearedStorage, Present, IInv, TypeOK
  <2>6. CASE LoginOk(c)
    <3> DEFINE u == calls[c].cred
    <3>1. PICK given \in BOOLEAN :
            /\ SetAuth(u, given)
            /\ overlap' = (overlap \/ Others(c) # {} \/ KeepsRemains(u, given))
      BY <2>6 DEF LoginOk
    <3> SUFFICES ASSUME ~overlap'
                 PROVE  /\ Present' \subseteq {u}
                        /\ \A d \in Calls : calls'[d].st = "idle"
      BY <1>a DEF OneOwner, Call
    <3>2. \A d \in Calls : calls'[d].st = "idle"
      BY <1>a, <3>1 DEF Others, InFlight
    <3>3. {store'.refresh, ls'.refresh_token} \subseteq {u, Nobody}
      BY <3>1 DEF SetAuth, KeepsRemains, IInv, TypeOK
    <3> QED BY <3>1, <3>2, <3>3 DEF SetAuth, Present, IInv, TypeOK
  <2>7. CASE LoginChallenge(c)
    BY <1>a, <2>7, OwnerKept DEF LoginChallenge, Present, IInv, TypeOK
  <2> QED BY <1>0, <2>1, <2>2, <2>3, <2>4, <2>5, <2>6, <2>7
<1> QED BY <1>1, <1>2, <1>3, <1>4, <1>5 DEF IInv

\* ... an error, ...
LEMMA RespondErrorKeeps ==
  ASSUME IInv, NEW c \in Calls, calls[c].st = "sent", RespondError(c)
  PROVE  IInv'
<1> USE SessionAssumption
<1>1. TypeOK'
    BY IdleTyped, RejectedEffect DEF IInv, TypeOK, RespondError, Answered
<1>2. SingleFlight'
    BY DEF IInv, TypeOK, SingleFlight, RespondError, Answered, Idle
<1>3. SendsCounted'
    BY DEF IInv, TypeOK, SendsCounted, RespondError, Answered, Idle
<1>4. NothingComesBack'
  <2>1. out' = "quiet" => \/ out = "quiet"
                          \/ /\ store' = ClearedStore
                             /\ ls' = ClearedStorage
                             /\ InFlight \subseteq {c}
    BY RejectedEffect DEF IInv, RespondError
  <2>2. store' \in {store, ClearedStore} /\ ls' \in {ls, ClearedStorage}
    BY RejectedEffect DEF IInv, RespondError
  <2>3. /\ calls'[c].st = "idle"
        /\ \A d \in Calls : d # c => calls'[d] = calls[d]
    BY DEF RespondError, Answered, Idle, IInv, TypeOK
  <2> QED BY <2>1, <2>2, <2>3 DEF NothingComesBack, InFlight, IInv
<1>5. OneOwner'
    BY RejectedEffect, OwnerKept DEF IInv, TypeOK, RespondError, Answered,
     Idle
<1> QED BY <1>1, <1>2, <1>3, <1>4, <1>5 DEF IInv

\* ... a 401 that is passed on, ...
LEMMA Reject401Keeps ==
  ASSUME IInv, NEW c \in Calls, calls[c].st = "sent", Reject401(c)
  PROVE  IInv'
<1> USE SessionAssumption
<1>1. TypeOK'
    BY IdleTyped, RejectedEffect DEF IInv, TypeOK, Reject401, Answered
<1>2. SingleFlight'
    BY DEF IInv, TypeOK, SingleFlight, Reject401, Answered, Idle
<1>3. SendsCounted'
    BY DEF IInv, TypeOK, SendsCounted, Reject401, Answered, Idle
<1>4. NothingComesBack'
  <2>1. out' = "quiet" => \/ out = "quiet"
                          \/ /\ store' = ClearedStore
                             /\ ls' = ClearedStorage
                             /\ InFlight \subseteq {c}
    BY RejectedEffect DEF IInv, Reject401
  <2>2. store' \in {store, ClearedStore} /\ ls' \in {ls, ClearedStorage}
    BY RejectedEffect DEF IInv, Reject401
  <2>3. /\ calls'[c].st = "idle"
        /\ \A d \in Calls : d # c => calls'[d] = calls[d]
    BY DEF Reject401, Answered, Idle, IInv, TypeOK
  <2> QED BY <2>1, <2>2, <2>3 DEF NothingComesBack, InFlight, IInv
<1>5. OneOwner'
    BY RejectedEffect, OwnerKept DEF IInv, TypeOK, Reject401, Answered, Idle
<1> QED BY <1>1, <1>2, <1>3, <1>4, <1>5 DEF IInv

\* ... one that ends the session, ...
LEMMA SessionOverKeeps ==
  ASSUME IInv, NEW c \in Calls, calls[c].st = "sent", SessionOver(c)
  PROVE  IInv'
<1> USE SessionAssumption
<1>1. TypeOK'
    BY IdleTyped, RejectedEffect DEF IInv, TypeOK, SessionOver, Answered,
     Redirect
<1>2. SingleFlight'
    BY DEF IInv, TypeOK, SingleFlight, SessionOver, Answered, Redirect, Idle
<1>3. SendsCounted'
    BY DEF IInv, TypeOK, SendsCounted, SessionOver, Answered, Redirect, Idle
<1>4. NothingComesBack'
  <2>1. out' = "quiet" => \/ out = "quiet"
                          \/ /\ store' = ClearedStore
                             /\ ls' = ClearedStorage
                             /\ InFlight \subseteq {c}
    BY RejectedEffect DEF IInv, SessionOver
  <2>2. store' \in {store, ClearedStore} /\ ls' \in {ls, ClearedStorage}
    BY RejectedEffect DEF IInv, SessionOver
  <2>3. /\ calls'[c].st = "idle"
        /\ \A d \in Calls : d # c => calls'[d] = calls[d]
    BY DEF SessionOver, Answered, Idle, IInv, TypeOK
  <2> QED BY <2>1, <2>2, <2>3 DEF NothingComesBack, InFlight, IInv
<1>5. OneOwner'
    BY RejectedEffect, OwnerKept DEF IInv, TypeOK, SessionOver, Answered,
     Redirect, Idle
<1> QED BY <1>1, <1>2, <1>3, <1>4, <1>5 DEF IInv

\* ... one that waits for a refresh under way, ...
LEMMA SubscribeKeeps ==
  ASSUME IInv, NEW c \in Calls, calls[c].st = "sent", Subscribe(c)
  PROVE  IInv'
<1> USE SessionAssumption
<1>1. TypeOK'
    BY DEF IInv, TypeOK, Subscribe, Call
<1>2. SingleFlight'
    BY DEF IInv, TypeOK, SingleFlight, Subscribe
<1>3. SendsCounted'
    BY DEF IInv, TypeOK, SendsCounted, Subscribe, CanRefresh, IsAuthEndpoint
<1>4. NothingComesBack'
    BY DEF IInv, TypeOK, NothingComesBack, Subscribe, CanRefresh,
     IsAuthEndpoint
<1>5. OneOwner'
    BY OwnerKept DEF IInv, TypeOK, Subscribe, Present
<1> QED BY <1>1, <1>2, <1>3, <1>4, <1>5 DEF IInv

\* ... one that starts it, ...
LEMMA StartRefreshKeeps ==
  ASSUME IInv, NEW c \in Calls, calls[c].st = "sent", StartRefresh(c)
  PROVE  IInv'
<1> USE SessionAssumption
<1>1. TypeOK'
    BY DEF IInv, TypeOK, StartRefresh, Call, Owner
<1>2. SingleFlight'
    BY DEF IInv, TypeOK, SingleFlight, StartRefresh
<1>3. SendsCounted'
    BY DEF IInv, TypeOK, SendsCounted, StartRefresh, CanRefresh,
     IsAuthEndpoint
<1>4. NothingComesBack'
    BY DEF IInv, TypeOK, NothingComesBack, StartRefresh, CanRefresh,
     IsAuthEndpoint
<1>5. OneOwner'
    BY OwnerKept DEF IInv, TypeOK, StartRefresh, Present, CanRefresh,
     IsAuthEndpoint
<1> QED BY <1>1, <1>2, <1>3, <1>4, <1>5 DEF IInv

\* ... the refresh that succeeds ...
LEMMA RefreshOkKeeps ==
  ASSUME IInv, NEW c \in Calls, RefreshOk(c)
  PROVE  IInv'
<1> USE SessionAssumption
<1>0. /\ calls[c] \in Call /\ calls[c].st = "refreshing"
      /\ ls' = [ls EXCEPT !.auth_token = calls[c].cred,
                          !.refresh_token = calls[c].cred, !.expires = TRUE]
      /\ calls' = [d \in Calls |->
                     IF d \in refreshSubscribers \cup {c}
                     THEN Resent(calls[d], calls[c].cred) ELSE calls[d]]
      /\ isRefreshing' = FALSE /\ refreshSubscribers' = {}
      /\ UNCHANGED <<store, onLogin, leaving, out, overlap>>
  BY DEF RefreshOk, IInv, TypeOK
<1>a. \A d \in Calls :
        /\ calls[d] \in Call
        /\ d \notin refreshSubscribers \cup {c} => calls'[d] = calls[d]
        /\ d \in refreshSubscribers \cup {c} =>
             /\ calls'[d] \in Call
             /\ calls'[d].st = "sent" /\ calls'[d].retried = TRUE
             /\ calls'[d].sends = calls[d].sends + 1
             /\ calls'[d].kind = calls[d].kind
             /\ calls'[d].as = calls[c].cred /\ calls'[d].cred = calls[d].cred
  <2> SUFFICES ASSUME NEW d \in Calls
               PROVE  /\ calls[d] \in Call
                      /\ d \notin refreshSubscribers \cup {c} => calls'[d] = calls[d]
                      /\ d \in refreshSubscribers \cup {c} =>
                           calls'[d] = Resent(calls[d], calls[c].cred)
    <3>1. calls[c].cred \in Owner
      BY <1>0 DEF Call
    <3>2. \A d \in Calls : calls[d] \in Call
      BY DEF IInv, TypeOK
    <3>3. \A d \in Calls :
            /\ Resent(calls[d], calls[c].cred) \in Call
            /\ Resent(calls[d], calls[c].cred).st = "sent"
            /\ Resent(calls[d], calls[c].cred).retried = TRUE
            /\ Resent(calls[d], calls[c].cred).sends = calls[d].sends + 1
            /\ Resent(calls[d], calls[c].cred).kind = calls[d].kind
            /\ Resent(calls[d], calls[c].cred).as = calls[c].cred
            /\ Resent(calls[d], calls[c].cred).cred = calls[d].cred
      BY <3>1, <3>2, ResentFields
    <3> QED BY <3>2, <3>3
  <2> QED BY <1>0 DEF IInv, TypeOK
<1>b. \A d \in Calls : d \in refreshSubscribers \cup {c}
                      <=> calls[d].st \in {"waiting", "refreshing"}
  BY <1>0 DEF IInv, SingleFlight
<1>1. TypeOK'
    BY <1>0, <1>a DEF IInv, TypeOK, Call, Owner
<1>2. SingleFlight'
    BY <1>0, <1>a, <1>b DEF IInv, TypeOK, SingleFlight, Call
<1>3. SendsCounted'
    BY <1>0, <1>a, <1>b DEF IInv, TypeOK, SendsCounted, Call
<1>4. NothingComesBack'
    BY <1>0, <1>a DEF IInv, TypeOK, NothingComesBack, Call
<1>5. OneOwner'
  <2>1. OneOwner /\ (overlap => overlap')
    BY <1>0 DEF IInv
  <2>2. SUFFICES ASSUME ~overlap PROVE OneOwner'
    BY <2>1, <1>0 DEF OneOwner
  <2>3. PICK w \in Owner :
          /\ Present \subseteq {w}
          /\ \A d \in Calls : calls[d].st # "idle" /\ calls[d].kind # "login" =>
                              {calls[d].as, calls[d].cred} \subseteq {w, Nobody}
    BY <2>1, <2>2 DEF OneOwner
  <2>4. calls[c].kind # "login"
    BY <1>0 DEF IInv, SendsCounted
  <2>5. calls[c].cred \in {w, Nobody}
    BY <1>0, <2>3, <2>4
  <2>6. Present' \subseteq {w}
    BY <1>0, <2>3, <2>5 DEF Present, IInv, TypeOK
  <2>7. \A d \in Calls : calls'[d].st # "idle" /\ calls'[d].kind # "login" =>
                         {calls'[d].as, calls'[d].cred} \subseteq {w, Nobody}
    BY <1>a, <1>b, <2>3, <2>5
  <2> QED BY <2>6, <2>7 DEF OneOwner
<1> QED BY <1>1, <1>2, <1>3, <1>4, <1>5 DEF IInv

\* ... or fails, ...
LEMMA RefreshFailsKeeps ==
  ASSUME IInv, NEW c \in Calls, RefreshFails(c)
  PROVE  IInv'
<1> USE SessionAssumption
<1>1. TypeOK'
    BY IdleTyped, RejectedEffect DEF IInv, TypeOK, RefreshFails, Redirect
<1>2. SingleFlight'
    BY DEF IInv, TypeOK, SingleFlight, RefreshFails, Redirect, Idle
<1>3. SendsCounted'
    BY DEF IInv, TypeOK, SendsCounted, RefreshFails, Redirect, Idle
<1>4. NothingComesBack'
    BY RejectedEffect DEF IInv, TypeOK, NothingComesBack, RefreshFails,
     Redirect, Idle, InFlight
<1>5. OneOwner'
    BY RejectedEffect, OwnerKept DEF IInv, TypeOK, RefreshFails, Redirect,
     Idle
<1> QED BY <1>1, <1>2, <1>3, <1>4, <1>5 DEF IInv

\* ... checkAuth, ...
LEMMA CheckAuthKeeps ==
  ASSUME IInv, NEW c \in Calls, CheckAuth(c)
  PROVE  IInv'
<1> USE SessionAssumption
<1>1. TypeOK'
    BY SentTyped DEF IInv, TypeOK, CheckAuth, Restorable, Restored, Kinds,
     Owner
<1>2. SingleFlight'
    BY DEF IInv, TypeOK, SingleFlight, CheckAuth, Restorable, Restored, Send,
     Sent, Idle
<1>3. SendsCounted'
    BY DEF IInv, TypeOK, SendsCounted, CheckAuth, Restorable, Restored, Send,
     Sent, Idle
<1>4. NothingComesBack'
    BY DEF IInv, TypeOK, NothingComesBack, CheckAuth, Restorable, Restored,
     Send, Sent, Idle, ClearedStorage
<1>5. OneOwner'
    BY OwnerKept DEF IInv, TypeOK, CheckAuth, Restorable, Restored, Send,
     Sent, Idle, Present
<1> QED BY <1>1, <1>2, <1>3, <1>4, <1>5 DEF IInv

\* ... a reload ...
LEMMA ReloadKeeps ==
  ASSUME IInv, NEW c \in Calls, Reload(c)
  PROVE  IInv'
<1> USE SessionAssumption
<1>0. /\ isRefreshing' = FALSE /\ refreshSubscribers' = {} /\ leaving' = FALSE
      /\ UNCHANGED <<ls, out, overlap>>
      /\ \/ /\ Restorable
            /\ store' = Restored(ClearedStore) /\ onLogin' = FALSE
            /\ calls' = [d \in Calls |->
                           IF d = c THEN Sent("me", Nobody, ls) ELSE Idle]
         \/ /\ ~Restorable /\ store' = ClearedStore
            /\ onLogin' \in BOOLEAN
            /\ calls' = [d \in Calls |-> Idle]
  BY DEF Reload, IInv, TypeOK
<1>a. \A d \in Calls :
        /\ calls'[d].st \in {"idle", "sent"} /\ ~calls'[d].retried
        /\ calls'[d].st = "idle" => calls'[d].sends = 0
        /\ calls'[d].st = "sent" =>
             /\ Restorable /\ calls'[d].sends = 1
             /\ calls'[d].as = ls.auth_token /\ calls'[d].cred = Nobody
  <2>1. CASE Restorable
    <3>1. /\ Sent("me", Nobody, ls).st = "sent"
          /\ Sent("me", Nobody, ls).sends = 1
          /\ Sent("me", Nobody, ls).retried = FALSE
          /\ Sent("me", Nobody, ls).as = ls.auth_token
          /\ Sent("me", Nobody, ls).cred = Nobody
      BY DEF Sent, Idle
    <3>2. Idle.st = "idle" /\ Idle.sends = 0 /\ Idle.retried = FALSE
      BY DEF Idle
    <3>3. \A d \in Calls : calls'[d] \in {Idle, Sent("me", Nobody, ls)}
      BY <1>0, <2>1
    <3> QED BY <2>1, <3>1, <3>2, <3>3
  <2>2. CASE ~Restorable
    BY <1>0, <2>2 DEF Idle
  <2> QED BY <2>1, <2>2
<1>1. TypeOK'
  <2>1. Sent("me", Nobody, ls) \in Call
    BY DEF Sent, Idle, Call, Kinds, Owner, IInv, TypeOK
  <2>2. Restored(ClearedStore) \in [token : Owner, user : Owner, refresh : Owner,
                                  expires : BOOLEAN, interval : BOOLEAN,
                                  timer : BOOLEAN]
    BY DEF Restored, ClearedStore, IInv, TypeOK
  <2> QED BY <1>0, <2>1, <2>2, IdleTyped DEF IInv, TypeOK
<1>2. SingleFlight'
    BY <1>0, <1>a DEF IInv, TypeOK, SingleFlight, Idle
<1>3. SendsCounted'
    BY <1>a DEF IInv, TypeOK, SendsCounted, Idle
<1>4. NothingComesBack'
    BY <1>0, <1>a DEF IInv, TypeOK, NothingComesBack, Idle, Restorable,
     ClearedStorage
<1>5. OneOwner'
  <2>1. Present' \subseteq Present
    <3>1. CASE Restorable
      <4>1. store' = [store' EXCEPT !.token = ls.auth_token, !.user = ls.auth_user,
                                    !.refresh = ls.refresh_token]
        BY <1>0, <3>1 DEF Restored, ClearedStore
      <4> QED BY <1>0, <3>1 DEF Restored, ClearedStore, Present
    <3>2. CASE ~Restorable
      BY <1>0, <3>2 DEF ClearedStore, Present
    <3> QED BY <3>1, <3>2
  <2>2. \A d \in Calls : calls'[d].st # "idle" =>
          {calls'[d].as, calls'[d].cred} \subseteq Present \cup {Nobody}
    BY <1>a DEF Present
  <2> QED BY <1>0, <2>1, <2>2, OwnerKept DEF IInv
<1> QED BY <1>1, <1>2, <1>3, <1>4, <1>5 DEF IInv

\* ... and a navigation.
LEMMA NavigateKeeps == IInv /\ Navigate => IInv'
<1> SUFFICES ASSUME IInv, Navigate PROVE IInv'
  OBVIOUS
<1>1. /\ UNCHANGED <<calls, isRefreshing, refreshSubscribers, store, ls, leaving,
                    out, overlap>>
      /\ onLogin' \in BOOLEAN
  BY DEF Navigate
<1>2. TypeOK'
  BY <1>1 DEF IInv, TypeOK
<1>3. SingleFlight' /\ SendsCounted' /\ NothingComesBack'
  BY <1>1 DEF IInv, SingleFlight, SendsCounted, NothingComesBack
<1>4. OneOwner'
  BY <1>1 DEF IInv, OneOwner, Present
<1> QED BY <1>2, <1>3, <1>4 DEF IInv

\* Nothing happens.
LEMMA StutterKeeps == IInv /\ UNCHANGED vars => IInv'
BY DEF vars, IInv, TypeOK, SingleFlight, SendsCounted, NothingComesBack,
       OneOwner, Present

\* It holds in the beginning.
LEMMA InitHolds == Init => IInv
<1> SUFFICES ASSUME Init PROVE IInv
  OBVIOUS
<1>1. TypeOK
  BY IdleTyped DEF Init, TypeOK
<1>2. SingleFlight /\ SendsCounted /\ NothingComesBack
  BY DEF Init, SingleFlight, SendsCounted, NothingComesBack, Idle
<1>3. OneOwner
  BY DEF Init, OneOwner, Present, Idle, ClearedStore, ClearedStorage, Owner
<1> QED BY <1>1, <1>2, <1>3 DEF IInv

\* Whatever the user or a timer starts keeps it, ...
LEMMA StartKeeps ==
  ASSUME IInv, NEW c \in Calls, Start(c)
  PROVE  IInv'
BY SendDataKeeps, AutoRefreshKeeps, TokenTimerKeeps, LogoutKeeps, LoginKeeps,
   SetTokenKeeps DEF Start

\* ... and whatever is answered.
LEMMA RespondKeeps ==
  ASSUME IInv, NEW c \in Calls, Respond(c)
  PROVE  IInv'
<1>1. CASE RespondOk(c)
  BY <1>1, RespondOkKeeps
<1>2. CASE RespondError(c)
  BY <1>2, RespondErrorKeeps DEF RespondError
<1>3. CASE Respond401(c)
  BY <1>3, Reject401Keeps, SessionOverKeeps, SubscribeKeeps, StartRefreshKeeps
     DEF Respond401
<1>4. CASE RefreshOk(c)
  BY <1>4, RefreshOkKeeps
<1>5. CASE RefreshFails(c)
  BY <1>5, RefreshFailsKeeps
<1> QED BY <1>1, <1>2, <1>3, <1>4, <1>5 DEF Respond

\* The inductive invariant holds in every state.
THEOREM Inductive == Spec => []IInv
<1>1. IInv /\ [Next]_vars => IInv'
  <2> SUFFICES ASSUME IInv, [Next]_vars PROVE IInv'
    OBVIOUS
  <2>1. ASSUME NEW c \in Calls,
               Start(c) \/ Respond(c) \/ CheckAuth(c) \/ Reload(c)
        PROVE  IInv'
    BY <2>1, StartKeeps, RespondKeeps, CheckAuthKeeps, ReloadKeeps
  <2>2. CASE Navigate
    BY <2>2, NavigateKeeps
  <2>3. CASE UNCHANGED vars
    BY <2>3, StutterKeeps
  <2> QED BY <2>1, <2>2, <2>3 DEF Next
<1> QED BY <1>1, InitHolds, PTL DEF Spec

\* Every variable has its type: in particular no answer without a refresh
\* token makes anything but a user or null of the stored one.
THEOREM TypeCorrect == Spec => []TypeOK
<1>1. IInv => TypeOK
  BY DEF IInv
<1> QED BY <1>1, Inductive, PTL

\* One refresh at a time, and every waiting request is one its end calls:
\* isRefreshing and refreshSubscribers of client.ts.
THEOREM RefreshedOnce == Spec => []SingleFlight
<1>1. IInv => SingleFlight
  BY DEF IInv
<1> QED BY <1>1, Inductive, PTL

\* The _retry mark of client.ts bounds every request to two sends.
THEOREM NoRetryLoop == Spec => []SentAtMostTwice
<1>1. IInv => SentAtMostTwice
  BY DEF IInv, SendsCounted, SentAtMostTwice
<1> QED BY <1>1, Inductive, PTL

\* A logout that finds nothing else in flight is final, whatever timers,
\* intervals, reloads and visits of the home page follow.
THEOREM QuietLogoutIsFinal == Spec => []QuietLogoutClears
<1>1. IInv => QuietLogoutClears
  BY DEF IInv, NothingComesBack, QuietLogoutClears
<1> QED BY <1>1, Inductive, PTL

\* The store and localStorage never mix two users unless a session began or
\* ended with a request in flight, or began beside another's remains.
THEOREM SessionsApart == Spec => []OneSession
<1>1. IInv => OneSession
  BY DEF IInv, OneOwner, OneSession
<1> QED BY <1>1, Inductive, PTL
----------------------------------------------------------------------------
(* The client implements the plain gate. *)

StageOf(call) == IF call.st = "sent" /\ call.sends > 1 THEN "again" ELSE call.st

Stages == [c \in Calls |-> Stage(c)]

\* One request changes and the others stay.
LEMMA OneStage ==
  ASSUME TypeOK, NEW c \in Calls, NEW call, calls' = [calls EXCEPT ![c] = call]
  PROVE  Stages' = [Stages EXCEPT ![c] = StageOf(call)]
<1>1. \A d \in Calls : Stage(d)' = IF d = c THEN StageOf(call) ELSE Stage(d)
  BY DEF Stage, StageOf, TypeOK
<1> QED BY <1>1 DEF Stages

\* A request that is sent by a view, a timer or the store.
LEMMA SendRefines ==
  ASSUME TypeOK, NEW c \in Calls, NEW kind, NEW cred, NEW storage,
         Send(c, kind, cred, storage)
  PROVE  Gate!Send(c)
<1>1. StageOf(Sent(kind, cred, storage)) = "sent"
  BY DEF StageOf, Sent, Idle
<1>2. Stages' = [Stages EXCEPT ![c] = "sent"]
  BY <1>1, OneStage DEF Send
<1>3. Stages[c] = "idle"
  BY DEF Stages, Stage, Send
<1> QED BY <1>2, <1>3 DEF Gate!Send, Stages

\* A request that is over for its caller.
LEMMA AnswerRefines ==
  ASSUME TypeOK, NEW c \in Calls, calls[c].st = "sent", calls' = Answered(c)
  PROVE  Gate!End(c)
<1>1. StageOf(Idle) = "idle"
  BY DEF StageOf, Idle
<1>2. Stages' = [Stages EXCEPT ![c] = "idle"]
  BY <1>1, OneStage DEF Answered
<1>3. Stages[c] \in {"sent", "again"}
  BY DEF Stages, Stage
<1> QED BY <1>2, <1>3 DEF Gate!End, Stages

\* A request that waits for the refresh, or is the one that refreshes.
LEMMA HoldRefines ==
  ASSUME IInv, NEW c \in Calls, calls[c].st = "sent", Subscribe(c) \/ StartRefresh(c)
  PROVE  Gate!Wait(c) \/ Gate!Refresh(c)
<1>1. calls[c] \in Call /\ calls[c].sends = 1
  BY DEF IInv, TypeOK, SendsCounted, Subscribe, StartRefresh
<1>2. Stages[c] = "sent"
  BY <1>1 DEF Stages, Stage
<1>3. Gate!Refreshing = {d \in Calls : calls[d].st = "refreshing"}
  BY DEF Gate!Refreshing, Stage
<1>4. isRefreshing <=> Gate!Refreshing # {}
  BY <1>3 DEF IInv, SingleFlight
<1>5. CASE Subscribe(c)
  <2>1. calls' = [calls EXCEPT ![c] = [calls[c] EXCEPT !.st = "waiting"]]
    BY <1>1, <1>5 DEF Subscribe, IInv, TypeOK
  <2>2. StageOf([calls[c] EXCEPT !.st = "waiting"]) = "waiting"
    BY <1>1 DEF StageOf, Call
  <2>3. Stages' = [Stages EXCEPT ![c] = "waiting"]
    BY <2>1, <2>2, OneStage DEF IInv
  <2> QED BY <1>2, <1>4, <1>5, <2>3 DEF Gate!Wait, Subscribe, Stages
<1>6. CASE StartRefresh(c)
  <2> DEFINE call == [[[calls[c] EXCEPT !.st = "refreshing"]
                         EXCEPT !.retried = TRUE] EXCEPT !.cred = ls.refresh_token]
  <2>1. calls' = [calls EXCEPT ![c] = call]
    BY <1>1, <1>6 DEF StartRefresh, IInv, TypeOK
  <2>2. StageOf(call) = "refreshing"
    BY <1>1 DEF StageOf, Call
  <2> HIDE DEF call
  <2>3. Stages' = [Stages EXCEPT ![c] = "refreshing"]
    BY <2>1, <2>2, OneStage DEF IInv
  <2> QED BY <1>2, <1>4, <1>6, <2>3 DEF Gate!Refresh, StartRefresh, Stages
<1> QED BY <1>5, <1>6

\* The end of the refresh lets all go that wait for it.
LEMMA ReleaseRefines ==
  ASSUME IInv, NEW c \in Calls, RefreshOk(c) \/ RefreshFails(c)
  PROVE  Gate!Release
<1>1. calls[c].st = "refreshing"
  BY DEF RefreshOk, RefreshFails
<1>2. Gate!Refreshing # {}
  BY <1>1 DEF Gate!Refreshing, Stage
<1>3. \A d \in Calls :
        d \in refreshSubscribers \cup {c} <=>
          calls[d].st \in {"waiting", "refreshing"}
  BY <1>1 DEF IInv, SingleFlight
<1>4. Gate!Held = refreshSubscribers \cup {c}
  <2>1. Gate!Held = {d \in Calls : calls[d].st \in {"waiting", "refreshing"}}
    BY DEF Gate!Held, Stage
  <2>2. refreshSubscribers \subseteq Calls
    BY DEF IInv, TypeOK
  <2> QED BY <1>3, <2>1, <2>2
<1>5. ASSUME NEW next \in {"again", "idle"},
             \A d \in refreshSubscribers \cup {c} : Stage(d)' = next,
             \A d \in Calls \ (refreshSubscribers \cup {c}) : Stage(d)' = Stage(d)
      PROVE  Stages' = [d \in Calls |-> IF d \in Gate!Held THEN next ELSE Stages[d]]
  BY <1>4, <1>5 DEF Stages
<1>6. CASE RefreshOk(c)
  <2> DEFINE u == calls[c].cred
  <2>1. u \in Owner /\ calls \in [Calls -> Call]
    BY DEF IInv, TypeOK, Call
  <2>2. calls' = [d \in Calls |-> IF d \in refreshSubscribers \cup {c}
                                  THEN Resent(calls[d], u) ELSE calls[d]]
    BY <1>6 DEF RefreshOk
  <2>3. ASSUME NEW d \in refreshSubscribers \cup {c} PROVE Stage(d)' = "again"
    <3>1. d \in Calls /\ calls[d] \in Call /\ calls[d].sends = 1
      BY <1>3, <2>1 DEF IInv, TypeOK, SendsCounted
    <3>2. /\ Resent(calls[d], u).st = "sent"
          /\ Resent(calls[d], u).sends = calls[d].sends + 1
      BY <2>1, <3>1, ResentFields
    <3>3. calls'[d] = Resent(calls[d], u)
      BY <2>2, <3>1
    <3> HIDE DEF u
    <3>4. calls'[d].sends = 2 /\ calls'[d].st = "sent"
      BY <3>1, <3>2, <3>3
    <3> QED BY <3>4 DEF Stage
  <2>4. ASSUME NEW d \in Calls \ (refreshSubscribers \cup {c})
        PROVE  Stage(d)' = Stage(d)
    BY <2>2 DEF Stage
  <2>5. Stages' = [d \in Calls |-> IF d \in Gate!Held THEN "again" ELSE Stages[d]]
    BY <1>5, <2>3, <2>4
  <2> QED BY <1>2, <2>5 DEF Gate!Release, Stages
<1>7. CASE RefreshFails(c)
  <2>1. calls' = [d \in Calls |-> IF d \in refreshSubscribers \cup {c}
                                  THEN Idle ELSE calls[d]]
    BY <1>7 DEF RefreshFails
  <2>2. ASSUME NEW d \in refreshSubscribers \cup {c} PROVE Stage(d)' = "idle"
    <3>1. calls'[d] = Idle
      BY <2>1 DEF IInv, TypeOK
    <3> QED BY <3>1 DEF Stage, Idle
  <2>3. ASSUME NEW d \in Calls \ (refreshSubscribers \cup {c})
        PROVE  Stage(d)' = Stage(d)
    BY <2>1 DEF Stage
  <2>4. Stages' = [d \in Calls |-> IF d \in Gate!Held THEN "idle" ELSE Stages[d]]
    BY <1>5, <2>2, <2>3
  <2> QED BY <1>2, <2>4 DEF Gate!Release, Stages
<1> QED BY <1>6, <1>7

\* A page that is loaded anew has one request at most.
LEMMA ReloadRefines ==
  ASSUME IInv, NEW c \in Calls, Reload(c)
  PROVE  Gate!Reload(c)
<1>1. CASE calls' = [d \in Calls |-> IF d = c THEN Sent("me", Nobody, ls) ELSE Idle]
  <2>1. \A d \in Calls : Stage(d)' = IF d = c THEN "sent" ELSE "idle"
    BY <1>1 DEF Stage, Sent, Idle
  <2>2. Stages' = [d \in Calls |-> IF d = c THEN "sent" ELSE "idle"]
    BY <2>1 DEF Stages
  <2> QED BY <2>2 DEF Gate!Reload, Stages
<1>2. CASE calls' = [d \in Calls |-> Idle]
  <2>1. \A d \in Calls : Stage(d)' = IF d = c THEN "idle" ELSE "idle"
    BY <1>2 DEF Stage, Idle
  <2>2. Stages' = [d \in Calls |-> IF d = c THEN "idle" ELSE "idle"]
    BY <2>1 DEF Stages
  <2> QED BY <2>2 DEF Gate!Reload, Stages
<1> QED BY <1>1, <1>2 DEF Reload

\* Every step of the client is one of the gate or changes no request, so that
\* requests are refreshed for once, wait together, go on together and are sent
\* at most twice, however many there are and whatever else the page does.
THEOREM GateRefinement == Spec => ImplementsRefreshGate
<1>1. Init => Gate!Init
  <2> SUFFICES ASSUME Init PROVE Stages = [c \in Calls |-> "idle"]
    BY DEF Gate!Init, Stages
  <2>1. \A c \in Calls : Stage(c) = "idle"
    BY DEF Init, Stage, Idle
  <2> QED BY <2>1 DEF Stages
<1>2. ASSUME IInv, [Next]_vars PROVE [Gate!Next]_Stages
  <2>1. TypeOK
    BY <1>2 DEF IInv
  <2>2. calls' = calls => Stages' = Stages
    BY DEF Stages, Stage
  <2>3. ASSUME NEW c \in Calls, Start(c) \/ CheckAuth(c)
        PROVE  Gate!Send(c) \/ calls' = calls
    BY <2>1, <2>3, SendRefines
    DEF Start, SendData, AutoRefresh, TokenTimer, Login, SetToken, Logout, CheckAuth
  <2>4. ASSUME NEW c \in Calls, RespondOk(c) \/ RespondError(c)
        PROVE  Gate!End(c)
    BY <2>1, <2>4, AnswerRefines DEF RespondOk, RespondError
  <2>5. ASSUME NEW c \in Calls, Respond401(c)
        PROVE  Gate!End(c) \/ Gate!Wait(c) \/ Gate!Refresh(c)
    <3>1. CASE Reject401(c) \/ SessionOver(c)
      BY <2>1, <2>5, <3>1, AnswerRefines DEF Respond401, Reject401, SessionOver
    <3>2. CASE Subscribe(c) \/ StartRefresh(c)
      BY <1>2, <2>5, <3>2, HoldRefines DEF Respond401
    <3> QED BY <2>5, <3>1, <3>2 DEF Respond401
  <2>6. ASSUME NEW c \in Calls, RefreshOk(c) \/ RefreshFails(c)
        PROVE  Gate!Release
    BY <1>2, <2>6, ReleaseRefines
  <2>7. ASSUME NEW c \in Calls, Reload(c) PROVE Gate!Reload(c)
    BY <1>2, <2>7, ReloadRefines
  <2>8. Navigate \/ UNCHANGED vars => calls' = calls
    BY DEF Navigate, vars
  <2> QED
    BY <1>2, <2>2, <2>3, <2>4, <2>5, <2>6, <2>7, <2>8 DEF Next, Respond, Gate!Next
<1> QED
  BY <1>1, <1>2, Inductive, PTL DEF Spec, ImplementsRefreshGate, Gate!Spec, Stages

============================================================================
