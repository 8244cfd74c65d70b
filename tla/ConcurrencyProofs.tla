-------------------------- MODULE ConcurrencyProofs --------------------------
(***************************************************************************)
(* Proofs about Concurrency for any number of users, request processes,    *)
(* limits and queue lengths.                                               *)
(***************************************************************************)
EXTENDS Concurrency, FiniteSetTheorems, SequenceTheorems, TLAPS

USE ConcurrencyAssumption

\* The holders of user u among the processes S, and those with limit <= k.
Owned(S, u) == {p \in S : UserOf[p] = u}
OwnedUpTo(S, u, k) == {p \in S : UserOf[p] = u /\ LimitOf[p] <= k}
Respected(S) ==
  \A p \in S : Cardinality(OwnedUpTo(S, UserOf[p], LimitOf[p])) <= LimitOf[p]

\* Where a process is in the server: an unhandled call, one place in the queue
\* of its own user, or a slot, and never two of them.
QueueOK ==
  /\ \A p \in Procs : "acquire" \in sent[p] => p \notin slots /\ ~Queued(p)
  /\ \A u \in Users : \A i \in 1..Len(wait_queues[u]) :
       UserOf[wait_queues[u][i]] = u /\ wait_queues[u][i] \notin slots
  /\ \A u \in Users : \A i, j \in 1..Len(wait_queues[u]) :
       wait_queues[u][i] = wait_queues[u][j] => i = j

IInv == /\ TypeOK
        /\ QueueOK
        /\ CountsMatchSlots
        /\ LimitRespected
        /\ NoIdleSlotWhileQueued
        /\ NoOrphanSlot

----------------------------------------------------------------------------
(* Sets of holders. *)

\* Every set of processes is finite, and part of it is no larger.
LEMMA ProcSets ==
  ASSUME NEW S \in SUBSET Procs
  PROVE  /\ IsFiniteSet(S) /\ Cardinality(S) \in Nat
         /\ \A T \in SUBSET S : /\ IsFiniteSet(T) /\ Cardinality(T) \in Nat
                                /\ Cardinality(T) <= Cardinality(S)
<1>1. IsFiniteSet(S) /\ Cardinality(S) \in Nat
  BY FS_Subset, FS_CardinalityType
<1>2. ASSUME NEW T \in SUBSET S
      PROVE  /\ IsFiniteSet(T) /\ Cardinality(T) \in Nat
             /\ Cardinality(T) <= Cardinality(S)
  BY <1>1, FS_Subset, FS_CardinalityType
<1> QED BY <1>1, <1>2

\* A new holder is one more for its user and changes no other user.
LEMMA OwnedAdd ==
  ASSUME NEW S \in SUBSET Procs, NEW p \in Procs, p \notin S, NEW u \in Users
  PROVE  /\ u = UserOf[p] => Cardinality(Owned(S \cup {p}, u)) =
                               Cardinality(Owned(S, u)) + 1
         /\ u # UserOf[p] => Owned(S \cup {p}, u) = Owned(S, u)
<1>1. IsFiniteSet(Owned(S, u)) /\ p \notin Owned(S, u)
  BY ProcSets DEF Owned
<1>2. CASE u = UserOf[p]
  <2>1. Owned(S \cup {p}, u) = Owned(S, u) \cup {p}
    BY <1>2 DEF Owned
  <2> QED BY <1>1, <1>2, <2>1, FS_AddElement
<1>3. CASE u # UserOf[p]
  BY <1>3 DEF Owned
<1> QED BY <1>2, <1>3

\* A holder that leaves is one less for its user and changes no other user.
LEMMA OwnedRemove ==
  ASSUME NEW S \in SUBSET Procs, NEW p \in S, NEW u \in Users
  PROVE  /\ u = UserOf[p] =>
              /\ Cardinality(Owned(S \ {p}, u)) = Cardinality(Owned(S, u)) - 1
              /\ Cardinality(Owned(S, u)) \in Nat \ {0}
         /\ u # UserOf[p] => Owned(S \ {p}, u) = Owned(S, u)
<1>1. IsFiniteSet(Owned(S, u)) /\ Cardinality(Owned(S, u)) \in Nat
  BY ProcSets DEF Owned
<1>2. CASE u = UserOf[p]
  <2>1. Owned(S \ {p}, u) = Owned(S, u) \ {p} /\ p \in Owned(S, u)
    BY <1>2 DEF Owned
  <2>2. Cardinality(Owned(S, u)) # 0
    BY <1>1, <2>1, FS_EmptySet
  <2>3. Cardinality(Owned(S, u) \ {p}) = Cardinality(Owned(S, u)) - 1
    BY <1>1, <2>1, FS_RemoveElement
  <2> QED BY <1>1, <1>2, <2>1, <2>2, <2>3
<1>3. CASE u # UserOf[p]
  BY <1>3 DEF Owned
<1> QED BY <1>2, <1>3

\* Fewer holders respect the limits that more holders respected.
LEMMA RespectedSubset ==
  ASSUME NEW S \in SUBSET Procs, NEW T \in SUBSET S, Respected(S)
  PROVE  Respected(T)
<1> SUFFICES ASSUME NEW p \in T
             PROVE  Cardinality(OwnedUpTo(T, UserOf[p], LimitOf[p]))
                      <= LimitOf[p]
  BY DEF Respected
<1>1. Cardinality(OwnedUpTo(S, UserOf[p], LimitOf[p])) <= LimitOf[p]
  BY DEF Respected
<1>2. /\ OwnedUpTo(S, UserOf[p], LimitOf[p]) \in SUBSET Procs
      /\ OwnedUpTo(T, UserOf[p], LimitOf[p]) \in
           SUBSET OwnedUpTo(S, UserOf[p], LimitOf[p])
  BY DEF OwnedUpTo
<1>3. /\ Cardinality(OwnedUpTo(T, UserOf[p], LimitOf[p])) <=
           Cardinality(OwnedUpTo(S, UserOf[p], LimitOf[p]))
      /\ Cardinality(OwnedUpTo(T, UserOf[p], LimitOf[p])) \in Nat
      /\ Cardinality(OwnedUpTo(S, UserOf[p], LimitOf[p])) \in Nat
  BY <1>2, ProcSets
<1> QED BY <1>1, <1>3

\* A process admitted below its limit leaves every limit respected.
LEMMA RespectedAdd ==
  ASSUME NEW S \in SUBSET Procs, NEW p \in Procs, p \notin S, Respected(S),
         Cardinality(Owned(S, UserOf[p])) < LimitOf[p]
  PROVE  Respected(S \cup {p})
<1> DEFINE T == S \cup {p}
           u == UserOf[p]
<1> SUFFICES ASSUME NEW r \in T
             PROVE  Cardinality(OwnedUpTo(T, UserOf[r], LimitOf[r]))
                      <= LimitOf[r]
  BY DEF Respected
<1>1. /\ Cardinality(Owned(S, u)) \in Nat
      /\ Cardinality(Owned(T, u)) = Cardinality(Owned(S, u)) + 1
      /\ T \in SUBSET Procs
  BY OwnedAdd, ProcSets DEF Owned
<1>2. CASE UserOf[r] = u /\ LimitOf[p] <= LimitOf[r]
  <2>1. /\ OwnedUpTo(T, UserOf[r], LimitOf[r]) \in SUBSET Owned(T, u)
        /\ Owned(T, u) \in SUBSET Procs
    BY <1>2 DEF OwnedUpTo, Owned
  <2>2. /\ Cardinality(OwnedUpTo(T, UserOf[r], LimitOf[r])) <=
             Cardinality(Owned(T, u))
        /\ Cardinality(OwnedUpTo(T, UserOf[r], LimitOf[r])) \in Nat
    BY <2>1, ProcSets
  <2>3. Cardinality(Owned(T, u)) <= LimitOf[p]
    BY <1>1
  <2> HIDE DEF T, u
  <2> QED BY <1>1, <1>2, <2>2, <2>3
<1>3. CASE ~(UserOf[r] = u /\ LimitOf[p] <= LimitOf[r])
  <2>1. r \in S
    BY <1>3
  <2>2. OwnedUpTo(T, UserOf[r], LimitOf[r]) = OwnedUpTo(S, UserOf[r], LimitOf[r])
    BY <1>3 DEF OwnedUpTo
  <2> QED BY <2>1, <2>2 DEF Respected
<1> QED BY <1>2, <1>3
----------------------------------------------------------------------------
(* Type correctness. *)

\* The facts about a nonempty queue that the server's steps use.
LEMMA HeadTail ==
  ASSUME TypeOK, NEW u \in Users, wait_queues[u] # <<>>
  PROVE  /\ Len(wait_queues[u]) \in Nat \ {0}
         /\ Head(wait_queues[u]) = wait_queues[u][1]
         /\ Head(wait_queues[u]) \in Procs
         /\ Tail(wait_queues[u]) \in Seq(Procs)
         /\ Len(Tail(wait_queues[u])) = Len(wait_queues[u]) - 1
         /\ \A i \in 1..Len(Tail(wait_queues[u])) :
              Tail(wait_queues[u])[i] = wait_queues[u][i + 1]
<1>1. wait_queues[u] \in Seq(Procs)
  BY DEF TypeOK
<1>2. Len(wait_queues[u]) \in Nat \ {0}
  BY <1>1, EmptySeq
<1>3. Head(wait_queues[u]) = wait_queues[u][1]
  OBVIOUS
<1> QED BY <1>1, <1>2, <1>3, HeadTailProperties

\* Every variable of the limiter keeps its type.
THEOREM TypeCorrect == Spec => []TypeOK
<1>1. Init => TypeOK
  BY DEF Init, TypeOK
<1>2. TypeOK /\ [Next]_vars => TypeOK'
  <2> SUFFICES ASSUME TypeOK, [Next]_vars PROVE TypeOK'
    OBVIOUS
  <2>1. ASSUME NEW p \in Procs, ProcStep(p) PROVE TypeOK'
    <3>1. ASSUME NEW s \in SUBSET Signals, Exit(p, s) PROVE TypeOK'
      BY <3>1 DEF Exit, TypeOK, srvVars, Signals
    <3>2. CASE Request(p)
      BY <3>2 DEF Request, TypeOK, srvVars, Signals
    <3>3. CASE ReceiveOk(p)
      BY <3>3 DEF ReceiveOk, TypeOK, srvVars
    <3> QED
      BY <2>1, <3>1, <3>2, <3>3
      DEF ProcStep, ReceiveRejected, TimeOut, Finish, Kill, Signals
  <2>2. ASSUME NEW p \in Procs, HandleAcquire(p) PROVE TypeOK'
    <3>1. CASE AcquireGrant(p)
      BY <2>2, <3>1
      DEF HandleAcquire, AcquireGrant, ReplyOk, MonitorOn, TypeOK, Signals
    <3>2. CASE AcquireEnqueue(p)
      <4>1. wait_queues' \in [Users -> Seq(Procs)]
        BY <3>2 DEF AcquireEnqueue, TypeOK
      <4> QED BY <2>2, <3>2, <4>1 DEF HandleAcquire, AcquireEnqueue, TypeOK
    <3>3. CASE AcquireReject(p)
      BY <2>2, <3>3 DEF HandleAcquire, AcquireReject, TypeOK, srvVars
    <3> QED BY <2>2, <3>1, <3>2, <3>3 DEF HandleAcquire
  <2>3. ASSUME NEW p \in Procs, FreeSlot(p), UNCHANGED pc PROVE TypeOK'
    <3>1. CASE FreeAndDequeue(p)
      <4> DEFINE u == UserOf[p]
                 q == Head(wait_queues[u])
      <4>1. /\ u \in Users /\ wait_queues[u] # <<>>
            /\ counts[u] \in Nat /\ Decrement(counts[u]) \in Nat
        BY <3>1 DEF FreeAndDequeue, CanDequeue, TypeOK, Decrement
      <4>2. q \in Procs /\ Tail(wait_queues[u]) \in Seq(Procs)
        BY <4>1, HeadTail
      <4> HIDE DEF u, q
      <4>3. /\ slots' = (slots \ {p}) \cup {q}
            /\ counts' = [counts EXCEPT ![u] = Decrement(counts[u]) + 1]
            /\ wait_queues' = [wait_queues EXCEPT ![u] = Tail(wait_queues[u])]
            /\ reply' = ReplyOk(q)
            /\ sent' = MonitorOn([sent EXCEPT ![p] = {}], q)
        BY <3>1 DEF FreeAndDequeue, u, q
      <4>4. reply' \in [Procs -> {"none", "ok", "rejected"}]
        BY <4>2, <4>3 DEF ReplyOk, TypeOK
      <4>5. sent' \in [Procs -> SUBSET Signals]
        BY <4>2, <4>3 DEF MonitorOn, TypeOK, Signals
      <4>6. slots' \in SUBSET Procs /\ counts' \in [Users -> Nat]
        BY <4>1, <4>2, <4>3 DEF TypeOK
      <4>7. wait_queues' \in [Users -> Seq(Procs)]
        BY <4>1, <4>2, <4>3 DEF TypeOK
      <4> QED BY <2>3, <4>4, <4>5, <4>6, <4>7 DEF TypeOK
    <3>2. CASE FreeOnly(p)
      BY <2>3, <3>2 DEF FreeOnly, TypeOK, Decrement
    <3> QED BY <2>3, <3>1, <3>2 DEF FreeSlot
  <2>4. ASSUME NEW p \in Procs, IgnoreSignal(p), UNCHANGED pc PROVE TypeOK'
    BY <2>4 DEF IgnoreSignal, TypeOK, srvVars
  <2>5. CASE Crash
    BY <2>5, EmptySeq DEF Crash, TypeOK
  <2>6. CASE UNCHANGED vars
    BY <2>6 DEF vars, TypeOK
  <2> QED
    BY <2>1, <2>2, <2>3, <2>4, <2>5, <2>6
    DEF Next, SrvStep, HandleRelease, HandleDown
<1> QED BY <1>1, <1>2, PTL DEF Spec
----------------------------------------------------------------------------
(* The inductive invariant.  The three parts about slots and counters do not   *)
(* read the processes' variables; the other two are about where they are.      *)

SlotInv == CountsMatchSlots /\ LimitRespected /\ NoIdleSlotWhileQueued

\* The property in terms of a set of holders, so that the lemmas above apply.
LEMMA LimitRespectedDef == LimitRespected <=> Respected(slots)
BY DEF LimitRespected, Respected, OwnedUpTo, SlotsOf

\* A step that leaves the three server variables alone keeps their invariant.
LEMMA SlotInvSame == SlotInv /\ UNCHANGED srvVars => SlotInv'
BY DEF SlotInv, CountsMatchSlots, LimitRespected, NoIdleSlotWhileQueued,
       SlotsOf, srvVars

\* Granting below the limit: the counter and the holders grow by one, and the
\* holders with a limit up to k are at most k as the granted one saw fewer.
LEMMA SlotInvGrant ==
  ASSUME TypeOK, TypeOK', QueueOK, SlotInv, NEW p \in Procs,
         "acquire" \in sent[p], AcquireGrant(p)
  PROVE  SlotInv'
<1> DEFINE u == UserOf[p]
<1>1. /\ u \in Users /\ p \notin slots /\ slots \in SUBSET Procs
      /\ slots' = slots \cup {p} /\ wait_queues' = wait_queues
      /\ counts' = [counts EXCEPT ![u] = @ + 1]
      /\ counts[u] < LimitOf[p] /\ counts \in [Users -> Nat]
  BY DEF AcquireGrant, HasRoom, QueueOK, TypeOK
<1>2. \A v \in Users : /\ counts[v] = Cardinality(Owned(slots, v))
                       /\ v = u => Cardinality(Owned(slots', v)) = counts[v] + 1
                       /\ v # u => Owned(slots', v) = Owned(slots, v)
  BY <1>1, OwnedAdd DEF SlotInv, CountsMatchSlots, SlotsOf, Owned
<1>3. CountsMatchSlots'
  BY <1>1, <1>2 DEF CountsMatchSlots, SlotsOf, Owned
<1>4. Respected(slots')
  BY <1>1, <1>2, RespectedAdd, LimitRespectedDef DEF SlotInv
<1>5. LimitRespected'
  BY <1>4 DEF LimitRespected, Respected, OwnedUpTo, SlotsOf
<1>6. NoIdleSlotWhileQueued'
  <2> SUFFICES ASSUME NEW v \in Users, wait_queues[v] # <<>>
               PROVE  \E r \in Procs : /\ UserOf[r] = v
                                       /\ LimitOf[r] <= Cardinality(Owned(slots', v))
    BY <1>1 DEF NoIdleSlotWhileQueued, SlotsOf, Owned
  <2>1. PICK r \in Procs : /\ UserOf[r] = v
                           /\ LimitOf[r] <= Cardinality(Owned(slots, v))
    BY DEF SlotInv, NoIdleSlotWhileQueued, SlotsOf, Owned
  <2>2. LimitOf[r] <= counts[v] /\ counts[v] \in Nat
    BY <1>1, <1>2, <2>1
  <2>3. LimitOf[r] <= Cardinality(Owned(slots', v))
    <3>1. CASE v = u
      BY <1>2, <2>2, <3>1
    <3>2. CASE v # u
      BY <1>2, <2>2, <3>2
    <3> QED BY <3>1, <3>2
  <2> QED BY <2>1, <2>3
<1> QED BY <1>3, <1>5, <1>6 DEF SlotInv

\* Queueing a caller that found no room: its own limit is the witness that
\* enough slots are held for somebody to come back to the queue.
LEMMA SlotInvEnqueue ==
  ASSUME TypeOK, SlotInv, NEW p \in Procs, AcquireEnqueue(p)
  PROVE  SlotInv'
<1> DEFINE u == UserOf[p]
<1>1. /\ u \in Users /\ slots' = slots /\ counts' = counts
      /\ ~(counts[u] < LimitOf[p]) /\ counts[u] \in Nat
      /\ wait_queues' = [wait_queues EXCEPT ![u] = Append(@, p)]
  BY DEF AcquireEnqueue, HasRoom, TypeOK
<1>2. CountsMatchSlots' /\ LimitRespected'
  BY <1>1 DEF SlotInv, CountsMatchSlots, LimitRespected, SlotsOf
<1>3. NoIdleSlotWhileQueued'
  <2> SUFFICES ASSUME NEW v \in Users, wait_queues'[v] # <<>>
               PROVE  \E r \in Procs : /\ UserOf[r] = v
                                       /\ LimitOf[r] <= Cardinality(SlotsOf(v))
    BY <1>1 DEF NoIdleSlotWhileQueued, SlotsOf
  <2>1. CASE v = u
    <3>1. LimitOf[p] <= Cardinality(SlotsOf(u))
      BY <1>1 DEF SlotInv, CountsMatchSlots
    <3> QED BY <2>1, <3>1
  <2>2. CASE v # u
    <3>1. wait_queues[v] # <<>>
      BY <1>1, <2>2 DEF TypeOK
    <3> QED BY <3>1 DEF SlotInv, NoIdleSlotWhileQueued
  <2> QED BY <2>1, <2>2
<1> QED BY <1>2, <1>3 DEF SlotInv

\* Freeing a place nobody can take: the head that was refused is the witness
\* that the slots still held reach some limit in use.
LEMMA SlotInvFreeOnly ==
  ASSUME TypeOK, QueueOK, SlotInv, NEW p \in slots, FreeOnly(p)
  PROVE  SlotInv'
<1> DEFINE u == UserOf[p]
<1>1. /\ p \in Procs /\ u \in Users /\ slots \in SUBSET Procs
      /\ slots' = slots \ {p} /\ wait_queues' = wait_queues
      /\ counts' = [counts EXCEPT ![u] = Decrement(counts[u])]
      /\ ~CanDequeue(u, Decrement(counts[u])) /\ counts \in [Users -> Nat]
  BY DEF FreeOnly, TypeOK
<1>2. \A v \in Users : /\ counts[v] = Cardinality(Owned(slots, v))
                       /\ v = u => /\ Cardinality(Owned(slots', v)) = counts[v] - 1
                                   /\ counts[v] \in Nat \ {0}
                       /\ v # u => Owned(slots', v) = Owned(slots, v)
  <2>1. \A v \in Users : counts[v] = Cardinality(Owned(slots, v))
    BY DEF SlotInv, CountsMatchSlots, SlotsOf, Owned
  <2>2. ASSUME NEW v \in Users, v = u
        PROVE  /\ Cardinality(Owned(slots', v)) = counts[v] - 1
               /\ counts[v] \in Nat \ {0}
    BY <1>1, <2>1, <2>2, OwnedRemove
  <2>3. ASSUME NEW v \in Users, v # u
        PROVE  Owned(slots', v) = Owned(slots, v)
    BY <1>1, <2>3, OwnedRemove
  <2> QED BY <2>1, <2>2, <2>3
<1>3. Decrement(counts[u]) = counts[u] - 1 /\ counts[u] - 1 \in Nat
  BY <1>1, <1>2 DEF Decrement
<1>4. CountsMatchSlots'
  BY <1>1, <1>2, <1>3 DEF CountsMatchSlots, SlotsOf, Owned
<1>5. Respected(slots')
  BY <1>1, RespectedSubset, LimitRespectedDef DEF SlotInv
<1>6. LimitRespected'
  BY <1>5 DEF LimitRespected, Respected, OwnedUpTo, SlotsOf
<1>7. NoIdleSlotWhileQueued'
  <2> SUFFICES ASSUME NEW v \in Users, wait_queues[v] # <<>>
               PROVE  \E r \in Procs : /\ UserOf[r] = v
                                       /\ LimitOf[r] <= Cardinality(Owned(slots', v))
    BY <1>1 DEF NoIdleSlotWhileQueued, SlotsOf, Owned
  <2>1. CASE v = u
    <3> DEFINE h == Head(wait_queues[u])
    <3>1. h = wait_queues[u][1] /\ h \in Procs /\ 1 \in 1..Len(wait_queues[u])
      BY <1>1, <2>1, HeadTail
    <3>2. UserOf[h] = u
      BY <1>1, <3>1 DEF QueueOK
    <3>3. ~(counts[u] - 1 < LimitOf[h])
      BY <1>1, <1>3, <2>1 DEF CanDequeue, HasRoom
    <3> HIDE DEF h, u
    <3>4. Cardinality(Owned(slots', u)) = counts[u] - 1
      BY <1>1, <1>2
    <3>5. LimitOf[h] <= Cardinality(Owned(slots', u))
      BY <1>3, <3>1, <3>3, <3>4
    <3> QED BY <2>1, <3>1, <3>2, <3>5
  <2>2. CASE v # u
    BY <1>2, <2>2 DEF SlotInv, NoIdleSlotWhileQueued, SlotsOf, Owned
  <2> QED BY <2>1, <2>2
<1> QED BY <1>4, <1>6, <1>7 DEF SlotInv

\* Handing a place over: one holder leaves and one enters, so the number held
\* stays what it was, and the new holder was below its limit in between.
LEMMA SlotInvFreeAndDequeue ==
  ASSUME TypeOK, QueueOK, SlotInv, NEW p \in slots, FreeAndDequeue(p)
  PROVE  SlotInv'
<1> DEFINE u == UserOf[p]
           q == Head(wait_queues[u])
           rest == slots \ {p}
<1>1. /\ p \in Procs /\ u \in Users /\ slots \in SUBSET Procs
      /\ wait_queues[u] # <<>> /\ counts \in [Users -> Nat]
      /\ Decrement(counts[u]) < LimitOf[q]
      /\ slots' = rest \cup {q}
      /\ counts' = [counts EXCEPT ![u] = Decrement(counts[u]) + 1]
      /\ wait_queues' = [wait_queues EXCEPT ![u] = Tail(@)]
  BY DEF FreeAndDequeue, CanDequeue, HasRoom, TypeOK
<1>2. q \in Procs /\ UserOf[q] = u /\ q \notin slots
  <2>1. q = wait_queues[u][1] /\ q \in Procs /\ 1 \in 1..Len(wait_queues[u])
    BY <1>1, HeadTail
  <2> QED BY <1>1, <2>1 DEF QueueOK
<1>3. \A v \in Users : /\ counts[v] = Cardinality(Owned(slots, v))
                       /\ v = u => /\ Cardinality(Owned(rest, v)) = counts[v] - 1
                                   /\ counts[v] \in Nat \ {0}
                       /\ v # u => Owned(rest, v) = Owned(slots, v)
  <2> TAKE v \in Users
  <2>1. counts[v] = Cardinality(Owned(slots, v))
    BY DEF SlotInv, CountsMatchSlots, SlotsOf, Owned
  <2>2. /\ v = u => /\ Cardinality(Owned(rest, v)) = Cardinality(Owned(slots, v)) - 1
                    /\ Cardinality(Owned(slots, v)) \in Nat \ {0}
        /\ v # u => Owned(rest, v) = Owned(slots, v)
    BY <1>1, OwnedRemove
  <2> QED BY <2>1, <2>2
<1>4. Decrement(counts[u]) = counts[u] - 1 /\ counts[u] - 1 \in Nat
  BY <1>1, <1>3 DEF Decrement
<1>5. \A v \in Users : /\ v = u => Cardinality(Owned(slots', v)) =
                                      Cardinality(Owned(rest, v)) + 1
                       /\ v # u => Owned(slots', v) = Owned(rest, v)
  <2>1. rest \in SUBSET Procs /\ q \in Procs /\ q \notin rest /\ UserOf[q] = u
    BY <1>1, <1>2
  <2>2. slots' = rest \cup {q}
    BY <1>1
  <2> HIDE DEF rest, q, u
  <2> QED BY <2>1, <2>2, OwnedAdd
<1>6. \A v \in Users : Cardinality(Owned(slots', v)) = counts[v] /\ counts'[v] = counts[v]
  <2> TAKE v \in Users
  <2>1. CASE v = u
    <3>1. counts'[u] = counts[u]
      BY <1>1, <1>4
    <3>2. Cardinality(Owned(slots', u)) = Cardinality(Owned(rest, u)) + 1
      BY <1>1, <1>5
    <3>3. Cardinality(Owned(rest, u)) = counts[u] - 1 /\ counts[u] \in Nat
      BY <1>1, <1>3
    <3> HIDE DEF u, rest, q
    <3> QED BY <2>1, <3>1, <3>2, <3>3
  <2>2. CASE v # u
    BY <1>1, <1>3, <1>5, <2>2
  <2> QED BY <2>1, <2>2
<1>7. CountsMatchSlots'
  BY <1>6 DEF CountsMatchSlots, SlotsOf, Owned
<1>8. Respected(slots')
  <2>1. Respected(rest) /\ rest \in SUBSET Procs /\ q \notin rest
    BY <1>1, <1>2, RespectedSubset, LimitRespectedDef DEF SlotInv
  <2>2. Cardinality(Owned(rest, UserOf[q])) < LimitOf[q]
    BY <1>1, <1>2, <1>3, <1>4
  <2> QED BY <1>1, <1>2, <2>1, <2>2, RespectedAdd
<1>9. LimitRespected'
  BY <1>8 DEF LimitRespected, Respected, OwnedUpTo, SlotsOf
<1>10. NoIdleSlotWhileQueued'
  <2> SUFFICES ASSUME NEW v \in Users, wait_queues'[v] # <<>>
               PROVE  \E r \in Procs : /\ UserOf[r] = v
                                       /\ LimitOf[r] <= Cardinality(Owned(slots', v))
    BY DEF NoIdleSlotWhileQueued, SlotsOf, Owned
  <2>1. wait_queues[v] # <<>>
    BY <1>1 DEF TypeOK
  <2>2. PICK r \in Procs : /\ UserOf[r] = v
                           /\ LimitOf[r] <= Cardinality(Owned(slots, v))
    BY <2>1 DEF SlotInv, NoIdleSlotWhileQueued, SlotsOf, Owned
  <2>3. Cardinality(Owned(slots', v)) = Cardinality(Owned(slots, v))
    BY <1>3, <1>6
  <2> QED BY <2>2, <2>3
<1> QED BY <1>7, <1>9, <1>10 DEF SlotInv
----------------------------------------------------------------------------
(* Where the processes are. *)

LocInv == QueueOK /\ NoOrphanSlot

\* Steps of the processes only move a process or leave the server a signal.
LEMMA LocInvProc ==
  ASSUME TypeOK, LocInv, NEW p \in Procs, ProcStep(p)
  PROVE  LocInv'
<1>1. CASE Request(p)
  <2>1. /\ p \notin slots /\ ~Queued(p) /\ UNCHANGED srvVars
        /\ sent' = [sent EXCEPT ![p] = {"acquire"}]
        /\ pc' = [pc EXCEPT ![p] = "call"] /\ reply' = reply
    BY <1>1 DEF Request
  <2>2. QueueOK'
    BY <2>1 DEF LocInv, QueueOK, TypeOK, srvVars, Queued, Waiting
  <2>3. NoOrphanSlot'
    BY <2>1 DEF LocInv, NoOrphanSlot, TypeOK, srvVars
  <2> QED BY <2>2, <2>3 DEF LocInv
<1>2. ASSUME NEW s \in SUBSET {"release"}, Exit(p, s) PROVE LocInv'
  <2>1. /\ UNCHANGED srvVars
        /\ sent'[p] = sent[p] \cup s \cup (IF p \in slots THEN {"DOWN"} ELSE {})
        /\ \A q \in Procs : q # p => /\ sent'[q] = sent[q] /\ pc'[q] = pc[q]
                                     /\ reply'[q] = reply[q]
    BY <1>2 DEF Exit, TypeOK
  <2>2. \A q \in Procs : "acquire" \in sent'[q] => "acquire" \in sent[q]
    BY <2>1
  <2>3. QueueOK'
    BY <2>1, <2>2 DEF LocInv, QueueOK, srvVars, Queued, Waiting
  <2>4. NoOrphanSlot'
    BY <2>1 DEF LocInv, NoOrphanSlot, TypeOK, srvVars
  <2> QED BY <2>3, <2>4 DEF LocInv
<1>3. CASE ReceiveOk(p)
  <2>1. /\ UNCHANGED srvVars /\ sent' = sent
        /\ pc'[p] = "serving"
        /\ \A q \in Procs : q # p => pc'[q] = pc[q] /\ reply'[q] = reply[q]
    BY <1>3 DEF ReceiveOk, TypeOK
  <2>2. QueueOK'
    BY <2>1 DEF LocInv, QueueOK, srvVars, Queued, Waiting
  <2>3. NoOrphanSlot'
    BY <2>1 DEF LocInv, NoOrphanSlot, TypeOK, srvVars
  <2> QED BY <2>2, <2>3 DEF LocInv
<1> QED
  BY <1>1, <1>2, <1>3 DEF ProcStep, ReceiveRejected, TimeOut, Finish, Kill

\* A call that is granted, queued or refused is in exactly one place after it,
\* and a caller that died meanwhile leaves a DOWN behind its new slot.
LEMMA LocInvAcquire ==
  ASSUME TypeOK, LocInv, NEW p \in Procs, HandleAcquire(p)
  PROVE  LocInv'
<1>1. /\ "acquire" \in sent[p] /\ pc' = pc
      /\ p \notin slots /\ ~Queued(p)
  BY DEF HandleAcquire, LocInv, QueueOK
<1>2. CASE AcquireGrant(p)
  <2>1. /\ slots' = slots \cup {p} /\ wait_queues' = wait_queues
        /\ "acquire" \notin sent'[p]
        /\ pc[p] = "gone" => "DOWN" \in sent'[p]
        /\ pc[p] # "gone" => reply'[p] = "ok"
        /\ \A q \in Procs : q # p => sent'[q] = sent[q] /\ reply'[q] = reply[q]
    BY <1>2 DEF AcquireGrant, ReplyOk, MonitorOn, TypeOK
  <2>2. \A u \in Users : \A i \in 1..Len(wait_queues[u]) : wait_queues[u][i] # p
    BY <1>1 DEF LocInv, QueueOK, Queued, Waiting
  <2>3. QueueOK'
    BY <2>1, <2>2 DEF LocInv, QueueOK, Queued, Waiting
  <2>4. NoOrphanSlot'
    BY <1>1, <2>1 DEF LocInv, NoOrphanSlot, TypeOK
  <2> QED BY <2>3, <2>4 DEF LocInv
<1>3. CASE AcquireEnqueue(p)
  <2> DEFINE u == UserOf[p]
             n == Len(wait_queues[u])
  <2>1. /\ slots' = slots /\ reply' = reply /\ u \in Users
        /\ sent' = [sent EXCEPT ![p] = {}]
        /\ wait_queues' = [wait_queues EXCEPT ![u] = Append(wait_queues[u], p)]
        /\ wait_queues[u] \in Seq(Procs)
    BY <1>3 DEF AcquireEnqueue, TypeOK
  <2>2. /\ n \in Nat /\ Len(wait_queues'[u]) = n + 1
        /\ wait_queues'[u][n + 1] = p
        /\ \A i \in 1..n : wait_queues'[u][i] = wait_queues[u][i]
        /\ \A v \in Users : v # u => wait_queues'[v] = wait_queues[v]
    BY <2>1 DEF TypeOK
  <2>3. \A i \in 1..n : wait_queues[u][i] # p
    BY <1>1 DEF Queued, Waiting
  <2>4. \A q \in Procs : "acquire" \in sent'[q] =>
                            q # p /\ "acquire" \in sent[q] /\ q \notin slots'
    BY <2>1 DEF LocInv, QueueOK, TypeOK
  <2>5. ASSUME NEW q \in Procs, "acquire" \in sent'[q] PROVE ~Queued(q)'
    <3>1. q # p /\ ~Queued(q)
      BY <2>4, <2>5 DEF LocInv, QueueOK
    <3>2. CASE UserOf[q] = u
      <4> SUFFICES ASSUME NEW i \in 1..(n + 1), wait_queues'[u][i] = q PROVE FALSE
        BY <2>2, <3>2 DEF Queued, Waiting
      <4>1. i \in 1..n
        BY <2>2, <3>1
      <4> QED BY <2>2, <3>1, <3>2, <4>1 DEF Queued, Waiting
    <3>3. CASE UserOf[q] # u
      BY <2>2, <3>1, <3>3 DEF Queued, Waiting
    <3> QED BY <3>2, <3>3
  <2>6. ASSUME NEW v \in Users, NEW i \in 1..Len(wait_queues'[v])
        PROVE  UserOf[wait_queues'[v][i]] = v /\ wait_queues'[v][i] \notin slots'
    <3>1. CASE v = u /\ i = n + 1
      BY <1>1, <2>1, <2>2, <3>1
    <3>2. CASE ~(v = u /\ i = n + 1)
      <4>1. i \in 1..Len(wait_queues[v]) /\ wait_queues'[v][i] = wait_queues[v][i]
        BY <2>2, <3>2
      <4> QED BY <2>1, <4>1 DEF LocInv, QueueOK
    <3> QED BY <3>1, <3>2
  <2>7. ASSUME NEW v \in Users, NEW i \in 1..Len(wait_queues'[v]),
               NEW j \in 1..Len(wait_queues'[v]),
               wait_queues'[v][i] = wait_queues'[v][j]
        PROVE  i = j
    <3>1. CASE v # u
      BY <2>2, <2>7, <3>1 DEF LocInv, QueueOK
    <3>2. CASE v = u
      <4>1. i \in 1..(n + 1) /\ j \in 1..(n + 1)
        BY <2>2, <3>2
      <4>2. CASE i \in 1..n /\ j \in 1..n
        BY <2>1, <2>2, <2>7, <3>2, <4>2 DEF LocInv, QueueOK
      <4>3. CASE i = n + 1 \/ j = n + 1
        BY <2>2, <2>3, <2>7, <3>2, <4>1, <4>3
      <4> QED BY <2>2, <4>1, <4>2, <4>3
    <3> QED BY <3>1, <3>2
  <2>8. QueueOK'
    BY <2>4, <2>5, <2>6, <2>7 DEF QueueOK
  <2>9. NoOrphanSlot'
    BY <1>1, <2>1 DEF LocInv, NoOrphanSlot, TypeOK
  <2> QED BY <2>8, <2>9 DEF LocInv
<1>4. CASE AcquireReject(p)
  <2>1. /\ UNCHANGED srvVars /\ sent'[p] = {}
        /\ \A q \in Procs : q # p => sent'[q] = sent[q] /\ reply'[q] = reply[q]
    BY <1>4 DEF AcquireReject, TypeOK
  <2>2. \A q \in Procs : "acquire" \in sent'[q] => "acquire" \in sent[q]
    BY <2>1
  <2>3. slots' = slots /\ wait_queues' = wait_queues
    BY <2>1 DEF srvVars
  <2>4. QueueOK'
    BY <2>2, <2>3 DEF LocInv, QueueOK, Queued, Waiting
  <2>5. NoOrphanSlot'
    BY <1>1, <2>1 DEF LocInv, NoOrphanSlot, TypeOK, srvVars
  <2> QED BY <2>4, <2>5 DEF LocInv
<1> QED BY <1>2, <1>3, <1>4 DEF HandleAcquire

\* A freed row goes with its signals, and the caller that takes the place
\* leaves the queue and is answered or, if it is gone, signals DOWN.
LEMMA LocInvFree ==
  ASSUME TypeOK, LocInv, NEW p \in Procs, FreeSlot(p), UNCHANGED pc
  PROVE  LocInv'
<1>1. CASE FreeOnly(p)
  <2>1. /\ slots' = slots \ {p} /\ wait_queues' = wait_queues /\ reply' = reply
        /\ sent' = [sent EXCEPT ![p] = {}]
    BY <1>1 DEF FreeOnly
  <2>2. \A q \in Procs : "acquire" \in sent'[q] => "acquire" \in sent[q]
    BY <2>1 DEF TypeOK
  <2>3. QueueOK'
    BY <2>1, <2>2 DEF LocInv, QueueOK, Queued, Waiting
  <2>4. NoOrphanSlot'
    BY <2>1 DEF FreeSlot, LocInv, NoOrphanSlot, TypeOK
  <2> QED BY <2>3, <2>4 DEF LocInv
<1>2. CASE FreeAndDequeue(p)
  <2> DEFINE u == UserOf[p]
             q == Head(wait_queues[u])
             tail == Tail(wait_queues[u])
  <2>1. /\ u \in Users /\ wait_queues[u] # <<>> /\ p \in slots
        /\ slots' = (slots \ {p}) \cup {q}
        /\ wait_queues' = [wait_queues EXCEPT ![u] = tail]
        /\ reply' = ReplyOk(q)
        /\ sent' = MonitorOn([sent EXCEPT ![p] = {}], q)
    BY <1>2 DEF FreeAndDequeue, CanDequeue, FreeSlot, TypeOK
  <2>2. /\ Len(wait_queues[u]) \in Nat \ {0} /\ q = wait_queues[u][1]
        /\ q \in Procs /\ Len(tail) = Len(wait_queues[u]) - 1
        /\ \A i \in 1..Len(tail) : tail[i] = wait_queues[u][i + 1]
    BY <2>1, HeadTail
  <2>3. q \notin slots /\ UserOf[q] = u /\ "acquire" \notin sent[q] /\ Queued(q)
    BY <2>1, <2>2 DEF LocInv, QueueOK, Queued, Waiting
  <2> HIDE DEF q, tail
  <2>4. wait_queues'[u] = tail /\ \A v \in Users : v # u => wait_queues'[v] = wait_queues[v]
    BY <2>1 DEF TypeOK
  <2> HIDE DEF u
  <2>5. \A v \in Users : \A i \in 1..Len(wait_queues'[v]) :
          \E j \in 1..Len(wait_queues[v]) :
             /\ wait_queues'[v][i] = wait_queues[v][j]
             /\ j = IF v = u THEN i + 1 ELSE i
    <3> SUFFICES ASSUME NEW v \in Users, NEW i \in 1..Len(wait_queues'[v])
                 PROVE  \E j \in 1..Len(wait_queues[v]) :
                           /\ wait_queues'[v][i] = wait_queues[v][j]
                           /\ j = IF v = u THEN i + 1 ELSE i
      OBVIOUS
    <3>1. CASE v = u
      <4>1. i + 1 \in 1..Len(wait_queues[u]) /\ wait_queues'[u][i] = wait_queues[u][i + 1]
        BY <2>2, <2>4, <3>1
      <4> QED BY <3>1, <4>1
    <3>2. CASE v # u
      BY <2>4, <3>2
    <3> QED BY <3>1, <3>2
  <2>6. \A r \in Procs : "acquire" \in sent'[r] => "acquire" \in sent[r]
    BY <2>1, <2>2 DEF MonitorOn, TypeOK
  <2>7. ASSUME NEW r \in Procs, "acquire" \in sent'[r]
        PROVE  r \notin slots' /\ ~Queued(r)'
    <3>1. r \notin slots /\ ~Queued(r) /\ r # q
      BY <2>3, <2>6, <2>7 DEF LocInv, QueueOK
    <3>2. UserOf[r] \in Users
      OBVIOUS
    <3>3. ASSUME NEW i \in 1..Len(wait_queues'[UserOf[r]]),
                 wait_queues'[UserOf[r]][i] = r
          PROVE  FALSE
      <4>1. \E j \in 1..Len(wait_queues[UserOf[r]]) : wait_queues[UserOf[r]][j] = r
        BY <2>5, <3>2, <3>3
      <4> QED BY <3>1, <4>1 DEF Queued, Waiting
    <3>4. ~Queued(r)'
      BY <3>3 DEF Queued, Waiting
    <3> QED BY <2>1, <3>1, <3>4
  <2>8. ASSUME NEW v \in Users, NEW i \in 1..Len(wait_queues'[v])
        PROVE  UserOf[wait_queues'[v][i]] = v /\ wait_queues'[v][i] \notin slots'
    <3>1. PICK j \in 1..Len(wait_queues[v]) :
             /\ wait_queues'[v][i] = wait_queues[v][j]
             /\ j = IF v = u THEN i + 1 ELSE i
      BY <2>5
    <3>2. UserOf[wait_queues[v][j]] = v /\ wait_queues[v][j] \notin slots
      BY DEF LocInv, QueueOK
    <3>3. wait_queues[v][j] # q
      <4>1. CASE v = u
        <5>1. j # 1 /\ 1 \in 1..Len(wait_queues[u])
          BY <2>2, <3>1, <4>1
        <5> QED BY <2>2, <4>1, <5>1 DEF LocInv, QueueOK
      <4>2. CASE v # u
        BY <2>3, <3>2, <4>2
      <4> QED BY <4>1, <4>2
    <3> QED BY <2>1, <3>1, <3>2, <3>3
  <2>9. ASSUME NEW v \in Users, NEW i \in 1..Len(wait_queues'[v]),
               NEW j \in 1..Len(wait_queues'[v]),
               wait_queues'[v][i] = wait_queues'[v][j]
        PROVE  i = j
    <3> DEFINE d == IF v = u THEN 1 ELSE 0
    <3>1. /\ i + d \in 1..Len(wait_queues[v]) /\ j + d \in 1..Len(wait_queues[v])
          /\ wait_queues[v][i + d] = wait_queues[v][j + d]
      <4>1. CASE v = u
        BY <2>5, <2>9, <4>1
      <4>2. CASE v # u
        BY <2>4, <2>9, <4>2
      <4> QED BY <4>1, <4>2
    <3>2. i + d = j + d
      BY <3>1 DEF LocInv, QueueOK
    <3> QED BY <3>2
  <2>10. QueueOK'
    BY <2>7, <2>8, <2>9 DEF QueueOK
  <2>11. NoOrphanSlot'
    <3>1. q # p
      BY <2>1, <2>3
    <3>2. \A r \in Procs : r # p /\ r # q => sent'[r] = sent[r] /\ reply'[r] = reply[r]
      BY <2>1, <2>2 DEF MonitorOn, ReplyOk, TypeOK
    <3>3. /\ pc[q] = "gone" => "DOWN" \in sent'[q]
          /\ pc[q] # "gone" => reply'[q] = "ok"
      BY <2>1, <2>2, <3>1 DEF MonitorOn, ReplyOk, TypeOK
    <3> SUFFICES ASSUME NEW r \in slots'
                 PROVE  \/ pc'[r] = "call" /\ reply'[r] = "ok"
                        \/ pc'[r] = "serving"
                        \/ {"release", "DOWN"} \cap sent'[r] # {}
      BY DEF NoOrphanSlot
    <3>4. CASE r = q
      BY <2>2, <3>3, <3>4 DEF TypeOK
    <3>5. CASE r # q
      <4>1. r \in slots /\ r # p /\ r \in Procs
        BY <2>1, <3>5 DEF TypeOK
      <4> QED BY <3>2, <3>5, <4>1 DEF LocInv, NoOrphanSlot
    <3> QED BY <3>4, <3>5
  <2> QED BY <2>10, <2>11 DEF LocInv
<1> QED BY <1>1, <1>2 DEF FreeSlot

\* A late release or DOWN of a row that does not exist moves nobody.
LEMMA LocInvIgnore ==
  ASSUME TypeOK, LocInv, NEW p \in Procs, IgnoreSignal(p), UNCHANGED pc
  PROVE  LocInv'
<1>1. /\ UNCHANGED <<reply, srvVars>> /\ p \notin slots
      /\ sent' = [sent EXCEPT ![p] = {}]
  BY DEF IgnoreSignal
<1>2. \A q \in Procs : "acquire" \in sent'[q] => "acquire" \in sent[q]
  BY <1>1 DEF TypeOK
<1>3. QueueOK'
  BY <1>1, <1>2 DEF LocInv, QueueOK, srvVars, Queued, Waiting
<1>4. NoOrphanSlot'
  BY <1>1 DEF LocInv, NoOrphanSlot, TypeOK, srvVars
<1> QED BY <1>3, <1>4 DEF LocInv

----------------------------------------------------------------------------
(* The theorems. *)

\* The invariant holds of the empty tables the server starts with.
LEMMA InitIInv == Init => IInv
<1> SUFFICES ASSUME Init PROVE IInv
  OBVIOUS
<1>1. TypeOK
  BY EmptySeq DEF Init, TypeOK
<1>2. QueueOK /\ NoOrphanSlot
  BY DEF Init, QueueOK, NoOrphanSlot, Queued, Waiting
<1>3. CountsMatchSlots
  <2> SUFFICES ASSUME NEW u \in Users PROVE counts[u] = Cardinality(SlotsOf(u))
    BY DEF CountsMatchSlots
  <2>1. SlotsOf(u) = {}
    BY DEF Init, SlotsOf
  <2> QED BY <2>1, FS_EmptySet DEF Init
<1>4. LimitRespected /\ NoIdleSlotWhileQueued
  BY DEF Init, LimitRespected, NoIdleSlotWhileQueued
<1> QED BY <1>1, <1>2, <1>3, <1>4 DEF IInv

\* A restart is as good as a start: no row, no counter and no queue is left.
LEMMA CrashIInv == ASSUME TypeOK', Crash PROVE IInv'
<1>1. /\ slots' = {} /\ sent' = [p \in Procs |-> {}]
      /\ counts' = [u \in Users |-> 0] /\ wait_queues' = [u \in Users |-> <<>>]
  BY DEF Crash
<1>2. QueueOK' /\ NoOrphanSlot'
  BY <1>1 DEF QueueOK, NoOrphanSlot, Queued, Waiting
<1>3. CountsMatchSlots'
  <2> SUFFICES ASSUME NEW u \in Users PROVE counts'[u] = Cardinality(Owned(slots', u))
    BY DEF CountsMatchSlots, SlotsOf, Owned
  <2>1. Owned(slots', u) = {}
    BY <1>1 DEF Owned
  <2> QED BY <1>1, <2>1, FS_EmptySet
<1>4. LimitRespected' /\ NoIdleSlotWhileQueued'
  BY <1>1 DEF LimitRespected, NoIdleSlotWhileQueued
<1> QED BY <1>2, <1>3, <1>4 DEF IInv

\* Every step of a process, of the server and of its supervisor keeps it.
LEMMA NextIInv == ASSUME TypeOK, TypeOK', IInv, [Next]_vars PROVE IInv'
<1> USE DEF IInv, SlotInv, LocInv
<1>1. ASSUME NEW p \in Procs, ProcStep(p) PROVE IInv'
  <2>1. UNCHANGED srvVars
    BY <1>1 DEF ProcStep, Request, ReceiveOk, ReceiveRejected, TimeOut, Finish,
                Kill, Exit
  <2> QED BY <1>1, <2>1, SlotInvSame, LocInvProc
<1>2. ASSUME NEW p \in Procs, HandleAcquire(p) PROVE IInv'
  <2>1. CASE AcquireGrant(p)
    <3>1. "acquire" \in sent[p]
      BY <1>2 DEF HandleAcquire
    <3> QED BY <1>2, <2>1, <3>1, SlotInvGrant, LocInvAcquire
  <2>2. CASE AcquireEnqueue(p)
    BY <1>2, <2>2, SlotInvEnqueue, LocInvAcquire
  <2>3. CASE AcquireReject(p)
    <3>1. UNCHANGED srvVars
      BY <2>3 DEF AcquireReject
    <3> QED BY <1>2, <3>1, SlotInvSame, LocInvAcquire
  <2> QED BY <1>2, <2>1, <2>2, <2>3 DEF HandleAcquire
<1>3. ASSUME NEW p \in Procs, FreeSlot(p), UNCHANGED pc PROVE IInv'
  <2>1. p \in slots
    BY <1>3 DEF FreeSlot
  <2>2. CASE FreeOnly(p)
    BY <1>3, <2>1, <2>2, SlotInvFreeOnly, LocInvFree
  <2>3. CASE FreeAndDequeue(p)
    BY <1>3, <2>1, <2>3, SlotInvFreeAndDequeue, LocInvFree
  <2> QED BY <1>3, <2>2, <2>3 DEF FreeSlot
<1>4. ASSUME NEW p \in Procs, IgnoreSignal(p), UNCHANGED pc PROVE IInv'
  <2>1. UNCHANGED srvVars
    BY <1>4 DEF IgnoreSignal
  <2> QED BY <1>4, <2>1, SlotInvSame, LocInvIgnore
<1>5. CASE UNCHANGED vars
  <2>1. UNCHANGED srvVars /\ sent' = sent /\ pc' = pc /\ reply' = reply
    BY <1>5 DEF vars, srvVars
  <2>2. LocInv'
    BY <2>1 DEF QueueOK, NoOrphanSlot, Queued, Waiting, srvVars
  <2> QED BY <2>1, <2>2, SlotInvSame
<1> QED
  BY <1>1, <1>2, <1>3, <1>4, <1>5, CrashIInv
  DEF Next, SrvStep, HandleRelease, HandleDown

\* The inductive invariant holds in every reachable state.
LEMMA Invariance == Spec => []IInv
<1>1. TypeOK /\ TypeOK' /\ IInv /\ [Next]_vars => IInv'
  BY NextIInv
<1> QED BY <1>1, InitIInv, TypeCorrect, PTL DEF Spec

\* The counter rows agree with the slot rows after any sequence of acquires,
\* releases, process deaths, hand-overs and restarts.
THEOREM CountsAgree == Spec => []CountsMatchSlots
<1>1. IInv => CountsMatchSlots
  BY DEF IInv
<1> QED BY <1>1, Invariance, PTL

\* Requests that were promised "at most k at once" never hold more than k of
\* their user's slots, whatever limits the user's other requests pass.
THEOREM LimitsHold == Spec => []LimitRespected
<1>1. IInv => LimitRespected
  BY DEF IInv
<1> QED BY <1>1, Invariance, PTL

\* A queued caller always has holders before it whose release will look at the
\* queue: no wakeup is lost, also when a holder or a waiter dies.
THEOREM NoLostWakeup == Spec => []NoIdleSlotWhileQueued
<1>1. IInv => NoIdleSlotWhileQueued
  BY DEF IInv
<1> QED BY <1>1, Invariance, PTL

\* A slot is never held by a process that will not give it back: its owner is
\* alive, or its release or the DOWN of its monitor is on the way.
THEOREM NoSlotLeaks == Spec => []NoOrphanSlot
<1>1. IInv => NoOrphanSlot
  BY DEF IInv
<1> QED BY <1>1, Invariance, PTL
----------------------------------------------------------------------------
(* The pipelines that run, as long as the server is not restarted. *)

\* A process that runs or has been let in holds its row, and only a process
\* that has ended gives a row back.
Held ==
  \A p \in Procs :
    /\ pc[p] = "serving" \/ reply[p] = "ok" => p \in slots
    /\ reply[p] = "ok" => pc[p] # "gone"
    /\ pc[p] # "gone" => {"release", "DOWN"} \cap sent[p] = {}

\* The steps of processes keep a row for every pipeline that runs.
LEMMA HeldProc ==
  ASSUME TypeOK, Held, NEW p \in Procs, ProcStep(p)
  PROVE  Held'
<1>1. ASSUME NEW signals \in SUBSET Signals, Exit(p, signals)
      PROVE  Held'
  BY <1>1 DEF Exit, Held, TypeOK, srvVars
<1>2. CASE Request(p)
  BY <1>2 DEF Request, Held, TypeOK, srvVars
<1>3. CASE ReceiveOk(p)
  BY <1>3 DEF ReceiveOk, Held, TypeOK, srvVars
<1>4. {} \in SUBSET Signals /\ {"release"} \in SUBSET Signals
  BY DEF Signals
<1> QED BY <1>1, <1>2, <1>3, <1>4
        DEF ProcStep, ReceiveRejected, TimeOut, Finish, Kill

\* The server takes no row from a pipeline that runs.
LEMMA HeldSrv ==
  ASSUME TypeOK, IInv, Held, NEW p \in Procs, SrvStep(p)
  PROVE  Held'
<1>1. pc' = pc
  BY DEF SrvStep, HandleAcquire, HandleRelease, HandleDown
\* Signals appear for a process that has ended only.
<1>2. ASSUME NEW q \in Procs, sent' = [sent EXCEPT ![p] = {}]
               \/ sent' = MonitorOn([sent EXCEPT ![p] = {}], q)
      PROVE  \A r \in Procs :
               pc'[r] # "gone" => {"release", "DOWN"} \cap sent'[r] = {}
  BY <1>1, <1>2 DEF MonitorOn, Held, TypeOK
\* A reply is for a process that gets a row.
<1>3. ASSUME NEW q \in Procs, reply' = ReplyOk(q), NEW r \in Procs,
             reply'[r] = "ok"
      PROVE  pc[r] # "gone" /\ (r = q \/ reply[r] = "ok")
  BY <1>3 DEF ReplyOk, Held, TypeOK
<1>4. CASE HandleAcquire(p)
  <2>1. CASE AcquireGrant(p)
    BY <1>1, <1>2, <1>3, <2>1 DEF AcquireGrant, Held
  <2>2. CASE AcquireEnqueue(p)
    BY <1>1, <1>2, <2>2 DEF AcquireEnqueue, Held
  <2>3. CASE AcquireReject(p)
    BY <1>1, <1>2, <2>3 DEF AcquireReject, srvVars, Held, TypeOK
  <2> QED BY <1>4, <2>1, <2>2, <2>3 DEF HandleAcquire
<1>5. CASE HandleRelease(p) \/ HandleDown(p)
  <2>1. pc[p] = "gone" /\ reply[p] # "ok"
    BY <1>5 DEF HandleRelease, HandleDown, Held
  <2>2. CASE IgnoreSignal(p)
    BY <1>1, <1>2, <2>2 DEF IgnoreSignal, srvVars, Held
  <2>3. CASE FreeOnly(p)
    BY <1>1, <1>2, <2>1, <2>3 DEF FreeOnly, Held
  <2>4. CASE FreeAndDequeue(p)
    <3> DEFINE q == Head(wait_queues[UserOf[p]])
    <3>1. q \in Procs
      BY <2>4 DEF FreeAndDequeue, CanDequeue, TypeOK
    <3>2. /\ slots' = (slots \ {p}) \cup {q} /\ reply' = ReplyOk(q)
          /\ sent' = MonitorOn([sent EXCEPT ![p] = {}], q)
      BY <2>4 DEF FreeAndDequeue
    <3> HIDE DEF q
    <3> QED BY <1>1, <1>2, <1>3, <2>1, <3>1, <3>2 DEF Held
  <2> QED BY <1>5, <2>2, <2>3, <2>4 DEF HandleRelease, HandleDown, FreeSlot
<1> QED BY <1>4, <1>5 DEF SrvStep

\* As long as the server is not restarted, no more pipelines of a user run than
\* the limit of each of them allows.
THEOREM PipelinesWithinLimit ==
  Spec /\ [][~Crash]_vars => []ServingWithinLimit
<1>1. Init => Held
  BY DEF Init, Held
<1>2. TypeOK /\ IInv /\ Held /\ [Next]_vars /\ [~Crash]_vars => Held'
  <2> SUFFICES ASSUME TypeOK, IInv, Held, [Next]_vars, [~Crash]_vars PROVE Held'
    OBVIOUS
  <2>1. CASE UNCHANGED vars
    BY <2>1 DEF vars, Held
  <2> QED BY <2>1, HeldProc, HeldSrv DEF Next
<1>3. TypeOK /\ LimitRespected /\ Held => ServingWithinLimit
  <2> SUFFICES ASSUME TypeOK, LimitRespected, Held, NEW p \in Procs, pc[p] = "serving"
               PROVE  Cardinality({q \in Procs : /\ pc[q] = "serving"
                                                 /\ UserOf[q] = UserOf[p]
                                                 /\ LimitOf[q] <= LimitOf[p]})
                        <= LimitOf[p]
    BY DEF ServingWithinLimit
  <2> DEFINE R == {q \in Procs : /\ pc[q] = "serving" /\ UserOf[q] = UserOf[p]
                                 /\ LimitOf[q] <= LimitOf[p]}
             S == {q \in SlotsOf(UserOf[p]) : LimitOf[q] <= LimitOf[p]}
  <2>1. p \in slots /\ R \in SUBSET S
    BY DEF Held, SlotsOf
  <2>2. S \in SUBSET Procs
    BY DEF SlotsOf, TypeOK
  <2>3. Cardinality(S) <= LimitOf[p]
    BY <2>1 DEF LimitRespected
  <2>4. /\ Cardinality(R) <= Cardinality(S)
        /\ Cardinality(R) \in Nat /\ Cardinality(S) \in Nat
    BY <2>1, <2>2, ProcSets
  <2>5. LimitOf[p] \in Int
    OBVIOUS
  <2> HIDE DEF R, S
  <2>6. Cardinality(R) <= LimitOf[p]
    BY <2>3, <2>4, <2>5
  <2> QED BY <2>6 DEF R
<1> QED BY <1>1, <1>2, <1>3, TypeCorrect, Invariance, LimitsHold, PTL DEF Spec

----------------------------------------------------------------------------
(* Callers whose limit admits nobody: users.max_concurrency may be 0. *)

\* The head of u's queue can never be let in.
Hopeless(u) ==
  wait_queues[u] # <<>> /\ LimitOf[Head(wait_queues[u])] <= 0

Stays(u) ==
  /\ wait_queues'[u] # <<>>
  /\ Head(wait_queues'[u]) = Head(wait_queues[u])

\* A process without a positive limit never gets a slot.
THEOREM NoSlotWithoutLimit == Spec => [](\A p \in slots : LimitOf[p] >= 1)
<1>1. TypeOK /\ LimitRespected => \A p \in slots : LimitOf[p] >= 1
  <2> SUFFICES ASSUME TypeOK, LimitRespected, NEW p \in slots PROVE LimitOf[p] >= 1
    OBVIOUS
  <2> DEFINE S == {q \in SlotsOf(UserOf[p]) : LimitOf[q] <= LimitOf[p]}
  <2>1. p \in Procs /\ LimitOf[p] \in Int
    BY DEF TypeOK
  <2>2. p \in S /\ S \in SUBSET Procs
    BY <2>1 DEF SlotsOf, TypeOK
  <2>3. Cardinality(S) <= LimitOf[p]
    BY DEF LimitRespected
  <2> HIDE DEF S
  <2>4. Cardinality(S) \in Nat /\ IsFiniteSet(S)
    BY <2>2, ProcSets
  <2>5. Cardinality(S) # 0
    BY <2>2, <2>4, FS_EmptySet
  <2> QED BY <2>1, <2>3, <2>4, <2>5
<1> QED BY <1>1, TypeCorrect, LimitsHold, PTL

\* Once such a process is the head of a queue it stays the head, through every
\* release, timeout and death, its own included, until the server is restarted:
\* those queued behind it wait for nothing.
THEOREM HopelessHeadStays ==
  Spec => [][\A u \in Users : Hopeless(u) => Stays(u) \/ Crash]_vars
<1>1. ASSUME TypeOK, CountsMatchSlots, [Next]_vars
      PROVE  [\A u \in Users : Hopeless(u) => Stays(u) \/ Crash]_vars
  <2> SUFFICES ASSUME Next, ~Crash, NEW u \in Users, Hopeless(u)
               PROVE  Stays(u)
    BY <1>1
  <2> DEFINE s == wait_queues[u]
             h == Head(s)
  <2>1. /\ s \in Seq(Procs) /\ s # <<>> /\ h \in Procs /\ LimitOf[h] <= 0
        /\ wait_queues \in [Users -> Seq(Procs)]
    BY <1>1 DEF TypeOK, Hopeless
  <2>2. UNCHANGED wait_queues => Stays(u)
    BY <2>1 DEF Stays
  <2>3. PICK p \in Procs : ProcStep(p) \/ SrvStep(p)
    BY DEF Next
  <2>4. CASE ProcStep(p)
    BY <2>2, <2>4 DEF ProcStep, Request, ReceiveOk, ReceiveRejected, TimeOut,
       Finish, Kill, Exit, srvVars
  <2>5. ASSUME AcquireEnqueue(p) PROVE Stays(u)
    <3>1. CASE UserOf[p] = u
      <4>1. wait_queues'[u] = Append(s, p)
        BY <2>1, <2>5, <3>1 DEF AcquireEnqueue
      <4>2. Append(s, p) # <<>> /\ Head(Append(s, p)) = h
        <5> HIDE DEF s
        <5>1. s \in Seq(Procs) /\ s # <<>>
          BY <2>1
        <5>2. Append(s, p) # <<>>
          BY <5>1, AppendProperties
        <5> QED BY <5>1, <5>2, HeadTailAppend
      <4> QED BY <4>1, <4>2 DEF Stays
    <3>2. CASE UserOf[p] # u
      BY <2>1, <2>5, <3>2 DEF AcquireEnqueue, Stays
    <3> QED BY <3>1, <3>2
  <2>6. ASSUME FreeAndDequeue(p) PROVE Stays(u)
    <3>1. CASE UserOf[p] = u
      <4>1. counts[u] \in Nat
        BY <1>1 DEF TypeOK
      <4>2. Decrement(counts[u]) \in Nat
        BY <4>1 DEF Decrement
      <4>3. Decrement(counts[u]) < LimitOf[h]
        BY <2>6, <3>1 DEF FreeAndDequeue, CanDequeue, HasRoom
      <4>4. LimitOf[h] \in Int
        BY <2>1
      <4> HIDE DEF h, s
      <4> QED BY <2>1, <4>2, <4>3, <4>4
    <3>2. CASE UserOf[p] # u
      BY <2>1, <2>6, <3>2 DEF FreeAndDequeue, Stays
    <3> QED BY <3>1, <3>2
  <2>7. CASE SrvStep(p)
    <3>1. CASE AcquireEnqueue(p) \/ FreeAndDequeue(p)
      BY <2>5, <2>6, <3>1
    <3>2. CASE ~(AcquireEnqueue(p) \/ FreeAndDequeue(p))
      BY <2>2, <2>7, <3>2 DEF SrvStep, HandleAcquire, HandleRelease, HandleDown,
         AcquireGrant, AcquireReject, FreeSlot, FreeOnly, IgnoreSignal, srvVars
    <3> QED BY <3>1, <3>2
  <2> QED BY <2>3, <2>4, <2>7
<1> QED BY <1>1, TypeCorrect, CountsAgree, PTL DEF Spec

----------------------------------------------------------------------------
(* The limiter implements the first-come-first-served line. *)

\* The test of the code, on the counter row, is the test of the line, on the
\* holders, also for the row as it stands between a release and a hand-over.
LEMMA RoomIsAdmissible ==
  ASSUME TypeOK, IInv, NEW p \in Procs
  PROVE  /\ HasRoom(counts[UserOf[p]], p) <=> Admission!Admissible(p, slots)
         /\ \A r \in slots : UserOf[r] = UserOf[p] =>
              (HasRoom(Decrement(counts[UserOf[r]]), p) <=>
                 Admission!Admissible(p, slots \ {r}))
<1>1. UserOf[p] \in Users /\ slots \in SUBSET Procs
  BY DEF TypeOK
<1>2. counts[UserOf[p]] = Cardinality(Owned(slots, UserOf[p]))
  BY <1>1 DEF IInv, CountsMatchSlots, SlotsOf, Owned
<1>3. \A S \in SUBSET Procs :
        HasRoom(Cardinality(Owned(S, UserOf[p])), p) <=> Admission!Admissible(p, S)
  <2>1. ASSUME NEW S PROVE Admission!Cardinality(S) = Cardinality(S)
    BY DEF Admission!Cardinality, Cardinality
  <2> QED
    BY <2>1 DEF HasRoom, Admission!Admissible, Admission!HoldersOf, Owned
<1>4. ASSUME NEW r \in slots, UserOf[r] = UserOf[p]
      PROVE  HasRoom(Decrement(counts[UserOf[r]]), p) <=>
               Admission!Admissible(p, slots \ {r})
  <2>1. /\ Cardinality(Owned(slots \ {r}, UserOf[p])) = counts[UserOf[p]] - 1
        /\ counts[UserOf[p]] \in Nat \ {0}
    BY <1>1, <1>2, <1>4, OwnedRemove
  <2>2. Decrement(counts[UserOf[r]]) = Cardinality(Owned(slots \ {r}, UserOf[p]))
    BY <1>4, <2>1 DEF Decrement
  <2> QED BY <1>1, <1>3, <2>2
<1> QED BY <1>1, <1>2, <1>3, <1>4

\* A call that is granted enters the line of AdmissionQueue, one that is queued
\* joins it, and one that is refused leaves it alone.
LEMMA AcquireRefines ==
  ASSUME TypeOK, IInv, NEW p \in Procs, HandleAcquire(p)
  PROVE  Admission!Enter(p) \/ Admission!Join(p) \/ UNCHANGED <<slots, wait_queues>>
<1>1. p \notin slots /\ ~Queued(p)
  BY DEF HandleAcquire, IInv, QueueOK
<1>2. Admission!New(p)
  BY <1>1 DEF Admission!New, Admission!InLine, Queued, Waiting
<1>3. CASE AcquireGrant(p)
  BY <1>2, <1>3, RoomIsAdmissible DEF AcquireGrant, Admission!Enter
<1>4. CASE AcquireEnqueue(p)
  BY <1>2, <1>4, RoomIsAdmissible DEF AcquireEnqueue, Admission!Join
<1>5. CASE AcquireReject(p)
  BY <1>5 DEF AcquireReject, srvVars
<1> QED BY <1>3, <1>4, <1>5 DEF HandleAcquire

\* A row that comes free, by a release or by a death, leaves the line, and its
\* place goes to the head exactly when the line would give it to the head.
LEMMA FreeRefines ==
  ASSUME TypeOK, IInv, NEW p \in Procs, FreeSlot(p)
  PROVE  Admission!Leave(p)
<1> DEFINE u == UserOf[p]
           h == Head(wait_queues[u])
           rest == slots \ {p}
<1>1. p \in slots /\ u \in Users
  BY DEF FreeSlot
<1>2. wait_queues[u] # <<>> => h \in Procs /\ UserOf[h] = u
  <2> SUFFICES ASSUME wait_queues[u] # <<>> PROVE h \in Procs /\ UserOf[h] = u
    OBVIOUS
  <2>1. h = wait_queues[u][1] /\ h \in Procs /\ 1 \in 1..Len(wait_queues[u])
    BY <1>1, HeadTail
  <2> QED BY <1>1, <2>1 DEF IInv, QueueOK
<1>3. wait_queues[u] # <<>> =>
        (HasRoom(Decrement(counts[u]), h) <=> Admission!Admissible(h, rest))
  BY <1>1, <1>2, RoomIsAdmissible
<1>4. CASE FreeAndDequeue(p)
  <2>1. /\ wait_queues[u] # <<>> /\ HasRoom(Decrement(counts[u]), h)
        /\ slots' = rest \cup {h}
        /\ wait_queues' = [wait_queues EXCEPT ![u] = Tail(@)]
    BY <1>4 DEF FreeAndDequeue, CanDequeue
  <2> QED BY <1>1, <1>3, <2>1 DEF Admission!Leave
<1>5. CASE FreeOnly(p)
  <2>1. /\ wait_queues[u] = <<>> \/ ~HasRoom(Decrement(counts[u]), h)
        /\ slots' = rest /\ wait_queues' = wait_queues
    BY <1>5 DEF FreeOnly, CanDequeue
  <2> QED BY <1>1, <1>3, <2>1 DEF Admission!Leave
<1> QED BY <1>4, <1>5 DEF FreeSlot

\* Counter rows, monitors, mailboxes, process deaths and restarts implement
\* AdmissionQueue: every step is a step of the line or changes nothing in it.
THEOREM Refinement == Spec => ImplementsAdmissionQueue
<1>1. Init => Admission!Init
  BY DEF Init, Admission!Init
<1>2. ASSUME TypeOK, IInv, [Next]_vars
      PROVE  [Admission!Next]_<<slots, wait_queues>>
  <2>1. ASSUME NEW p \in Procs, ProcStep(p) PROVE UNCHANGED <<slots, wait_queues>>
    BY <2>1 DEF ProcStep, Request, ReceiveOk, ReceiveRejected, TimeOut, Finish,
                Kill, Exit, srvVars
  <2>2. ASSUME NEW p \in Procs, HandleAcquire(p)
        PROVE  [Admission!Next]_<<slots, wait_queues>>
    BY <1>2, <2>2, AcquireRefines DEF Admission!Next
  <2>3. ASSUME NEW p \in Procs, FreeSlot(p)
        PROVE  [Admission!Next]_<<slots, wait_queues>>
    BY <1>2, <2>3, FreeRefines DEF Admission!Next
  <2>4. ASSUME NEW p \in Procs, IgnoreSignal(p)
        PROVE  UNCHANGED <<slots, wait_queues>>
    BY <2>4 DEF IgnoreSignal, srvVars
  <2>5. CASE Crash
    BY <2>5 DEF Crash, Admission!Next, Admission!Forget
  <2>6. CASE UNCHANGED vars
    BY <2>6 DEF vars
  <2> QED
    BY <1>2, <2>1, <2>2, <2>3, <2>4, <2>5, <2>6
    DEF Next, SrvStep, HandleRelease, HandleDown
<1> QED
  BY <1>1, <1>2, Invariance, TypeCorrect, PTL
  DEF Spec, ImplementsAdmissionQueue, Admission!Spec
==============================================================================
