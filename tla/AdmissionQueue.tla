--------------------------- MODULE AdmissionQueue ---------------------------
(***************************************************************************)
(* What the concurrency limiter promises, without counters, monitors,      *)
(* mailboxes or processes that die: per user, a set of holders and a       *)
(* first-come-first-served line.  Places are given to a newcomer only      *)
(* below its limit, and a place that comes free goes to the head of the    *)
(* line, in the same step, whenever the head's limit admits it.            *)
(***************************************************************************)
EXTENDS Integers, Sequences, FiniteSets

CONSTANTS Users, Procs, UserOf, LimitOf, WaitQueueExtra

VARIABLES holders, line

HoldersOf(u, hs) == {p \in hs : UserOf[p] = u}
Admissible(p, hs) == Cardinality(HoldersOf(UserOf[p], hs)) < LimitOf[p]
InLine(p) == \E i \in 1..Len(line[UserOf[p]]) : line[UserOf[p]][i] = p
New(p) == p \notin holders /\ ~InLine(p)

Init ==
  /\ holders = {}
  /\ line = [u \in Users |-> <<>>]

Enter(p) ==
  /\ New(p) /\ Admissible(p, holders)
  /\ holders' = holders \cup {p}
  /\ UNCHANGED line

Join(p) ==
  /\ New(p) /\ ~Admissible(p, holders)
  /\ Len(line[UserOf[p]]) < WaitQueueExtra
  /\ line' = [line EXCEPT ![UserOf[p]] = Append(@, p)]
  /\ UNCHANGED holders

Leave(p) ==
  LET u == UserOf[p]
      rest == holders \ {p}
      head == Head(line[u])
  IN /\ p \in holders
     /\ \/ /\ line[u] # <<>> /\ Admissible(head, rest)
           /\ holders' = rest \cup {head}
           /\ line' = [line EXCEPT ![u] = Tail(@)]
        \/ /\ line[u] = <<>> \/ ~Admissible(head, rest)
           /\ holders' = rest
           /\ UNCHANGED line

\* A restart forgets everybody.
Forget ==
  /\ holders' = {}
  /\ line' = [u \in Users |-> <<>>]

Next == (\E p \in Procs : Enter(p) \/ Join(p) \/ Leave(p)) \/ Forget

Spec == Init /\ [][Next]_<<holders, line>>
=============================================================================
