----------------------------- MODULE AbstractLock -----------------------------
(* What threads/synch.c promises of a lock: "A lock can be held by at most  *)
(* a single thread at any given time", and while threads ask for a free     *)
(* lock one of them gets it.  Which one is left open: lock_acquire is not   *)
(* first come, first served.                                                *)
CONSTANTS Thread, NoThread

VARIABLES owner, wanting

Init == owner = NoThread /\ wanting = {}

Ask(t) == t \notin wanting /\ owner # t /\ wanting' = wanting \cup {t} /\ UNCHANGED owner

Take(t) ==
  /\ owner = NoThread
  /\ owner' = t
  /\ wanting' = wanting \ {t}

Give(t) == owner = t /\ owner' = NoThread /\ UNCHANGED wanting

Next == \E t \in Thread : Ask(t) \/ Take(t) \/ Give(t)

TakeWanted == \E t \in wanting : Take(t)

SafeSpec == Init /\ [][Next]_<<owner, wanting>>

\* A lock that stays free while it is wanted does not stay untaken.
Spec == SafeSpec /\ WF_<<owner, wanting>>(TakeWanted)
=============================================================================
