----------------------------- MODULE MCAlertState -----------------------------
EXTENDS AlertState, TLC

Normal == [rank |-> 0, key |-> "normal"]
Drop == [rank |-> 1, key |-> "drop"]
Crash == [rank |-> 2, key |-> "drop"]

Seen(t, s, ok, d) == [at |-> t, signal |-> s, pass |-> ok, day |-> d]

MCObservation ==
  { Seen(1, Drop, TRUE, 1), Seen(2, Normal, TRUE, 1), Seen(2, Crash, TRUE, 1), Seen(3, Drop, TRUE, 2),
    Seen(3, Normal, FALSE, 1) }

Symmetry == Permutations(Job) \cup Permutations(Slot)
=============================================================================
