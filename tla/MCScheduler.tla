----------------------------- MODULE MCScheduler -----------------------------
(* Small instances of Scheduler for TLC: the triggers callers use. *)
EXTENDS Scheduler

OneShotAt1 == [kind |-> "oneshot", at |-> 1]
Every1From1 == [kind |-> "interval", every |-> 1, start |-> 1]
DailyAt1 == [kind |-> "daily", at |-> 1]

MCOnceAndDaily == {OneShotAt1, DailyAt1}
MCOnceAndInterval == {OneShotAt1, Every1From1}
MCOneShot == {OneShotAt1}

\* How deep the threads nest calls: none does, one does, all do.
Nesting(threads) == [th \in Threads |-> IF th \in threads THEN 2 ELSE 1]
MCFlat == Nesting({})
MCOneNests == Nesting({CHOOSE th \in Threads : TRUE})
MCAllNest == Nesting(Threads)
=============================================================================
