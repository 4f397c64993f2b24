------------------------------- MODULE MCMlpq -------------------------------
(* With two levels the top one has a slice of two ticks, so that a process  *)
(* is preempted inside it, and the lower one a slice of one tick: what      *)
(* starvation takes needs long behaviours.  With one level it has two.      *)
EXTENDS Mlpq

TwoTicks == [l \in Level |-> 2]
ShortLow == [l \in Level |-> IF l = NLAYER - 1 THEN 1 ELSE 2]

\* With a single level nothing the scheduler or a system call does depends on
\* the counters, on what fork() loaded of them, on laststate or on the history
\* variable, and neither do OneCpu and WaitNotLost: states that differ only
\* there have the same futures.  (Fork's bound is out of reach then.)
OneLevelView == <<proc, kpc, np, starve_clock, lock, spc, ii, idx, cur>>
==============================================================================
