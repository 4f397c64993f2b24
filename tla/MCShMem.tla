------------------------------ MODULE MCShMem ------------------------------
(* The regions are interchangeable: the code treats every key alike.        *)
EXTENDS ShMem, TLC

Symmetry == Permutations(Key)

\* Once a call has acted on a stale count, RefCount, SharedAlike and IsolatedElse
\* hold of all that follows, for stale stays TRUE.
NotStale == ~stale
==============================================================================
