------------------------------ MODULE ConnQueue ------------------------------
(***************************************************************************)
(* What the web server's pool (projects/p4/p4a/server.c) promises, with no *)
(* mutex, ring or condition variable in sight: connections are numbered in *)
(* the order accept() returned them, each is given to exactly one worker,  *)
(* in that order, a worker has at most one at a time, and at most Backlog  *)
(* accepted connections wait for a worker.                                 *)
(*                                                                         *)
(* Once the process is on its way out (up is FALSE) nothing is promised.   *)
(***************************************************************************)
EXTENDS Naturals

CONSTANTS Worker,    \* the worker threads
          Backlog    \* how many accepted connections may wait for a worker

VARIABLES arrived,   \* connections accepted so far; they are 1 .. arrived
          assigned,  \* connections given to a worker so far: 1 .. assigned
          serving,   \* the connection each worker is serving, 0 for none
          up         \* the process is still running normally

vars == <<arrived, assigned, serving, up>>
------------------------------------------------------------------------------
Init ==
  /\ arrived = 0
  /\ assigned = 0
  /\ serving = [w \in Worker |-> 0]
  /\ up = TRUE

Arrive ==
  /\ up
  /\ arrived < assigned + Backlog
  /\ arrived' = arrived + 1
  /\ UNCHANGED <<assigned, serving, up>>

Assign(w) ==
  /\ up
  /\ serving[w] = 0
  /\ assigned < arrived
  /\ assigned' = assigned + 1
  /\ serving' = [serving EXCEPT ![w] = assigned + 1]
  /\ UNCHANGED <<arrived, up>>

Finish(w) ==
  /\ up
  /\ serving[w] # 0
  /\ serving' = [serving EXCEPT ![w] = 0]
  /\ UNCHANGED <<arrived, assigned, up>>

Stop ==
  /\ up
  /\ up' = FALSE

Stopped ==
  /\ ~up
  /\ up' = FALSE

Next ==
  \/ Arrive
  \/ \E w \in Worker : Assign(w) \/ Finish(w)
  \/ Stop
  \/ Stopped

Spec == Init /\ [][Next]_vars
==============================================================================
