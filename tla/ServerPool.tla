----------------------------- MODULE ServerPool -----------------------------
(***************************************************************************)
(* The multi-threaded web server of projects/p4/p4a/server.c: the master   *)
(* thread (main) accepts connections into a ring of NumBuff descriptors,   *)
(* and the worker threads take them out, under one mutex m and two         *)
(* condition variables fill and empty.                                     *)
(*                                                                         *)
(* A connection is named by the order in which accept() returned it: 1, 2, *)
(* ...; 0 stands for the indeterminate contents of fresh malloc memory and *)
(* of an unset local.  What requestHandle does with a connection is in     *)
(* Requests; here a worker is in it for as long as it likes.              *)
(*                                                                         *)
(* A thread's pc is where it is between two shared accesses:               *)
(*   "accept"  the master, in Accept (server.c:129)                        *)
(*   "lock"    about to take m (132, 61)                                   *)
(*   "check"   holds m, about to evaluate its while condition (135, 64)    *)
(*   "wait"    in pthread_cond_wait (137, 66): asleep while it is in empty *)
(*             or fill, otherwise awake and waiting to own m again         *)
(*   "unlock"  holds m, its update done (146, 75)                          *)
(*   "handle"  a worker, in requestHandle (77)                             *)
(*   "close"   a worker, about to Close (78)                               *)
(***************************************************************************)
EXTENDS Integers, FiniteSets

CONSTANTS Worker,      \* the threads created at server.c:118-121
          Master,      \* the initial thread, running main's loop
          Nobody,      \* no thread: the value of m while it is free
          NumBuff,     \* numbuff, the size of the ring
          MaxConn,     \* bound: connections that clients open
          MaxSpurious  \* bound: wakeups no signal caused (POSIX allows them)

ASSUME ThreadAssumption ==
  /\ Worker # {} /\ IsFiniteSet(Worker)
  /\ Master \notin Worker
  /\ Nobody \notin Worker \cup {Master}

\* getargs rejects a buffer count below 1 (server.c:53).
ASSUME BoundAssumption ==
  NumBuff \in Nat \ {0} /\ MaxConn \in Nat /\ MaxSpurious \in Nat

Thread == Worker \cup {Master}
Conn   == 1 .. MaxConn
Slot   == 0 .. NumBuff - 1

VARIABLES
  buff, count, write_buffer_no, read_buffer_no,  \* the ring (server.c:11-15)
  m,                   \* the thread that owns the mutex, or Nobody
  fill, empty,         \* the threads asleep on each condition variable
  pc,                  \* where each thread is
  connfd,              \* each thread's local connfd (59, 85)
  accepted,            \* connections accept() has returned so far
  taken,               \* connections the workers have taken out so far
  closed,              \* connections a worker has closed
  spurious,            \* spurious wakeups so far
  phase,               \* "running", then "exiting" once exit_handler has
                       \* freed the ring, then "exited"
  handler              \* the threads that are in exit_handler

ring == <<buff, count, write_buffer_no, read_buffer_no>>
life == <<phase, handler>>
vars == <<ring, m, fill, empty, pc, connfd, accepted, taken, closed,
          spurious, life>>
------------------------------------------------------------------------------
\* main up to its loop: nothing accepted, every worker about to lock.
Init ==
  /\ buff = [i \in Slot |-> 0]
  /\ count = 0 /\ write_buffer_no = 0 /\ read_buffer_no = 0
  /\ m = Nobody
  /\ fill = {} /\ empty = {}
  /\ pc = [t \in Thread |-> IF t = Master THEN "accept" ELSE "lock"]
  /\ connfd = [t \in Thread |-> 0]
  /\ accepted = 0 /\ taken = 0 /\ closed = {}
  /\ spurious = 0
  /\ phase = "running" /\ handler = {}

\* A thread runs unless the process is gone or the thread is in the handler.
Runs(t) == phase # "exited" /\ t \notin handler

Goto(t, from, to) == pc[t] = from /\ pc' = [pc EXCEPT ![t] = to]

\* The index after `i`: post-increment, then `% numbuff`.
AfterNoWrap(i) == i + 1
After(i) == (i + 1) % NumBuff

\* pthread_cond_signal: one of the sleepers wakes, none if there is none.
SignalLost(cv) == {cv}
Signalled(cv) == IF cv = {} THEN {cv} ELSE {cv \ {t} : t \in cv}

\* The conditions the two threads wait for (server.c:135, 64).
HasRoomAlways == TRUE
HasRoom == count # NumBuff
HasRequestAlways == TRUE
HasRequest == count # 0

\* What a worker reads at buff[read_buffer_no]; after the handler's free() it
\* is what was there or garbage of the allocator.
Fetched == {buff[read_buffer_no]} \cup (IF phase = "running" THEN {} ELSE {0})
------------------------------------------------------------------------------
\* connfd = Accept(listenfd, ...)
Accept ==
  /\ Runs(Master) /\ Goto(Master, "accept", "lock")
  /\ accepted < MaxConn
  /\ accepted' = accepted + 1
  /\ connfd' = [connfd EXCEPT ![Master] = accepted + 1]
  /\ UNCHANGED <<ring, m, fill, empty, taken, closed, spurious, life>>

\* Pthread_mutex_lock(&m)
Lock(t) ==
  /\ Runs(t) /\ Goto(t, "lock", "check")
  /\ m = Nobody /\ m' = t
  /\ UNCHANGED <<ring, fill, empty, connfd, accepted, taken, closed, spurious,
                 life>>

\* Pthread_mutex_unlock(&m): the master accepts again, a worker handles.
Unlock(t) ==
  /\ Runs(t) /\ Goto(t, "unlock", IF t = Master THEN "accept" ELSE "handle")
  /\ m' = Nobody
  /\ UNCHANGED <<ring, fill, empty, connfd, accepted, taken, closed, spurious,
                 life>>

\* The two waits release m and go to sleep in one step, as POSIX requires.
MasterWait ==
  /\ Runs(Master) /\ Goto(Master, "check", "wait")
  /\ ~HasRoom
  /\ m' = Nobody /\ empty' = empty \cup {Master}
  /\ UNCHANGED <<ring, fill, connfd, accepted, taken, closed, spurious, life>>

WorkerWait(w) ==
  /\ Runs(w) /\ Goto(w, "check", "wait")
  /\ ~HasRequest
  /\ m' = Nobody /\ fill' = fill \cup {w}
  /\ UNCHANGED <<ring, empty, connfd, accepted, taken, closed, spurious, life>>

\* A waiter that is awake gets m back and re-evaluates its condition.
Relock(t) ==
  /\ Runs(t) /\ Goto(t, "wait", "check")
  /\ t \notin fill \cup empty
  /\ m = Nobody /\ m' = t
  /\ UNCHANGED <<ring, fill, empty, connfd, accepted, taken, closed, spurious,
                 life>>

SpuriousWake(t) ==
  /\ Runs(t) /\ t \in fill \cup empty
  /\ spurious < MaxSpurious /\ spurious' = spurious + 1
  /\ fill' = fill \ {t} /\ empty' = empty \ {t}
  /\ UNCHANGED <<ring, m, pc, connfd, accepted, taken, closed, life>>

\* server.c:141-144: store, advance, count, signal fill.
MasterPut ==
  /\ Runs(Master) /\ Goto(Master, "check", "unlock")
  /\ HasRoom
  /\ buff' = IF phase = "running"
             THEN [buff EXCEPT ![write_buffer_no] = connfd[Master]]
             ELSE buff
  /\ write_buffer_no' = After(write_buffer_no)
  /\ count' = count + 1
  /\ fill' \in Signalled(fill)
  /\ UNCHANGED <<read_buffer_no, m, empty, connfd, accepted, taken, closed,
                 spurious, life>>

\* server.c:70-73: fetch, advance, signal empty, count.
WorkerTake(w) ==
  /\ Runs(w) /\ Goto(w, "check", "unlock")
  /\ HasRequest
  /\ \E c \in Fetched : connfd' = [connfd EXCEPT ![w] = c]
  /\ read_buffer_no' = After(read_buffer_no)
  /\ empty' \in Signalled(empty)
  /\ count' = count - 1
  /\ taken' = taken + 1
  /\ UNCHANGED <<buff, write_buffer_no, m, fill, accepted, closed, spurious,
                 life>>

\* requestHandle(connfd) returns.
HandleReturns(w) ==
  /\ Runs(w) /\ Goto(w, "handle", "close")
  /\ UNCHANGED <<ring, m, fill, empty, connfd, accepted, taken, closed,
                 spurious, life>>

\* Close(connfd)
CloseConn(w) ==
  /\ Runs(w) /\ Goto(w, "close", "lock")
  /\ closed' = closed \cup {connfd[w]}
  /\ UNCHANGED <<ring, m, fill, empty, connfd, accepted, taken, spurious, life>>

\* SIGINT: some thread runs exit_handler, which frees the ring the other
\* threads are still using.  One more SIGINT, in a thread that is not in the
\* handler, frees it again: allocators abort the process, or do not notice ...
Interrupt(t) ==
  /\ phase # "exited" /\ t \notin handler
  /\ handler' = handler \cup {t}
  /\ \/ phase' = "exiting"
     \/ phase = "exiting" /\ phase' = "exited"
  /\ UNCHANGED <<ring, m, fill, empty, pc, connfd, accepted, taken, closed,
                 spurious>>

\* ... and then exits the process.
Exit ==
  /\ phase = "exiting"
  /\ phase' = "exited"
  /\ UNCHANGED <<ring, m, fill, empty, pc, connfd, accepted, taken, closed,
                 spurious, handler>>

\* A wrapper of cs537.c that fails calls unix_error, which exits the process:
\* Accept, any call of requestHandle (a write to a client that left), Close.
UnixError(t) ==
  /\ Runs(t) /\ pc[t] \in {"accept", "handle", "close"}
  /\ phase' = "exited"
  /\ UNCHANGED <<ring, m, fill, empty, pc, connfd, accepted, taken, closed,
                 spurious, handler>>
------------------------------------------------------------------------------
MasterStep == Accept \/ MasterWait \/ MasterPut
WorkerStep(w) ==
  WorkerWait(w) \/ WorkerTake(w) \/ HandleReturns(w) \/ CloseConn(w)
ThreadStep(t) == Lock(t) \/ Unlock(t) \/ Relock(t)

Next ==
  \/ MasterStep
  \/ \E w \in Worker : WorkerStep(w)
  \/ \E t \in Thread : ThreadStep(t) \/ SpuriousWake(t)
  \/ \E t \in Thread : Interrupt(t) \/ UnixError(t)
  \/ Exit

Spec == Init /\ [][Next]_vars

(***************************************************************************)
(* The scheduler of the host runs every runnable thread, and a free mutex  *)
(* goes to one of the threads that want it.  Nothing makes a client        *)
(* connect, a handler return, a spurious wakeup happen or the process end. *)
(***************************************************************************)
Fairness ==
  /\ WF_vars(MasterWait \/ MasterPut)
  /\ \A w \in Worker : WF_vars(WorkerWait(w) \/ WorkerTake(w) \/ CloseConn(w))
  /\ \A t \in Thread : WF_vars(ThreadStep(t))

FairSpec == Spec /\ Fairness
------------------------------------------------------------------------------
(***************************************************************************)
(* Properties.                                                             *)
(***************************************************************************)
PC == {"accept", "lock", "check", "wait", "unlock", "handle", "close"}

\* Type correctness of every variable; the two indices stay inside the ring.
TypeOK ==
  /\ buff \in [Slot -> Conn \cup {0}]
  /\ count \in 0 .. NumBuff
  /\ write_buffer_no \in Slot /\ read_buffer_no \in Slot
  /\ m \in Thread \cup {Nobody}
  /\ fill \subseteq Worker /\ empty \subseteq {Master}
  /\ pc \in [Thread -> PC]
  /\ connfd \in [Thread -> Conn \cup {0}]
  /\ accepted \in 0 .. MaxConn /\ taken \in Nat
  /\ closed \subseteq Conn \cup {0}
  /\ spurious \in 0 .. MaxSpurious
  /\ phase \in {"running", "exiting", "exited"}
  /\ handler \subseteq Thread

\* The master holds a connection that is not in the ring yet.
InHand == IF pc[Master] \in {"lock", "check", "wait"} THEN 1 ELSE 0

\* The ring is a FIFO: the occupied slots hold, in order from
\* read_buffer_no, exactly the connections accepted and not yet taken, and
\* the master has at most one more in its hand.  It relates the ring to the
\* history of accept() calls across every interleaving of the two critical
\* sections, index wrap-around included.
RingIsFifo ==
  /\ accepted = taken + count + InHand
  /\ InHand = 1 => connfd[Master] = accepted
  /\ phase = "running" =>
       \A i \in 0 .. count - 1 :
         buff[(read_buffer_no + i) % NumBuff] = taken + i + 1

\* Workers on their way to evaluate `count == 0`.
EnRoute == {w \in Worker : pc[w] \in {"lock", "check"}
                             \/ (pc[w] = "wait" /\ w \notin fill)}

\* No wakeup is lost, whatever the timing of signals and waits: while a
\* worker sleeps, every queued request has a worker on its way to it; and
\* the master sleeps only while the ring is full.
NoLostWakeup ==
  /\ fill # {} => count <= Cardinality(EnRoute)
  /\ empty # {} => count = NumBuff

\* Every accepted connection has exactly one holder at a time, or is closed:
\* no two workers share a descriptor, none closes one that is queued or in
\* the master's hand, and none is dropped (server.c never calls Close but at
\* line 78).
Held(w) == IF pc[w] \in {"unlock", "handle", "close"} THEN {connfd[w]} ELSE {}
Ownership ==
  phase = "running" =>
    /\ \A v, w \in Worker : v # w => Held(v) \cap Held(w) = {}
    /\ \A w \in Worker : Held(w) \cap closed = {}
    /\ (UNION {Held(w) : w \in Worker}) \cup closed = 1 .. taken

\* While the process runs, every accepted connection is eventually taken by
\* a worker -- although handlers need not return -- unless from some point
\* on every worker is stuck inside requestHandle for good.
AllStuck == \A w \in Worker : pc[w] = "handle"
Dispatched ==
  \/ <>[]AllStuck
  \/ \A c \in Conn : (accepted >= c) ~> (taken >= c \/ phase # "running")

\* The pool implements the promise of ConnQueue: the ring and the master's
\* hand are the backlog, and a worker serves from the fetch to the Close.
Promise == INSTANCE ConnQueue WITH
  Backlog  <- NumBuff + 1,
  arrived  <- accepted,
  assigned <- taken,
  serving  <- [w \in Worker |-> IF pc[w] \in {"unlock", "handle", "close"}
                                THEN connfd[w] ELSE 0],
  up       <- phase = "running"
Implements == Promise!Spec
==============================================================================
