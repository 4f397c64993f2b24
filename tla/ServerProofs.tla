---------------------------- MODULE ServerProofs ----------------------------
(***************************************************************************)
(* Proofs about the web server.  ServerPool, for every number of workers,  *)
(* ring size and number of connections: the types, mutual exclusion on m,  *)
(* that the ring is a FIFO of the accepted connections, and that the pool  *)
(* implements ConnQueue.  Requests, for every number of workers that share *)
(* the children of the process: the calls of wait() and the children match.*)
(***************************************************************************)
EXTENDS ServerPool, Requests, FiniteSetTheorems, TLAPS

------------------------------------------------------------------------------
(* Arithmetic of the ring. *)

\* Advancing an index stays in the ring and wraps at its end.
LEMMA AfterIsLinear ==
  ASSUME NEW i \in Slot
  PROVE  After(i) = IF i + 1 = NumBuff THEN 0 ELSE i + 1
BY BoundAssumption DEF After, Slot

\* The slot `d` places after slot `i`, without the modulus.
Wrapped(i, d) == IF i + d < NumBuff THEN i + d ELSE i + d - NumBuff

LEMMA WrappedFacts ==
  ASSUME NEW i \in Slot, NEW d \in 0 .. NumBuff
  PROVE  /\ Wrapped(i, d) \in Slot
         /\ Wrapped(i, 0) = i
         /\ d # NumBuff => After(Wrapped(i, d)) = Wrapped(i, d + 1)
         /\ d # NumBuff => Wrapped(After(i), d) = Wrapped(i, d + 1)
         /\ \A e \in 0 .. d - 1 : d # NumBuff => Wrapped(i, e) # Wrapped(i, d)
<1>1. Wrapped(i, d) \in Slot
  BY BoundAssumption DEF Wrapped, Slot
<1>2. Wrapped(i, 0) = i
  BY BoundAssumption DEF Wrapped, Slot
<1>3. d # NumBuff => After(Wrapped(i, d)) = Wrapped(i, d + 1)
  BY <1>1, AfterIsLinear, BoundAssumption DEF Wrapped, Slot
<1>4. d # NumBuff => Wrapped(After(i), d) = Wrapped(i, d + 1)
  BY AfterIsLinear, BoundAssumption DEF Wrapped, Slot
<1>5. \A e \in 0 .. d - 1 : d # NumBuff => Wrapped(i, e) # Wrapped(i, d)
  BY BoundAssumption DEF Wrapped, Slot
<1> QED
  BY <1>1, <1>2, <1>3, <1>4, <1>5

LEMMA ModIsWrapped ==
  ASSUME NEW i \in Slot, NEW d \in Slot
  PROVE  (i + d) % NumBuff = Wrapped(i, d)
<1> USE BoundAssumption DEF Slot, Wrapped
<1>1. CASE i + d < NumBuff
  BY <1>1
<1>2. CASE ~(i + d < NumBuff)
  <2>1. i + d - NumBuff \in 0 .. NumBuff - 1
    BY <1>2
  <2>2. i + d = NumBuff * 1 + (i + d - NumBuff)
    OBVIOUS
  <2> QED
    BY <2>1, <2>2, <1>2
<1> QED
  BY <1>1, <1>2

------------------------------------------------------------------------------
(* Types. *)

LEMMA InitType == Init => TypeOK
BY ThreadAssumption, BoundAssumption
   DEF Init, TypeOK, Thread, Conn, Slot, PC

LEMMA TypeStep == TypeOK /\ [Next]_vars => TypeOK'
<1> SUFFICES ASSUME TypeOK, [Next]_vars
             PROVE  TypeOK'
  OBVIOUS
<1> USE ThreadAssumption, BoundAssumption
    DEF TypeOK, Thread, Conn, PC, Goto, Runs, ring, life
<1>1. CASE Accept
  BY <1>1 DEF Accept
<1>2. CASE MasterWait
  BY <1>2 DEF MasterWait
<1>3. CASE MasterPut
  <2>1. After(write_buffer_no) \in Slot
    BY AfterIsLinear DEF Slot
  <2>2. count' \in 0 .. NumBuff
    BY <1>3 DEF MasterPut, HasRoom
  <2>3. buff' \in [Slot -> Conn \cup {0}]
    BY <1>3 DEF MasterPut
  <2>4. fill' \subseteq Worker
    BY <1>3 DEF MasterPut, Signalled
  <2> QED
    BY <1>3, <2>1, <2>2, <2>3, <2>4 DEF MasterPut
<1>4. ASSUME NEW w \in Worker, WorkerWait(w) PROVE TypeOK'
  BY <1>4 DEF WorkerWait
<1>5. ASSUME NEW w \in Worker, WorkerTake(w) PROVE TypeOK'
  <2>1. After(read_buffer_no) \in Slot
    BY AfterIsLinear DEF Slot
  <2>2. count' \in 0 .. NumBuff
    BY <1>5 DEF WorkerTake, HasRequest
  <2>3. Fetched \subseteq Conn \cup {0}
    BY DEF Fetched
  <2>4. connfd' \in [Thread -> Conn \cup {0}]
    BY <1>5, <2>3 DEF WorkerTake
  <2>5. empty' \subseteq {Master}
    BY <1>5 DEF WorkerTake, Signalled
  <2> QED
    BY <1>5, <2>1, <2>2, <2>4, <2>5 DEF WorkerTake
<1>6. ASSUME NEW w \in Worker, HandleReturns(w) PROVE TypeOK'
  BY <1>6 DEF HandleReturns
<1>7. ASSUME NEW w \in Worker, CloseConn(w) PROVE TypeOK'
  BY <1>7 DEF CloseConn
<1>8. ASSUME NEW t \in Thread, Lock(t) PROVE TypeOK'
  BY <1>8 DEF Lock
<1>9. ASSUME NEW t \in Thread, Unlock(t) PROVE TypeOK'
  BY <1>9 DEF Unlock
<1>10. ASSUME NEW t \in Thread, Relock(t) PROVE TypeOK'
  BY <1>10 DEF Relock
<1>11. ASSUME NEW t \in Thread, SpuriousWake(t) PROVE TypeOK'
  BY <1>11 DEF SpuriousWake
<1>12. ASSUME NEW t \in Thread, Interrupt(t) PROVE TypeOK'
  BY <1>12 DEF Interrupt
<1>13. ASSUME NEW t \in Thread, UnixError(t) PROVE TypeOK'
  BY <1>13 DEF UnixError
<1>14. CASE Exit
  BY <1>14 DEF Exit
<1>15. CASE UNCHANGED vars
  BY <1>15 DEF vars
<1> QED
  BY <1>1, <1>2, <1>3, <1>4, <1>5, <1>6, <1>7, <1>8, <1>9, <1>10, <1>11,
     <1>12, <1>13, <1>14, <1>15
     DEF Next, MasterStep, WorkerStep, ThreadStep

\* Every variable keeps its type; the ring's count and indices keep their
\* range whatever the threads' interleaving (server.c:70-73, 141-143).
THEOREM TypeCorrect == Spec => []TypeOK
BY InitType, TypeStep, PTL DEF Spec

------------------------------------------------------------------------------
(***************************************************************************)
(* The inductive invariant.  RingIsFifo alone is not inductive: it needs   *)
(* that a thread updating the ring owns m and is where its pc says, that   *)
(* the write index is count places after the read index, and that slots    *)
(* are named without the modulus.                                          *)
(***************************************************************************)

\* A thread is between lock and unlock exactly when it owns m.
Mutex == \A t \in Thread : pc[t] \in {"check", "unlock"} <=> m = t

\* The two roles stay apart.
Places ==
  /\ pc[Master] \notin {"handle", "close"}
  /\ \A w \in Worker : pc[w] # "accept"

RingShape == write_buffer_no = Wrapped(read_buffer_no, count)

Hand ==
  /\ accepted = taken + count + InHand
  /\ InHand = 1 => connfd[Master] = accepted

Fifo ==
  phase = "running" =>
    \A i \in 0 .. count - 1 :
      buff[Wrapped(read_buffer_no, i)] = taken + i + 1

\* What a worker serves is a connection, not garbage.
Serving ==
  phase = "running" =>
    \A w \in Worker :
      pc[w] \in {"unlock", "handle", "close"} => connfd[w] \in 1 .. taken

IInv == TypeOK /\ Mutex /\ Places /\ RingShape /\ Hand /\ Fifo /\ Serving

LEMMA InitIInv == Init => IInv
<1> SUFFICES ASSUME Init PROVE IInv
  OBVIOUS
<1>1. TypeOK
  BY InitType
<1>2. Mutex /\ Places
  BY ThreadAssumption DEF Init, Mutex, Places, Thread
<1>3. RingShape
  BY BoundAssumption DEF Init, RingShape, Wrapped
<1>4. Hand /\ Fifo
  BY ThreadAssumption DEF Init, Hand, Fifo, InHand, Thread
<1>5. Serving
  BY ThreadAssumption DEF Init, Serving, Thread
<1> QED
  BY <1>1, <1>2, <1>3, <1>4, <1>5 DEF IInv

\* Mutual exclusion and the threads' places, over every step.
LEMMA MutexStep ==
  ASSUME TypeOK, Mutex, Places, [Next]_vars
  PROVE  Mutex' /\ Places'
<1> USE ThreadAssumption
    DEF TypeOK, Mutex, Places, Thread, Goto, ring, life
<1>1. CASE Accept
  BY <1>1 DEF Accept
<1>2. CASE MasterWait
  BY <1>2 DEF MasterWait
<1>3. CASE MasterPut
  BY <1>3 DEF MasterPut
<1>4. ASSUME NEW w \in Worker, WorkerWait(w) PROVE Mutex' /\ Places'
  BY <1>4 DEF WorkerWait
<1>5. ASSUME NEW w \in Worker, WorkerTake(w) PROVE Mutex' /\ Places'
  BY <1>5 DEF WorkerTake
<1>6. ASSUME NEW w \in Worker, HandleReturns(w) \/ CloseConn(w)
      PROVE  Mutex' /\ Places'
  BY <1>6 DEF HandleReturns, CloseConn
<1>7. ASSUME NEW t \in Thread, ThreadStep(t) PROVE Mutex' /\ Places'
  BY <1>7 DEF ThreadStep, Lock, Unlock, Relock
<1>8. ASSUME NEW t \in Thread,
             SpuriousWake(t) \/ Interrupt(t) \/ UnixError(t)
      PROVE  Mutex' /\ Places'
  BY <1>8 DEF SpuriousWake, Interrupt, UnixError
<1>9. CASE Exit
  BY <1>9 DEF Exit
<1>10. CASE UNCHANGED vars
  BY <1>10 DEF vars
<1> QED
  BY <1>1, <1>2, <1>3, <1>4, <1>5, <1>6, <1>7, <1>8, <1>9, <1>10
     DEF Next, MasterStep, WorkerStep

\* The ring stays consistent over every step.  Only the two updates under m
\* and Accept touch what these conjuncts say.
RingInv == RingShape /\ Hand /\ Fifo /\ Serving

LEMMA RingStep == IInv /\ [Next]_vars => RingInv'
<1> SUFFICES ASSUME IInv, [Next]_vars PROVE RingInv'
  OBVIOUS
<1> USE ThreadAssumption, BoundAssumption
    DEF IInv, TypeOK, Mutex, Places, Thread, Goto, ring, life
<1>w. write_buffer_no \in Slot /\ read_buffer_no \in Slot
  OBVIOUS
<1>1. CASE Accept
  <2>1. Hand'
    BY <1>1 DEF Accept, Hand, InHand
  <2>2. RingShape' /\ Fifo' /\ Serving'
    BY <1>1 DEF Accept, RingShape, Fifo, Serving
  <2> QED
    BY <2>1, <2>2 DEF RingInv
<1>2. CASE MasterWait
  BY <1>2 DEF MasterWait, RingInv, RingShape, Hand, InHand, Fifo, Serving
<1>3. CASE MasterPut
  <2> USE <1>3 DEF MasterPut
  <2>1. count \in 0 .. NumBuff /\ count # NumBuff
    BY DEF HasRoom
  <2>2. RingShape'
    BY <1>w, <2>1, WrappedFacts DEF RingShape
  <2>3. Hand'
    BY DEF Hand, InHand
  <2>4. Fifo'
    <3> SUFFICES ASSUME phase = "running", NEW i \in 0 .. count
                 PROVE  buff'[Wrapped(read_buffer_no, i)] = taken + i + 1
      BY <2>1 DEF Fifo
    <3>1. buff' = [buff EXCEPT ![write_buffer_no] = connfd[Master]]
      OBVIOUS
    <3>2. CASE i = count
      <4>1. write_buffer_no = Wrapped(read_buffer_no, i)
        BY <3>2 DEF RingShape
      <4>2. connfd[Master] = taken + i + 1
        BY <3>2 DEF Hand, InHand
      <4> QED
        BY <3>1, <4>1, <4>2, <1>w
    <3>3. CASE i # count
      <4>1. i \in 0 .. count - 1
        BY <3>3, <2>1
      <4>2. Wrapped(read_buffer_no, i) # write_buffer_no
        BY <4>1, <2>1, <1>w, WrappedFacts DEF RingShape
      <4>3. buff[Wrapped(read_buffer_no, i)] = taken + i + 1
        BY <4>1 DEF Fifo
      <4> QED
        BY <3>1, <4>2, <4>3
    <3> QED
      BY <3>2, <3>3
  <2>5. Serving'
    BY DEF Serving
  <2> QED
    BY <2>2, <2>3, <2>4, <2>5 DEF RingInv
<1>4. ASSUME NEW w \in Worker, WorkerWait(w) PROVE RingInv'
  BY <1>4 DEF WorkerWait, RingInv, RingShape, Hand, InHand, Fifo, Serving
<1>5. ASSUME NEW w \in Worker, WorkerTake(w) PROVE RingInv'
  <2> USE <1>5 DEF WorkerTake
  <2>1. count \in 1 .. NumBuff
    BY DEF HasRequest
  <2>2. \A d \in 0 .. NumBuff - 1 :
          Wrapped(read_buffer_no', d) = Wrapped(read_buffer_no, d + 1)
    BY <1>w, WrappedFacts
  <2>3. RingShape'
    BY <2>1, <2>2 DEF RingShape
  <2>4. Hand'
    BY <2>1 DEF Hand, InHand
  <2>5. Fifo'
    BY <2>1, <2>2 DEF Fifo
  <2>6. Serving'
    <3>1. phase = "running" => connfd'[w] = taken + 1
      <4> SUFFICES ASSUME phase = "running" PROVE connfd'[w] = taken + 1
        OBVIOUS
      <4>1. 0 \in 0 .. count - 1
        BY <2>1
      <4>2. buff[Wrapped(read_buffer_no, 0)] = taken + 0 + 1
        BY <4>1 DEF Fifo
      <4>3. buff[read_buffer_no] = taken + 1
        BY <4>2, <1>w, WrappedFacts
      <4> QED
        BY <4>3 DEF Fetched
    <3> QED
      BY <3>1 DEF Serving
  <2> QED
    BY <2>3, <2>4, <2>5, <2>6 DEF RingInv
<1>6. ASSUME NEW w \in Worker, HandleReturns(w) \/ CloseConn(w)
      PROVE  RingInv'
  BY <1>6
     DEF HandleReturns, CloseConn, RingInv, RingShape, Hand, InHand, Fifo,
         Serving
<1>7. ASSUME NEW t \in Thread, ThreadStep(t) PROVE RingInv'
  <2>1. RingShape' /\ Fifo'
    BY <1>7 DEF ThreadStep, Lock, Unlock, Relock, RingShape, Fifo
  <2>2. Hand'
    BY <1>7 DEF ThreadStep, Lock, Unlock, Relock, Hand, InHand
  <2>3. Serving'
    BY <1>7 DEF ThreadStep, Lock, Unlock, Relock, Serving
  <2> QED
    BY <2>1, <2>2, <2>3 DEF RingInv
<1>8. ASSUME NEW t \in Thread,
             SpuriousWake(t) \/ Interrupt(t) \/ UnixError(t)
      PROVE  RingInv'
  BY <1>8
     DEF SpuriousWake, Interrupt, UnixError, RingInv, RingShape, Hand, InHand,
         Fifo, Serving
<1>9. CASE Exit
  BY <1>9 DEF Exit, RingInv, RingShape, Hand, InHand, Fifo, Serving
<1>10. CASE UNCHANGED vars
  BY <1>10 DEF vars, RingInv, RingShape, Hand, InHand, Fifo, Serving
<1> QED
  BY <1>1, <1>2, <1>3, <1>4, <1>5, <1>6, <1>7, <1>8, <1>9, <1>10
     DEF Next, MasterStep, WorkerStep

LEMMA Inductive == Spec => []IInv
<1>1. IInv /\ [Next]_vars => IInv'
  BY TypeStep, MutexStep, RingStep DEF IInv, RingInv
<1> QED
  BY InitIInv, <1>1, PTL DEF Spec

\* The ring never loses, duplicates or reorders a connection, for any number
\* of workers and any ring size (server.c:61-75, 132-146).
THEOREM FifoHolds == Spec => []RingIsFifo
<1>1. IInv => RingIsFifo
  <2> SUFFICES ASSUME IInv PROVE RingIsFifo
    OBVIOUS
  <2>1. ASSUME phase = "running", NEW i \in 0 .. count - 1
        PROVE  buff[(read_buffer_no + i) % NumBuff] = taken + i + 1
    <3>1. read_buffer_no \in Slot /\ i \in Slot
      BY BoundAssumption DEF IInv, TypeOK, Slot
    <3>2. (read_buffer_no + i) % NumBuff = Wrapped(read_buffer_no, i)
      BY <3>1, ModIsWrapped
    <3> QED
      BY <2>1, <3>2 DEF IInv, Fifo
  <2> QED
    BY <2>1 DEF RingIsFifo, IInv, Hand
<1> QED
  BY <1>1, Inductive, PTL

------------------------------------------------------------------------------
(* The pool implements ConnQueue: each step of a thread is a step of the    *)
(* promise or leaves its variables alone.                                   *)

Busy(w) == pc[w] \in {"unlock", "handle", "close"}
serving == [w \in Worker |-> IF Busy(w) THEN connfd[w] ELSE 0]

LEMMA PromiseInit == Init => Promise!Init
BY ThreadAssumption DEF Init, Promise!Init, Thread

\* A step that leaves accepted, taken, phase and every worker's connection
\* alone is a stutter.
LEMMA PromiseStutter ==
  ASSUME UNCHANGED <<accepted, taken, phase, serving>>
  PROVE  UNCHANGED Promise!vars
BY DEF Promise!vars, serving, Busy

LEMMA PromiseStep == IInv /\ [Next]_vars => [Promise!Next]_(Promise!vars)
<1> SUFFICES ASSUME IInv, [Next]_vars
             PROVE  [Promise!Next]_(Promise!vars)
  OBVIOUS
<1> USE ThreadAssumption, BoundAssumption
    DEF IInv, TypeOK, Mutex, Places, Thread, Goto, ring, life, Runs
<1>1. CASE phase # "running"
  <2>1. phase' # "running"
    BY <1>1
       DEF Next, MasterStep, WorkerStep, ThreadStep, Accept, MasterWait,
           MasterPut, WorkerWait, WorkerTake, HandleReturns, CloseConn, Lock,
           Unlock, Relock, SpuriousWake, Interrupt, UnixError, Exit, vars
  <2>2. Promise!Stopped
    BY <1>1, <2>1 DEF Promise!Stopped
  <2> QED
    BY <2>2 DEF Promise!Next
<1>2. CASE phase = "running" /\ phase' # "running"
  <2>1. UNCHANGED <<accepted, taken, serving>>
    BY <1>2
       DEF Next, MasterStep, WorkerStep, ThreadStep, Accept, MasterWait,
           MasterPut, WorkerWait, WorkerTake, HandleReturns, CloseConn, Lock,
           Unlock, Relock, SpuriousWake, Interrupt, UnixError, Exit, vars,
           serving, Busy
  <2>2. Promise!Stop
    BY <1>2, <2>1 DEF Promise!Stop, serving, Busy
  <2> QED
    BY <2>2 DEF Promise!Next
<1>3. CASE phase = "running" /\ phase' = "running"
  <2> USE <1>3
  <2>1. CASE Accept
    <3>1. accepted = taken + count
      BY <2>1 DEF Accept, Hand, InHand
    <3>2. UNCHANGED serving
      BY <2>1 DEF Accept, serving, Busy
    <3>3. Promise!Arrive
      BY <2>1, <3>1, <3>2 DEF Accept, Promise!Arrive, serving, Busy
    <3> QED
      BY <3>3 DEF Promise!Next
  <2>2. ASSUME NEW w \in Worker, WorkerTake(w)
        PROVE  [Promise!Next]_(Promise!vars)
    <3>1. 0 \in 0 .. count - 1
      BY <2>2 DEF WorkerTake, HasRequest
    <3>2. buff[Wrapped(read_buffer_no, 0)] = taken + 0 + 1
      BY <3>1 DEF Fifo
    <3>3. connfd' = [connfd EXCEPT ![w] = taken + 1]
      <4>1. Wrapped(read_buffer_no, 0) = read_buffer_no
        BY WrappedFacts
      <4>2. buff[read_buffer_no] = taken + 1
        BY <3>2, <4>1
      <4> QED
        BY <2>2, <4>2 DEF WorkerTake, Fetched
    <3>4. serving' = [serving EXCEPT ![w] = taken + 1]
      BY <2>2, <3>3 DEF WorkerTake, serving, Busy
    <3>5. serving[w] = 0
      BY <2>2 DEF WorkerTake, serving, Busy
    <3>6. taken < accepted
      BY <3>1 DEF Hand, InHand
    <3>7. Promise!Assign(w)
      BY <2>2, <3>4, <3>5, <3>6
         DEF WorkerTake, Promise!Assign, serving, Busy
    <3> QED
      BY <3>7 DEF Promise!Next
  <2>3. ASSUME NEW w \in Worker, CloseConn(w)
        PROVE  [Promise!Next]_(Promise!vars)
    <3>1. serving[w] # 0
      BY <2>3 DEF CloseConn, Serving, serving, Busy
    <3>2. serving' = [serving EXCEPT ![w] = 0]
      BY <2>3 DEF CloseConn, serving, Busy
    <3>3. Promise!Finish(w)
      BY <2>3, <3>1, <3>2 DEF CloseConn, Promise!Finish, serving, Busy
    <3> QED
      BY <3>3 DEF Promise!Next
  <2>4. CASE MasterWait \/ MasterPut
    <3>1. UNCHANGED <<accepted, taken, phase, serving>>
      BY <2>4 DEF MasterWait, MasterPut, serving, Busy
    <3> QED
      BY <3>1, PromiseStutter
  <2>5. ASSUME NEW w \in Worker, WorkerWait(w) \/ HandleReturns(w)
        PROVE  [Promise!Next]_(Promise!vars)
    <3>1. UNCHANGED <<accepted, taken, phase, serving>>
      BY <2>5 DEF WorkerWait, HandleReturns, serving, Busy
    <3> QED
      BY <3>1, PromiseStutter
  <2>6. ASSUME NEW t \in Thread, ThreadStep(t) \/ SpuriousWake(t)
        PROVE  [Promise!Next]_(Promise!vars)
    <3>1. UNCHANGED <<accepted, taken, phase, serving>>
      BY <2>6
         DEF ThreadStep, Lock, Unlock, Relock, SpuriousWake, serving, Busy
    <3> QED
      BY <3>1, PromiseStutter
  <2>7. CASE UNCHANGED vars
    <3>1. UNCHANGED <<accepted, taken, phase, serving>>
      BY <2>7 DEF vars, serving, Busy
    <3> QED
      BY <3>1, PromiseStutter
  <2>8. ASSUME NEW t \in Thread, Interrupt(t) \/ UnixError(t) PROVE FALSE
    BY <2>8 DEF Interrupt, UnixError
  <2>9. ~Exit
    BY DEF Exit
  <2> QED
    BY <2>1, <2>2, <2>3, <2>4, <2>5, <2>6, <2>7, <2>8, <2>9
       DEF Next, MasterStep, WorkerStep
<1> QED
  BY <1>1, <1>2, <1>3

\* Whatever the number of threads and the ring's size, the pool keeps the
\* promise of ConnQueue: each connection goes to one worker, in order of
\* arrival, and at most numbuff + 1 of them wait.
THEOREM PoolImplements == Spec => Implements
BY PromiseInit, PromiseStep, Inductive, PTL DEF Implements, Spec, Promise!Spec

------------------------------------------------------------------------------
(* Ownership is inductive relative to IInv: a worker takes connection       *)
(* taken + 1, which no worker holds and none has closed.                    *)

LEMMA OwnershipUnchanged ==
  ASSUME Ownership, UNCHANGED <<taken, closed>>,
         phase' = "running" => phase = "running",
         \A w \in Worker : Held(w)' = Held(w)
  PROVE  Ownership'
<1>1. {Held(w)' : w \in Worker} = {Held(w) : w \in Worker}
  OBVIOUS
<1> QED
  BY <1>1 DEF Ownership

LEMMA OwnershipStep == IInv /\ Ownership /\ [Next]_vars => Ownership'
<1> SUFFICES ASSUME IInv, Ownership, [Next]_vars
             PROVE  Ownership'
  OBVIOUS
<1> USE ThreadAssumption
    DEF IInv, TypeOK, Mutex, Places, Thread, Goto, ring, life, Runs
<1>1. ASSUME NEW w \in Worker, WorkerTake(w) PROVE Ownership'
  <2> SUFFICES ASSUME phase = "running" PROVE Ownership'
    BY <1>1 DEF WorkerTake, Ownership
  <2>1. connfd' = [connfd EXCEPT ![w] = taken + 1]
    <3>1. 0 \in 0 .. count - 1
      BY <1>1 DEF WorkerTake, HasRequest
    <3>2. buff[Wrapped(read_buffer_no, 0)] = taken + 0 + 1
      BY <3>1 DEF Fifo
    <3>3. Wrapped(read_buffer_no, 0) = read_buffer_no
      BY WrappedFacts, BoundAssumption
    <3>4. buff[read_buffer_no] = taken + 1
      BY <3>2, <3>3
    <3> QED
      BY <1>1, <3>4 DEF WorkerTake, Fetched
  <2>2. \A v \in Worker :
          Held(v)' = IF v = w THEN {taken + 1} ELSE Held(v)
    BY <1>1, <2>1 DEF WorkerTake, Held
  <2>3. Held(w) = {}
    BY <1>1 DEF WorkerTake, Held
  <2>4. \A v \in Worker : taken + 1 \notin Held(v)
    BY DEF Held, Serving
  <2>5. taken + 1 \notin closed
    BY DEF Ownership
  <2>6. (UNION {Held(v)' : v \in Worker})
          = (UNION {Held(v) : v \in Worker}) \cup {taken + 1}
    BY <2>2, <2>3
  <2>7. 1 .. taken + 1 = 1 .. taken \cup {taken + 1}
    OBVIOUS
  <2>8. taken' = taken + 1 /\ closed' = closed
    BY <1>1 DEF WorkerTake
  <2>9. \A u, v \in Worker : u # v => Held(u)' \cap Held(v)' = {}
    BY <2>2, <2>4 DEF Ownership
  <2>10. \A v \in Worker : Held(v)' \cap closed' = {}
    BY <2>2, <2>5, <2>8 DEF Ownership
  <2>11. (UNION {Held(v)' : v \in Worker}) \cup closed' = 1 .. taken'
    BY <2>6, <2>7, <2>8 DEF Ownership
  <2> QED
    BY <2>9, <2>10, <2>11 DEF Ownership
<1>2. ASSUME NEW w \in Worker, CloseConn(w) PROVE Ownership'
  <2>1. \A v \in Worker : Held(v)' = IF v = w THEN {} ELSE Held(v)
    BY <1>2 DEF CloseConn, Held
  <2>2. Held(w) = {connfd[w]}
    BY <1>2 DEF CloseConn, Held
  <2>3. closed' = closed \cup Held(w) /\ taken' = taken /\ phase' = phase
    BY <1>2, <2>2 DEF CloseConn
  <2>4. (UNION {Held(v)' : v \in Worker}) \cup Held(w)
          = UNION {Held(v) : v \in Worker}
    BY <2>1
  <2> QED
    BY <2>1, <2>3, <2>4 DEF Ownership
<1>3. CASE \/ Accept \/ MasterWait \/ MasterPut \/ Exit
  <2>1. \A w \in Worker : Held(w)' = Held(w)
    BY <1>3 DEF Accept, MasterWait, MasterPut, Exit, Held
  <2> QED
    BY <1>3, <2>1, OwnershipUnchanged
       DEF Accept, MasterWait, MasterPut, Exit
<1>4. ASSUME NEW w \in Worker, WorkerWait(w) \/ HandleReturns(w)
      PROVE  Ownership'
  <2>1. \A v \in Worker : Held(v)' = Held(v)
    BY <1>4 DEF WorkerWait, HandleReturns, Held
  <2> QED
    BY <1>4, <2>1, OwnershipUnchanged DEF WorkerWait, HandleReturns
<1>5. ASSUME NEW t \in Thread,
             ThreadStep(t) \/ SpuriousWake(t) \/ Interrupt(t) \/ UnixError(t)
      PROVE  Ownership'
  <2>1. \A v \in Worker : Held(v)' = Held(v)
    <3>1. CASE ThreadStep(t)
      BY <3>1 DEF ThreadStep, Lock, Unlock, Relock, Held
    <3>2. CASE SpuriousWake(t) \/ UnixError(t)
      BY <3>2 DEF SpuriousWake, UnixError, Held
    <3>3. CASE Interrupt(t)
      BY <3>3 DEF Interrupt, Held
    <3> QED
      BY <1>5, <3>1, <3>2, <3>3
  <2> QED
    BY <1>5, <2>1, OwnershipUnchanged
       DEF ThreadStep, Lock, Unlock, Relock, SpuriousWake, Interrupt,
           UnixError
<1>6. CASE UNCHANGED vars
  BY <1>6, OwnershipUnchanged DEF vars, Held
<1> QED
  BY <1>1, <1>2, <1>3, <1>4, <1>5, <1>6
     DEF Next, MasterStep, WorkerStep

\* Every connection taken from the ring is held by exactly one worker until
\* that worker closes it, and never after (server.c:70, 77-78).
THEOREM OwnershipHolds == Spec => []Ownership
<1>1. Init => Ownership
  <2> SUFFICES ASSUME Init PROVE Ownership
    OBVIOUS
  <2>1. \A w \in Worker : Held(w) = {}
    BY ThreadAssumption DEF Init, Held, Thread
  <2>2. UNION {Held(w) : w \in Worker} = {}
    BY <2>1
  <2> QED
    BY <2>1, <2>2 DEF Init, Ownership
<1> QED
  BY <1>1, OwnershipStep, Inductive, PTL DEF Spec

------------------------------------------------------------------------------
(***************************************************************************)
(* No wakeup is lost.  The count of workers on their way to the test is    *)
(* compared with count; inductive once a sleeper is known to be waiting.   *)
(***************************************************************************)

Sleepers ==
  /\ \A w \in fill : pc[w] = "wait"
  /\ Master \in empty => pc[Master] = "wait"

WakeInv == Sleepers /\ NoLostWakeup

LEMMA EnRouteFinite ==
  IsFiniteSet(EnRoute) /\ Cardinality(EnRoute) \in Nat
BY ThreadAssumption, FS_Subset, FS_CardinalityType DEF EnRoute

LEMMA SleepersStep ==
  TypeOK /\ Places /\ Sleepers /\ [Next]_vars => Sleepers'
<1> SUFFICES ASSUME TypeOK, Places, Sleepers, [Next]_vars PROVE Sleepers'
  OBVIOUS
<1> USE ThreadAssumption
    DEF TypeOK, Places, Sleepers, Thread, Goto, Runs, ring, life
<1>1. CASE Accept \/ MasterWait
  BY <1>1 DEF Accept, MasterWait
<1>2. CASE MasterPut
  BY <1>2 DEF MasterPut, Signalled
<1>3. ASSUME NEW w \in Worker, WorkerStep(w) PROVE Sleepers'
  BY <1>3
     DEF WorkerStep, WorkerWait, WorkerTake, HandleReturns, CloseConn,
         Signalled
<1>4. ASSUME NEW t \in Thread, ThreadStep(t) PROVE Sleepers'
  BY <1>4 DEF ThreadStep, Lock, Unlock, Relock
<1>5. ASSUME NEW t \in Thread,
             SpuriousWake(t) \/ Interrupt(t) \/ UnixError(t)
      PROVE  Sleepers'
  BY <1>5 DEF SpuriousWake, Interrupt, UnixError
<1>6. CASE Exit \/ UNCHANGED vars
  BY <1>6 DEF Exit, vars
<1> QED
  BY <1>1, <1>2, <1>3, <1>4, <1>5, <1>6 DEF Next, MasterStep

\* A step that leaves the ring's count and both queues alone, and takes
\* nobody off the way to the test, keeps the invariant.
LEMMA WakeupUnchanged ==
  ASSUME NoLostWakeup, count \in Nat, UNCHANGED count,
         fill' \subseteq fill, empty' \subseteq empty,
         EnRoute \subseteq EnRoute'
  PROVE  NoLostWakeup'
<1>1. EnRoute' \subseteq Worker
  BY DEF EnRoute
<1>2. IsFiniteSet(EnRoute')
  BY <1>1, ThreadAssumption, FS_Subset
<1>3. Cardinality(EnRoute) <= Cardinality(EnRoute')
  BY <1>2, FS_Subset
<1>4. Cardinality(EnRoute') \in Nat
  BY <1>2, FS_CardinalityType
<1> QED
  BY <1>3, <1>4, EnRouteFinite DEF NoLostWakeup

LEMMA WakeupStep ==
  TypeOK /\ Places /\ WakeInv /\ [Next]_vars => NoLostWakeup'
<1> SUFFICES ASSUME TypeOK, Places, WakeInv, [Next]_vars
             PROVE  NoLostWakeup'
  OBVIOUS
<1> USE ThreadAssumption, BoundAssumption
    DEF TypeOK, Places, WakeInv, Thread, Goto, Runs, ring, life
<1>c. count \in Nat
  OBVIOUS
<1>1. CASE Accept
  <2>1. EnRoute' = EnRoute
    BY <1>1 DEF Accept, EnRoute
  <2> QED
    BY <1>1, <1>c, <2>1, WakeupUnchanged DEF Accept
<1>2. CASE MasterWait
  <2>1. EnRoute' = EnRoute
    BY <1>2 DEF MasterWait, EnRoute
  <2> QED
    BY <1>2, <2>1 DEF MasterWait, HasRoom, NoLostWakeup
<1>3. CASE MasterPut
  <2>1. empty' = {}
    BY <1>3 DEF MasterPut, Sleepers
  <2>2. CASE fill = {}
    BY <1>3, <2>1, <2>2 DEF MasterPut, Signalled, NoLostWakeup
  <2>3. CASE fill # {}
    <3>1. PICK t \in fill : fill' = fill \ {t}
      BY <1>3, <2>3 DEF MasterPut, Signalled
    <3>2. t \notin EnRoute
      BY DEF EnRoute, Sleepers
    <3>3. EnRoute' = EnRoute \cup {t}
      BY <1>3, <3>1 DEF MasterPut, EnRoute, Sleepers
    <3>4. Cardinality(EnRoute') = Cardinality(EnRoute) + 1
      BY <3>2, <3>3, EnRouteFinite, FS_AddElement
    <3>5. count' = count + 1
      BY <1>3 DEF MasterPut
    <3> QED
      BY <2>1, <2>3, <3>4, <3>5, <1>c, EnRouteFinite DEF NoLostWakeup
  <2> QED
    BY <2>2, <2>3
<1>4. ASSUME NEW w \in Worker, WorkerWait(w) PROVE NoLostWakeup'
  <2>1. EnRoute' \subseteq Worker
    BY DEF EnRoute
  <2>2. Cardinality(EnRoute') \in Nat
    BY <2>1, FS_Subset, FS_CardinalityType
  <2> QED
    BY <1>4, <2>2 DEF WorkerWait, HasRequest, NoLostWakeup
<1>5. ASSUME NEW w \in Worker, WorkerTake(w) PROVE NoLostWakeup'
  <2>1. empty' = {}
    BY <1>5 DEF WorkerTake, Signalled
  <2>2. w \in EnRoute
    BY <1>5 DEF WorkerTake, EnRoute
  <2>3. EnRoute' = EnRoute \ {w}
    BY <1>5 DEF WorkerTake, EnRoute
  <2>4. Cardinality(EnRoute') = Cardinality(EnRoute) - 1
    BY <2>2, <2>3, EnRouteFinite, FS_RemoveElement
  <2>5. count' = count - 1 /\ fill' = fill
    BY <1>5 DEF WorkerTake
  <2> QED
    BY <2>1, <2>4, <2>5, <1>c, EnRouteFinite DEF NoLostWakeup
<1>6. ASSUME NEW w \in Worker, HandleReturns(w) \/ CloseConn(w)
      PROVE  NoLostWakeup'
  <2>1. EnRoute \subseteq EnRoute'
    BY <1>6 DEF HandleReturns, CloseConn, EnRoute
  <2> QED
    BY <1>6, <1>c, <2>1, WakeupUnchanged DEF HandleReturns, CloseConn
<1>7. ASSUME NEW t \in Thread, ThreadStep(t) PROVE NoLostWakeup'
  <2>1. EnRoute' = EnRoute
    BY <1>7 DEF ThreadStep, Lock, Unlock, Relock, EnRoute
  <2> QED
    BY <1>7, <1>c, <2>1, WakeupUnchanged DEF ThreadStep, Lock, Unlock, Relock
<1>8. ASSUME NEW t \in Thread,
             SpuriousWake(t) \/ Interrupt(t) \/ UnixError(t)
      PROVE  NoLostWakeup'
  <2>1. EnRoute \subseteq EnRoute'
    BY <1>8 DEF SpuriousWake, Interrupt, UnixError, EnRoute
  <2> QED
    BY <1>8, <1>c, <2>1, WakeupUnchanged
       DEF SpuriousWake, Interrupt, UnixError
<1>9. CASE Exit \/ UNCHANGED vars
  <2>1. EnRoute' = EnRoute
    BY <1>9 DEF Exit, vars, EnRoute
  <2> QED
    BY <1>9, <1>c, <2>1, WakeupUnchanged DEF Exit, vars
<1> QED
  BY <1>1, <1>2, <1>3, <1>4, <1>5, <1>6, <1>7, <1>8, <1>9
     DEF Next, MasterStep, WorkerStep

\* While a worker sleeps, every queued request has an awake worker coming for
\* it, and the master sleeps only on a full ring: `pthread_cond_signal` once
\* per put and once per take is enough (server.c:64-73, 135-144).
THEOREM NoLostWakeupHolds == Spec => []NoLostWakeup
<1>1. Init => WakeInv
  BY DEF Init, WakeInv, Sleepers, NoLostWakeup
<1>2. IInv /\ WakeInv /\ [Next]_vars => WakeInv'
  BY SleepersStep, WakeupStep DEF IInv, WakeInv
<1>3. WakeInv => NoLostWakeup
  BY DEF WakeInv
<1> QED
  BY <1>1, <1>2, <1>3, Inductive, PTL DEF Spec

------------------------------------------------------------------------------
(* Requests: the calls of wait() and the children of the process. *)

Waiters == {w \in Workers : at[w] = "wait"}
------------------------------------------------------------------------------
\* Waiters is finite, and how its size changes when one worker goes on.
LEMMA WaitersMove ==
  ASSUME at \in [Workers -> Stages], NEW w \in Workers, NEW to \in Stages,
         at' = [at EXCEPT ![w] = to]
  PROVE  /\ at' \in [Workers -> Stages]
         /\ IsFiniteSet(Waiters) /\ Cardinality(Waiters) \in Nat
         /\ at[w] # "wait" /\ to # "wait" => Cardinality(Waiters') = Cardinality(Waiters)
         /\ at[w] # "wait" /\ to = "wait" => Cardinality(Waiters') = Cardinality(Waiters) + 1
         /\ at[w] = "wait" /\ to # "wait" => Cardinality(Waiters') = Cardinality(Waiters) - 1
<1>1. IsFiniteSet(Waiters) /\ Cardinality(Waiters) \in Nat
  BY WorkerAssumption, FS_Subset, FS_CardinalityType DEF Waiters
<1>2. CASE at[w] # "wait" /\ to # "wait"
  <2>1. Waiters' = Waiters
    BY <1>2 DEF Waiters
  <2> QED
    BY <1>1, <1>2, <2>1
<1>3. CASE at[w] # "wait" /\ to = "wait"
  <2>1. Waiters' = Waiters \cup {w} /\ w \notin Waiters
    BY <1>3 DEF Waiters
  <2> QED
    BY <1>1, <1>3, <2>1, FS_AddElement
<1>4. CASE at[w] = "wait" /\ to # "wait"
  <2>1. Waiters' = Waiters \ {w} /\ w \in Waiters
    BY <1>4 DEF Waiters
  <2> QED
    BY <1>1, <1>4, <2>1, FS_RemoveElement
<1> QED
  BY <1>1, <1>2, <1>3, <1>4

LEMMA InitCovered == RequestInit => WaitCovered
<1> SUFFICES ASSUME RequestInit PROVE WaitCovered
  OBVIOUS
<1>1. Waiters = {}
  BY DEF RequestInit, Waiters
<1>2. Cardinality(Waiters) = 0
  BY <1>1, FS_EmptySet
<1> QED
  BY <1>2 DEF RequestInit, WaitCovered, Waiters, Unreaped, Stages

\* A worker comes to Wait with a child of its own, and each return of wait()
\* takes one child and one worker away.
LEMMA StepCovered ==
  ASSUME WaitCovered, [RequestNext]_requestVars
  PROVE  WaitCovered'
<1> USE DEF WaitCovered, Unreaped, client, children
<1>0. Unreaped = Cardinality(Waiters)
  BY DEF Waiters
<1>1. ASSUME NEW w \in Workers, NEW to \in Stages \ {"wait"},
             at[w] # "wait", at' = [at EXCEPT ![w] = to], UNCHANGED <<children, up>>
      PROVE  WaitCovered'
  BY <1>0, <1>1, WaitersMove DEF Waiters
<1>2. ASSUME UNCHANGED <<at, children, up>>
      PROVE  WaitCovered'
  BY <1>2
<1>3. ASSUME NEW w \in Workers, Handles(w) \/ Writes(w)
      PROVE  WaitCovered'
  <2>1. CASE ServeDynamic(w)
    <3>1. at[w] # "wait" /\ at' = [at EXCEPT ![w] = "wait"] /\ "wait" \in Stages
      BY <2>1 DEF ServeDynamic, Goes, Stages
    <3>2. /\ at' \in [Workers -> Stages]
          /\ Cardinality(Waiters') = Cardinality(Waiters) + 1
      BY <3>1, WaitersMove
    <3> QED
      BY <1>0, <2>1, <3>2 DEF ServeDynamic, Waiters
  <2>2. CASE ~ServeDynamic(w)
    BY <1>1, <1>3, <2>2
    DEF Handles, Writes, ReadLine, ReadHeaders, HeadersEnd, Lookup, Respond, Return, Goes, Stages
  <2> QED
    BY <2>1, <2>2
<1>4. ASSUME NEW w \in Workers, Wait(w)
      PROVE  WaitCovered'
  <2>1. at[w] = "wait" /\ at' = [at EXCEPT ![w] = "return"] /\ "return" \in Stages
    BY <1>4 DEF Wait, Goes, Stages
  <2>2. /\ at' \in [Workers -> Stages]
        /\ Cardinality(Waiters') = Cardinality(Waiters) - 1
    BY <2>1, WaitersMove
  <2> QED
    BY <1>0, <1>4, <2>2 DEF Wait, Reaped, Waiters
<1>5. ASSUME NEW w \in Workers, WrapperFails(w)
      PROVE  WaitCovered'
  <2>1. CASE at[w] = "wait"
    <3>1. w \in Waiters /\ IsFiniteSet(Waiters)
      BY <2>1, WorkerAssumption, FS_Subset DEF Waiters
    <3>2. Cardinality(Waiters) # 0
      BY <3>1, FS_EmptySet
    <3> QED
      BY <1>0, <1>5, <2>1, <3>2 DEF WrapperFails, MayFail
  <2>2. CASE at[w] # "wait"
    BY <1>5, <2>2 DEF WrapperFails, Dies
  <2> QED
    BY <2>1, <2>2
<1>6. ASSUME NEW w \in Workers, Begin(w)
      PROVE  WaitCovered'
  BY <1>1, <1>6 DEF Begin, Goes, Stages
<1>7. ASSUME NEW w \in Workers, SendMore(w) \/ StopReading(w) \/ Leave(w)
      PROVE  WaitCovered'
  BY <1>2, <1>7 DEF SendMore, StopReading, Leave
<1>8. CASE CgiEnds
  BY <1>8 DEF CgiEnds
<1>9. CASE CgiSticks
  BY <1>9 DEF CgiSticks
<1>10. CASE UNCHANGED requestVars
  BY <1>2, <1>10 DEF requestVars
<1> QED
  BY <1>3, <1>4, <1>5, <1>6, <1>7, <1>8, <1>9, <1>10 DEF RequestNext

\* For any number of workers: there are as many children not yet waited for
\* as workers in Wait, so that wait() in requestServeDynamic never fails.
THEOREM WaitCoveredHolds == RequestSpec => []WaitCovered
  BY InitCovered, StepCovered, PTL DEF RequestSpec
==============================================================================
