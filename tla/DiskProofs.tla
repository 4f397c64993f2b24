----------------------------- MODULE DiskProofs -----------------------------
(* Theorems about Disk: for any number of processes, buffers and sectors   *)
(* the buffers agree with the disk, nobody sleeps past a wakeup, and the   *)
(* cache with its driver implements SectorStore.                           *)
EXTENDS Disk, SequenceTheorems, FiniteSetTheorems, TLAPS

USE DEF Process

Held(p) == proc[p].held
InQueue(b) == \E i \in 1..Len(queue) : queue[i] = b

\* A buffer has one holder, at one place, exactly when it is busy.
HeldInv ==
  /\ \A p, q \in Procs : \A i \in 1..Len(Held(p)), j \in 1..Len(Held(q)) :
       Held(p)[i] = Held(q)[j] => p = q /\ i = j
  /\ \A p \in Procs : \A i \in 1..Len(Held(p)) : buf[Held(p)[i]].busy
  /\ \A b \in Bufs : buf[b].busy => \E p \in Procs : \E i \in 1..Len(Held(p)) : Held(p)[i] = b

\* Which sectors the buffers have.
SectorInv ==
  /\ \A b, c \in Bufs : buf[b].sector = buf[c].sector /\ buf[b].sector # None => b = c
  /\ \A b \in Bufs : buf[b].sector = None => ~buf[b].busy /\ ~buf[b].valid /\ ~buf[b].dirty

\* Where each process is: whether it wants a sector, sleeps, or holds a
\* buffer that is not yet read or written.
PlaceInv == \A p \in Procs :
  /\ (proc[p].want # None) <=> proc[p].pc \in {"bget", "bsleep"}
  /\ (proc[p].chan # None) <=> proc[p].pc \in {"bsleep", "iosleep"}
  /\ proc[p].pc \in {"got", "iderw", "iosleep"} => Len(Held(p)) > 0
  /\ proc[p].pc \in {"run", "bget", "bsleep"} => \A i \in 1..Len(Held(p)) : Finished(Held(p)[i])
  /\ \A i \in 1..Len(Held(p)) - 1 : Finished(Held(p)[i])
  /\ proc[p].pc = "got" => ~buf[Top(p)].dirty
  /\ proc[p].pc \in {"iderw", "iosleep"} => (InQueue(Top(p)) <=> ~Finished(Top(p)))

\* The queue has the buffers that processes in iderw wait for.
QueueInv ==
  /\ \A i, j \in 1..Len(queue) : queue[i] = queue[j] => i = j
  /\ \A i \in 1..Len(queue) : \E p \in Procs :
       /\ proc[p].pc \in {"iderw", "iosleep"}
       /\ queue[i] = Top(p)
  /\ \A b \in Bufs : /\ buf[b].dirty => InQueue(b) /\ buf[b].valid /\ buf[b].data \in Values
                     /\ buf[b].valid => buf[b].data \in Values

\* What the drive works at, and what it has done.
DriveInv ==
  /\ (queue = <<>>) <=> (drive = None)
  /\ queue # <<>> =>
       /\ drive.sector = buf[Head(queue)].sector
       /\ drive.write = buf[Head(queue)].dirty
       /\ drive.write => drive.data = buf[Head(queue)].data
       /\ drive.done => drive.data = disk[drive.sector]

DataInv == \A b \in Bufs : Finished(b) => buf[b].data = disk[buf[b].sector]

IInv == /\ TypeOK /\ HeldInv /\ SectorInv /\ PlaceInv /\ QueueInv /\ DriveInv /\ DataInv
        /\ NoLostWakeup
------------------------------------------------------------------------------
\* A sequence of buffers, with its places written as numbers.
LEMMA SeqFacts ==
  ASSUME NEW t \in Seq(Bufs)
  PROVE  /\ Len(t) \in Nat /\ DOMAIN t = 1..Len(t)
         /\ \A i \in 1..Len(t) : t[i] \in Bufs
         /\ t # <<>> <=> Len(t) > 0
         /\ \A b : b \in ToSet(t) <=> \E i \in 1..Len(t) : t[i] = b
<1>1. Len(t) \in Nat /\ DOMAIN t = 1..Len(t)
  BY LenProperties
<1>2. \A i \in 1..Len(t) : t[i] \in Bufs
  BY ElementOfSeq
<1>3. t # <<>> <=> Len(t) > 0
  BY EmptySeq, <1>1
<1>4. \A b : b \in ToSet(t) <=> \E i \in 1..Len(t) : t[i] = b
  BY <1>1 DEF ToSet
<1> QED
  BY <1>1, <1>2, <1>3, <1>4

\* A sequence without its last element.
LEMMA FrontProperties ==
  ASSUME NEW t \in Seq(Bufs), Len(t) > 0
  PROVE  /\ Front(t) \in Seq(Bufs) /\ Len(Front(t)) = Len(t) - 1
         /\ \A i \in 1..Len(t) - 1 : Front(t)[i] = t[i]
<1> DEFINE m == Len(t) - 1
           f == SubSeq(t, 1, m)
<1>1. m \in Nat /\ \A i \in 1..m : t[i] \in Bufs
  BY SeqFacts
<1>2. Front(t) = f
  BY DEF Front
<1> HIDE DEF m
<1>3. /\ f \in Seq(Bufs) /\ Len(f) = IF 1 <= m THEN m - 1 + 1 ELSE 0
      /\ \A i \in 1..m - 1 + 1 : f[i] = t[i + 1 - 1]
  <2>1. /\ f \in Seq(Bufs) /\ Len(f) = IF 1 <= m THEN m - 1 + 1 ELSE 0
        /\ \A i \in 1..m - 1 + 1 : f[i] = t[1 + i - 1]
    BY <1>1, SubSeqProperties
  <2> QED
    BY <1>1, <2>1
<1> HIDE DEF f
<1>4. Len(f) = m /\ \A i \in 1..m : f[i] = t[i]
  BY <1>1, <1>3
<1> QED
  BY <1>2, <1>3, <1>4 DEF m

\* The parts of the state, with places in sequences written as numbers.
LEMMA Shape ==
  ASSUME TypeOK
  PROVE  /\ Len(queue) \in Nat /\ DOMAIN queue = 1..Len(queue)
         /\ \A i \in 1..Len(queue) : queue[i] \in Bufs
         /\ queue # <<>> <=> Len(queue) > 0
         /\ queue # <<>> => Head(queue) = queue[1]
         /\ \A p \in Procs :
              /\ Held(p) \in Seq(Bufs) /\ Len(Held(p)) \in Nat
              /\ DOMAIN Held(p) = 1..Len(Held(p))
              /\ \A i \in 1..Len(Held(p)) : Held(p)[i] \in Bufs
              /\ Held(p) # <<>> <=> Len(Held(p)) > 0
              /\ Top(p) = Held(p)[Len(Held(p))]
              /\ Len(Held(p)) > 0 => Len(Held(p)) \in 1..Len(Held(p)) /\ Top(p) \in Bufs
<1>1. queue # <<>> => Head(queue) = queue[1]
  BY DEF TypeOK
<1>2. ASSUME NEW p \in Procs
      PROVE  /\ Held(p) \in Seq(Bufs)
             /\ Top(p) = Held(p)[Len(Held(p))]
             /\ Len(Held(p)) > 0 => Len(Held(p)) \in 1..Len(Held(p)) /\ Top(p) \in Bufs
  <2>1. Held(p) \in Seq(Bufs)
    BY DEF TypeOK, Held
  <2>2. Top(p) = Held(p)[Len(Held(p))]
    BY DEF Top, Held, Last
  <2>3. Len(Held(p)) \in Nat
    BY SeqFacts, <2>1
  <2>4. Len(Held(p)) > 0 => Len(Held(p)) \in 1..Len(Held(p))
    BY <2>3
  <2> QED
    BY SeqFacts, <2>1, <2>2, <2>4
<1>3. queue \in Seq(Bufs)
  BY DEF TypeOK
<1> QED
  BY SeqFacts, <1>1, <1>2, <1>3

\* Boot puts the buffers into the list in some order.
LEMMA BootList == BootOrder \in SetToSeqs(Bufs)
<1> DEFINE D == 1..Cardinality(Bufs)
<1>1. ExistsBijection(D, Bufs)
  BY FS_CardinalityType, ConstantAssumption
<1>2. PICK f \in [D -> Bufs] : IsInjective(f)
  <2>1. PICK f \in Bijection(D, Bufs) : TRUE
    BY <1>1 DEF ExistsBijection
  <2>2. f \in [D -> Bufs] /\ \A i, j \in D : f[i] = f[j] => i = j
    BY <2>1 DEF Bijection, Injection, IsInjective
  <2> QED
    BY <2>2 DEF IsInjective
<1>3. BootOrder \in [D -> Bufs] /\ IsInjective(BootOrder)
  BY <1>2 DEF BootOrder, SetToSeq
<1>4. DOMAIN BootOrder = D
  BY <1>3
<1>5. \A i, j \in D : i # j => BootOrder[i] # BootOrder[j]
  BY <1>3, <1>4 DEF IsInjective
<1> QED
  BY <1>3, <1>5 DEF SetToSeqs

LEMMA BootIInv ==
  Boot(buf, lru, queue, drive, proc, up) /\ disk \in [Sectors -> Values] => IInv
<1> SUFFICES ASSUME Boot(buf, lru, queue, drive, proc, up), disk \in [Sectors -> Values]
             PROVE  IInv
  OBVIOUS
<1> USE DEF Boot
<1>1. <<>> \in Seq(Bufs) /\ Len(<<>>) = 0
  BY EmptySeq
<1>2. TypeOK
  BY <1>1, BootList DEF TypeOK, Buffer, EmptyBuf, Places, Idle
<1>3. /\ \A p \in Procs : Held(p) = <<>> /\ Len(Held(p)) = 0
      /\ \A p \in Procs : proc[p].pc = "run" /\ proc[p].want = None /\ proc[p].chan = None
      /\ \A b \in Bufs : buf[b] = EmptyBuf
      /\ Len(queue) = 0
  BY <1>1 DEF Held, Idle
<1>4. HeldInv /\ SectorInv
  BY <1>3 DEF HeldInv, SectorInv, EmptyBuf
<1>5. PlaceInv /\ NoLostWakeup
  BY <1>3 DEF PlaceInv, NoLostWakeup
<1>6. QueueInv /\ DriveInv /\ DataInv
  BY <1>3 DEF QueueInv, DriveInv, DataInv, EmptyBuf, Finished
<1> QED
  BY <1>2, <1>4, <1>5, <1>6 DEF IInv
------------------------------------------------------------------------------
\* Steps in which one process only changes its place.
Moves(p) == /\ UNCHANGED <<buf, lru, queue, drive, disk>>
            /\ proc' \in [Procs -> Process]
            /\ up' \in BOOLEAN
            /\ \A q \in Procs : Held(q)' = Held(q)
            /\ \A q \in Procs \ {p} : proc'[q] = proc[q]

LEMMA MovesKeep ==
  ASSUME IInv, NEW p \in Procs, Moves(p)
  PROVE  TypeOK' /\ HeldInv' /\ SectorInv' /\ DriveInv' /\ DataInv'
<1> USE DEF IInv, Moves
<1>1. TypeOK'
  BY DEF TypeOK
<1>2. HeldInv'
  BY DEF HeldInv
<1>3. SectorInv'
  BY DEF SectorInv
<1>4. DriveInv' /\ DataInv'
  BY DEF DriveInv, DataInv, Finished
<1> QED
  BY <1>1, <1>2, <1>3, <1>4

\* The other conjuncts say something of the process that moves only.
LEMMA MovesPlace ==
  ASSUME IInv, NEW p \in Procs, Moves(p),
         /\ (proc'[p].want # None) <=> proc'[p].pc \in {"bget", "bsleep"}
         /\ (proc'[p].chan # None) <=> proc'[p].pc \in {"bsleep", "iosleep"}
         /\ proc'[p].pc \in {"got", "iderw", "iosleep"} => Len(Held(p)) > 0
         /\ proc'[p].pc \in {"run", "bget", "bsleep"} => \A i \in 1..Len(Held(p)) : Finished(Held(p)[i])
         /\ proc'[p].pc = "got" => ~buf[Top(p)].dirty
         /\ proc'[p].pc \in {"iderw", "iosleep"} => (InQueue(Top(p)) <=> ~Finished(Top(p))),
         proc[p].pc \in {"iderw", "iosleep"} =>
            \/ proc'[p].pc \in {"iderw", "iosleep"}
            \/ ~InQueue(Top(p)),
         /\ proc'[p].pc = "bsleep" => buf[proc'[p].chan].busy /\ buf[proc'[p].chan].sector = proc'[p].want
         /\ proc'[p].pc = "iosleep" => proc'[p].chan = Top(p) /\ InQueue(Top(p))
  PROVE  IInv'
<1> USE DEF IInv
<1>1. \A q \in Procs : Top(q)' = Top(q)
  BY DEF Moves, Top, Held
<1>2. \A b \in Bufs : (InQueue(b)' <=> InQueue(b)) /\ (Finished(b)' <=> Finished(b))
  BY DEF Moves, InQueue, Finished
<1>3. PlaceInv'
  <2> SUFFICES ASSUME NEW q \in Procs PROVE PlaceInv!(q)'
    BY DEF PlaceInv
  <2>1. /\ Len(Held(q)) \in Nat
        /\ \A i \in 1..Len(Held(q)) : Held(q)[i] \in Bufs
        /\ Len(Held(q)) > 0 => Top(q) \in Bufs
        /\ \A i \in 1..Len(Held(q)) - 1 : Held(q)[i] \in Bufs
    BY Shape
  <2>2. Held(q)' = Held(q) /\ Top(q)' = Top(q) /\ buf' = buf
    BY <1>1 DEF Moves
  <2>3. PlaceInv!(q)
    BY DEF PlaceInv
  <2>4. CASE q = p
    BY <1>2, <2>1, <2>2, <2>3, <2>4
  <2>5. CASE q # p
    BY <1>2, <2>1, <2>2, <2>3, <2>5 DEF Moves
  <2> QED
    BY <2>4, <2>5
<1>4. QueueInv'
  <2>1. ASSUME NEW i \in 1..Len(queue)
        PROVE  \E q \in Procs : proc'[q].pc \in {"iderw", "iosleep"} /\ queue[i] = Top(q)
    <3>1. PICK q \in Procs : proc[q].pc \in {"iderw", "iosleep"} /\ queue[i] = Top(q)
      BY DEF QueueInv
    <3>2. InQueue(Top(q))
      BY <3>1 DEF InQueue
    <3> QED
      BY <3>1, <3>2 DEF Moves
  <2> QED
    BY <1>1, <1>2, <2>1 DEF Moves, QueueInv
<1>5. NoLostWakeup'
  <2>1. \A q \in Procs : Len(Held(q)) > 0 => (InQueue(Top(q)) <=> Top(q) \in ToSet(queue))
    BY Shape DEF InQueue, ToSet
  <2>2. ToSet(queue)' = ToSet(queue)
    BY DEF Moves, ToSet
  <2> QED
    BY <1>1, <2>1, <2>2 DEF NoLostWakeup, Moves, PlaceInv
<1> QED
  BY <1>3, <1>4, <1>5, MovesKeep

\* What MovesPlace needs of the process itself.
LEMMA PlaceOf ==
  ASSUME IInv, NEW p \in Procs
  PROVE  /\ proc[p].pc \in Places
         /\ (proc[p].want # None) <=> proc[p].pc \in {"bget", "bsleep"}
         /\ (proc[p].chan # None) <=> proc[p].pc \in {"bsleep", "iosleep"}
         /\ proc[p].want \in Sectors \cup {None} /\ proc[p].chan \in Bufs \cup {None}
         /\ Len(Held(p)) \in Nat
         /\ proc[p].pc \in {"got", "iderw", "iosleep"} => Len(Held(p)) > 0
         /\ proc[p].pc \in {"run", "bget", "bsleep"} => \A i \in 1..Len(Held(p)) : Finished(Held(p)[i])
         /\ \A i \in 1..Len(Held(p)) - 1 : Finished(Held(p)[i])
         /\ proc[p].pc = "got" => ~buf[Top(p)].dirty
         /\ proc[p].pc \in {"iderw", "iosleep"} => (InQueue(Top(p)) <=> ~Finished(Top(p)))
         /\ proc[p].pc = "bsleep" => buf[proc[p].chan].busy /\ buf[proc[p].chan].sector = proc[p].want
         /\ proc[p].pc = "iosleep" => proc[p].chan = Top(p) /\ InQueue(Top(p))
<1>1. PlaceInv!(p)
  BY DEF IInv, PlaceInv
<1>2. proc[p].pc \in Places /\ proc[p].want \in Sectors \cup {None} /\ proc[p].chan \in Bufs \cup {None}
  BY DEF IInv, TypeOK
<1>3. Len(Held(p)) \in Nat /\ (Len(Held(p)) > 0 => (InQueue(Top(p)) <=> Top(p) \in ToSet(queue)))
  BY Shape DEF IInv, InQueue, ToSet
<1>4. NoLostWakeup!(p)
  BY DEF IInv, NoLostWakeup
<1> QED
  BY <1>1, <1>2, <1>3, <1>4

\* Only a buffer whose holder is in iderw is in the queue.
LEMMA QueuedHolder ==
  ASSUME IInv, NEW p \in Procs, NEW i \in 1..Len(Held(p)), InQueue(Held(p)[i])
  PROVE  proc[p].pc \in {"iderw", "iosleep"} /\ i = Len(Held(p))
<1>1. PICK j \in 1..Len(queue) : queue[j] = Held(p)[i]
  BY DEF InQueue
<1>2. PICK q \in Procs : proc[q].pc \in {"iderw", "iosleep"} /\ queue[j] = Top(q)
  BY DEF IInv, QueueInv
<1>3. Len(Held(q)) > 0
  BY <1>2, PlaceOf
<1>4. Len(Held(q)) \in 1..Len(Held(q)) /\ Top(q) = Held(q)[Len(Held(q))]
  BY <1>3, Shape DEF IInv
<1>5. Held(p)[i] = Held(q)[Len(Held(q))]
  BY <1>1, <1>2, <1>4
<1>6. p = q /\ i = Len(Held(q))
  BY <1>4, <1>5 DEF IInv, HeldInv
<1> QED
  BY <1>2, <1>6

\* The steps that only move a process.
LEMMA MovingSteps ==
  ASSUME IInv, NEW p \in Procs,
         \/ \E s \in Sectors : Bread(p, s)
         \/ BgetSleep(p) \/ BgetPanic(p) \/ BreadValid(p)
         \/ IderwSleep(p) \/ IderwReturns(p) \/ Kill(p)
  PROVE  IInv'
<1>0. proc \in [Procs -> Process]
      /\ up \in BOOLEAN /\ None \notin Sectors /\ None \notin Bufs
  BY ConstantAssumption DEF IInv, TypeOK
<1>1. ASSUME NEW s \in Sectors, Bread(p, s) PROVE IInv'
  <2>1. Moves(p)
    BY <1>0, <1>1 DEF Bread, Moves, Held, Places
  <2>2. proc[p].pc = "run" /\ proc'[p].pc = "bget" /\ proc'[p].want = s /\ proc'[p].chan = proc[p].chan
    BY <1>0, <1>1 DEF Bread, At
  <2> QED
    BY <1>0, <2>1, <2>2, MovesPlace, PlaceOf
<1>2. ASSUME BgetSleep(p) PROVE IInv'
  <2>1. PICK b \in Cached(proc[p].want) :
          ~Free(b) /\ proc' = [proc EXCEPT ![p].pc = "bsleep", ![p].chan = b]
    BY <1>2 DEF BgetSleep
  <2>2. b \in Bufs /\ buf[b].busy /\ buf[b].sector = proc[p].want
    BY <2>1 DEF Cached, Free
  <2>3. Moves(p)
    <3>1. /\ proc' \in [Procs -> Process]
          /\ \A q \in Procs : Held(q)' = Held(q)
          /\ \A q \in Procs \ {p} : proc'[q] = proc[q]
      <4>1. proc' \in [Procs -> Process]
        <5>1. [proc[p] EXCEPT !.pc = "bsleep", !.chan = b] \in Process
          <6>1. proc[p] \in Process
            BY <1>0
          <6> QED
            BY <2>2, <6>1 DEF Places
        <5>2. proc' = [proc EXCEPT ![p] = [proc[p] EXCEPT !.pc = "bsleep", !.chan = b]]
          BY <2>1
        <5> QED
          BY <1>0, <5>1, <5>2
      <4>2. \A q \in Procs \ {p} : proc'[q] = proc[q]
        BY <1>0, <2>1
      <4>3. proc'[p].held = proc[p].held
        BY <1>0, <2>1
      <4> QED
        BY <4>1, <4>2, <4>3 DEF Held
    <3> QED
      BY <1>0, <1>2, <3>1 DEF BgetSleep, Moves
  <2>4. /\ proc[p].pc = "bget" /\ proc'[p].pc = "bsleep" /\ proc'[p].want = proc[p].want
        /\ proc'[p].chan = b
    <3>1. proc[p].pc = "bget"
      BY <1>2 DEF BgetSleep, At
    <3> QED
      BY <1>0, <2>1, <3>1
  <2> QED
    BY <1>0, <2>2, <2>3, <2>4, MovesPlace, PlaceOf
<1>3. ASSUME BgetPanic(p) PROVE IInv'
  <2>1. Moves(p) /\ proc' = proc
    BY <1>0, <1>3 DEF BgetPanic, Moves, Held
  <2> QED
    BY <2>1, MovesPlace, PlaceOf
<1>4. ASSUME BreadValid(p) PROVE IInv'
  <2>1. Moves(p)
    BY <1>0, <1>4 DEF BreadValid, Goto, Moves, Held, Places
  <2>2. /\ proc[p].pc = "got" /\ proc'[p].pc = "run" /\ proc'[p].want = proc[p].want
        /\ proc'[p].chan = proc[p].chan /\ buf[Top(p)].valid
    BY <1>0, <1>4 DEF BreadValid, Goto, At
  <2>3. \A i \in 1..Len(Held(p)) : Finished(Held(p)[i])
    <3>1. Top(p) = Held(p)[Len(Held(p))] /\ Len(Held(p)) \in Nat
      BY Shape DEF IInv
    <3>2. Finished(Held(p)[Len(Held(p))])
      BY <2>2, <3>1, PlaceOf DEF Finished
    <3>3. \A i \in 1..Len(Held(p)) : i = Len(Held(p)) \/ i \in 1..Len(Held(p)) - 1
      BY <3>1
    <3> QED
      BY <3>2, <3>3, PlaceOf
  <2> QED
    BY <2>1, <2>2, <2>3, MovesPlace, PlaceOf
<1>5. ASSUME IderwSleep(p) PROVE IInv'
  <2>1. Len(Held(p)) > 0 /\ Top(p) \in Bufs
    BY <1>5, Shape, PlaceOf DEF IInv, IderwSleep, At
  <2>2. Moves(p)
    BY <1>0, <1>5, <2>1 DEF IderwSleep, Moves, Held, Places
  <2>3. /\ proc[p].pc = "iderw" /\ proc'[p].pc = "iosleep" /\ proc'[p].want = proc[p].want
        /\ proc'[p].chan = Top(p) /\ ~Finished(Top(p))
    BY <1>0, <1>5 DEF IderwSleep, At
  <2> QED
    BY <1>0, <2>1, <2>2, <2>3, MovesPlace, PlaceOf
<1>6. ASSUME IderwReturns(p) PROVE IInv'
  <2>1. Moves(p)
    BY <1>0, <1>6 DEF IderwReturns, Goto, Moves, Held, Places
  <2>2. /\ proc[p].pc = "iderw" /\ proc'[p].pc = "run" /\ proc'[p].want = proc[p].want
        /\ proc'[p].chan = proc[p].chan /\ Finished(Top(p))
    BY <1>0, <1>6 DEF IderwReturns, Goto, At
  <2>3. \A i \in 1..Len(Held(p)) : Finished(Held(p)[i])
    <3>1. Top(p) = Held(p)[Len(Held(p))] /\ Len(Held(p)) \in Nat
      BY Shape DEF IInv
    <3>2. Finished(Held(p)[Len(Held(p))])
      BY <2>2, <3>1
    <3>3. \A i \in 1..Len(Held(p)) : i = Len(Held(p)) \/ i \in 1..Len(Held(p)) - 1
      BY <3>1
    <3> QED
      BY <3>2, <3>3, PlaceOf
  <2> QED
    BY <2>1, <2>2, <2>3, MovesPlace, PlaceOf
<1>7. ASSUME Kill(p) PROVE IInv'
  <2>1. proc[p].pc \in {"bsleep", "iosleep"}
    BY <1>7, PlaceOf DEF Kill
  <2>2. Awake[proc[p].pc] = IF proc[p].pc = "bsleep" THEN "bget" ELSE "iderw"
    BY <2>1 DEF Awake
  <2>5. proc' = [proc EXCEPT ![p].pc = IF proc[p].pc = "bsleep" THEN "bget" ELSE "iderw",
                            ![p].chan = None]
    BY <1>7, <2>2 DEF Kill
  <2>3. Moves(p)
    BY <1>0, <1>7, <2>2, <2>5 DEF Kill, Moves, Held, Places
  <2>4. /\ proc'[p].pc = IF proc[p].pc = "bsleep" THEN "bget" ELSE "iderw"
        /\ proc'[p].want = proc[p].want /\ proc'[p].chan = None
    BY <1>0, <2>2, <2>5
  <2> QED
    BY <2>1, <2>3, <2>4, MovesPlace, PlaceOf
<1> QED
  BY <1>1, <1>2, <1>3, <1>4, <1>5, <1>6, <1>7
------------------------------------------------------------------------------
\* Buffers at different places, or of different processes, differ.
LEMMA HeldOnce ==
  ASSUME IInv, NEW p \in Procs, Len(Held(p)) > 0
  PROVE  /\ Top(p) \in Bufs /\ buf[Top(p)].busy /\ buf[Top(p)].sector \in Sectors
         /\ Len(Held(p)) \in 1..Len(Held(p)) /\ Held(p)[Len(Held(p))] = Top(p)
         /\ \A i \in 1..Len(Held(p)) - 1 : Held(p)[i] # Top(p)
         /\ \A q \in Procs \ {p} : \A i \in 1..Len(Held(q)) : Held(q)[i] # Top(p)
         /\ \A q \in Procs \ {p} : Len(Held(q)) > 0 => Top(q) # Top(p)
<1>1. /\ Top(p) \in Bufs /\ Len(Held(p)) \in 1..Len(Held(p)) /\ Held(p)[Len(Held(p))] = Top(p)
      /\ Len(Held(p)) \in Nat
  BY Shape DEF IInv
<1>2. buf[Top(p)].busy
  BY <1>1 DEF IInv, HeldInv
<1>3. buf[Top(p)].sector \in Sectors
  BY <1>1, <1>2 DEF IInv, SectorInv, TypeOK, Buffer
<1>4. ASSUME NEW q \in Procs, NEW i \in 1..Len(Held(q)), Held(q)[i] = Top(p)
      PROVE  q = p /\ i = Len(Held(p))
  BY <1>1, <1>4 DEF IInv, HeldInv
<1>5. \A i \in 1..Len(Held(p)) - 1 : i \in 1..Len(Held(p)) /\ i # Len(Held(p))
  BY <1>1
<1>6. ASSUME NEW q \in Procs \ {p}, Len(Held(q)) > 0
      PROVE  Len(Held(q)) \in 1..Len(Held(q)) /\ Held(q)[Len(Held(q))] = Top(q)
  BY <1>6, Shape DEF IInv
<1> QED
  BY <1>1, <1>2, <1>3, <1>4, <1>5, <1>6

\* iderw puts the last buffer of p into the queue, to be read or written.
Enqueues(p, r) ==
  /\ proc[p].pc \in {"run", "got"} /\ Len(Held(p)) > 0
  /\ r \in Buffer
  /\ r.sector = buf[Top(p)].sector /\ r.busy
  /\ r.dirty => r.valid
  /\ r.valid => r.dirty /\ r.data \in Values
  /\ Enqueue(p, Top(p), [buf EXCEPT ![Top(p)] = r])
  /\ UNCHANGED <<lru, disk, up>>

LEMMA EnqueueShape ==
  ASSUME IInv, NEW p \in Procs, NEW r, Enqueues(p, r)
  PROVE  /\ buf' \in [Bufs -> Buffer] /\ buf'[Top(p)] = r
         /\ \A b \in Bufs : b # Top(p) => buf'[b] = buf[b]
         /\ \A b \in Bufs : buf'[b].busy = buf[b].busy /\ buf'[b].sector = buf[b].sector
         /\ queue' \in Seq(Bufs) /\ Len(queue') = Len(queue) + 1 /\ queue' # <<>>
         /\ \A i \in 1..Len(queue) : queue'[i] = queue[i]
         /\ queue'[Len(queue) + 1] = Top(p)
         /\ \A b : InQueue(b)' <=> InQueue(b) \/ b = Top(p)
         /\ ~InQueue(Top(p))
         /\ proc' = [proc EXCEPT ![p].pc = "iderw"]
         /\ \A q \in Procs : Held(q)' = Held(q) /\ Top(q)' = Top(q)
         /\ drive' = IF queue = <<>>
                     THEN [sector |-> r.sector, write |-> r.dirty, done |-> FALSE,
                           data |-> IF r.dirty THEN r.data ELSE None]
                     ELSE drive
<1> DEFINE b == Top(p)
           bs == [buf EXCEPT ![b] = r]
<1>0. /\ b \in Bufs /\ buf[b].busy /\ buf[b].sector \in Sectors
      /\ buf \in [Bufs -> Buffer] /\ queue \in Seq(Bufs) /\ Len(queue) \in Nat
  BY HeldOnce, Shape DEF IInv, TypeOK, Enqueues
<1>1. buf' = bs /\ queue' = Append(queue, b) /\ proc' = [proc EXCEPT ![p].pc = "iderw"]
  BY DEF Enqueues, Enqueue, Goto
<1>2. /\ buf' \in [Bufs -> Buffer] /\ buf'[b] = r
      /\ \A c \in Bufs : c # b => buf'[c] = buf[c]
      /\ \A c \in Bufs : buf'[c].busy = buf[c].busy /\ buf'[c].sector = buf[c].sector
  BY <1>0, <1>1 DEF Enqueues, Buffer
<1>3. /\ queue' \in Seq(Bufs) /\ Len(queue') = Len(queue) + 1 /\ queue' # <<>>
      /\ \A i \in 1..Len(queue) : queue'[i] = queue[i]
      /\ queue'[Len(queue) + 1] = b
  BY <1>0, <1>1, AppendProperties
<1>4. \A c : InQueue(c)' <=> InQueue(c) \/ c = b
  <2>1. \A i : i \in 1..Len(queue') <=> i \in 1..Len(queue) \/ i = Len(queue) + 1
    BY <1>0, <1>3
  <2> QED
    BY <1>3, <2>1 DEF InQueue
<1>5. ~InQueue(b)
  BY QueuedHolder, HeldOnce DEF Enqueues
<1>6. \A q \in Procs : Held(q)' = Held(q) /\ Top(q)' = Top(q)
  BY <1>1 DEF IInv, TypeOK, Held, Top
<1>7. drive' = IF queue = <<>>
               THEN [sector |-> r.sector, write |-> r.dirty, done |-> FALSE,
                     data |-> IF r.dirty THEN r.data ELSE None]
               ELSE drive
  <2>1. drive' = IF queue = <<>> THEN Started(<<b>>, bs) ELSE drive
    BY DEF Enqueues, Enqueue, StartIfIdle
  <2>2. <<b>> # <<>> /\ Head(<<b>>) = b /\ bs[b] = r
    BY <1>0
  <2> QED
    BY <2>1, <2>2 DEF Started
<1> QED
  BY <1>1, <1>2, <1>3, <1>4, <1>5, <1>6, <1>7

LEMMA EnqueueKeeps ==
  ASSUME IInv, NEW p \in Procs, NEW r, Enqueues(p, r)
  PROVE  IInv'
<1>b. PICK b : b = Top(p)
  OBVIOUS
<1>0. /\ Len(queue) \in Nat /\ Len(Held(p)) > 0 /\ b \in Bufs
      /\ proc \in [Procs -> Process]
      /\ UNCHANGED <<lru, disk, up>>
  BY Shape, HeldOnce, <1>b DEF IInv, TypeOK, Enqueues
<1>1. /\ r \in Buffer /\ r.sector = buf[b].sector /\ r.sector \in Sectors /\ r.busy
      /\ ~(r.valid /\ ~r.dirty) /\ (r.dirty => r.valid) /\ (r.valid => r.data \in Values)
  BY HeldOnce, <1>b DEF Enqueues
<1>2. proc'[p] = [proc[p] EXCEPT !.pc = "iderw"] /\ \A q \in Procs : q # p => proc'[q] = proc[q]
  BY EnqueueShape, <1>0
<1>3. \A c \in Bufs : (c # b => (Finished(c)' <=> Finished(c))) /\ ~Finished(b)'
  BY EnqueueShape, <1>0, <1>1, <1>b DEF Finished
<1>4. \A q \in Procs : proc'[q].want = proc[q].want /\ proc'[q].chan = proc[q].chan
  BY <1>0, <1>2
<1>5. TypeOK'
  <2>1. drive' \in Command \cup {None}
    <3>1. CASE queue = <<>>
      <4>1. drive' = [sector |-> r.sector, write |-> r.dirty, done |-> FALSE,
                     data |-> IF r.dirty THEN r.data ELSE None]
        BY EnqueueShape, <3>1
      <4>2. (IF r.dirty THEN r.data ELSE None) \in Values \cup {None} /\ r.dirty \in BOOLEAN
        BY <1>1 DEF Buffer
      <4> QED
        BY <1>1, <4>1, <4>2 DEF Command
    <3>2. CASE queue # <<>>
      BY EnqueueShape, <3>2 DEF IInv, TypeOK
    <3> QED
      BY <3>1, <3>2
  <2>2. proc' \in [Procs -> Process]
    <3>1. proc' = [proc EXCEPT ![p].pc = "iderw"]
      BY EnqueueShape
    <3> QED
      BY <1>0, <3>1 DEF Places
  <2>3. buf' \in [Bufs -> Buffer] /\ queue' \in Seq(Bufs)
    BY EnqueueShape
  <2> QED
    BY <1>0, <2>1, <2>2, <2>3 DEF IInv, TypeOK
<1>6. HeldInv'
  <2>1. \A q \in Procs : Held(q)' = Held(q) /\ \A i \in 1..Len(Held(q)) : Held(q)[i] \in Bufs
    BY EnqueueShape, Shape DEF IInv
  <2>2. \A c \in Bufs : buf'[c].busy = buf[c].busy
    BY EnqueueShape
  <2> QED
    BY <2>1, <2>2 DEF IInv, HeldInv
<1>7. SectorInv'
  <2>1. \A c \in Bufs : buf'[c].sector = buf[c].sector /\ buf'[c].busy = buf[c].busy
    BY EnqueueShape
  <2>2. \A c \in Bufs : c # b => buf'[c] = buf[c]
    BY EnqueueShape, <1>b
  <2>3. buf'[b].sector # None
    BY <1>0, <1>1, <2>1, ConstantAssumption
  <2> QED
    BY <2>1, <2>2, <2>3 DEF IInv, SectorInv
<1>8. PlaceInv'
  <2> SUFFICES ASSUME NEW q \in Procs PROVE PlaceInv!(q)'
    BY DEF PlaceInv
  <2>1. Held(q)' = Held(q) /\ Top(q)' = Top(q)
    BY EnqueueShape
  <2>2. /\ Len(Held(q)) \in Nat /\ (\A i \in 1..Len(Held(q)) : Held(q)[i] \in Bufs)
        /\ Len(Held(q)) > 0 => Top(q) \in Bufs
    BY Shape DEF IInv
  <2>3. PlaceInv!(q)
    BY DEF IInv, PlaceInv
  <2>4. CASE q = p
    <3>1. \A i \in 1..Len(Held(p)) - 1 : Held(p)[i] # b /\ Held(p)[i] \in Bufs
      BY HeldOnce, <1>0, <2>2, <2>4, <1>b
    <3>2. \A i \in 1..Len(Held(p)) - 1 : Finished(Held(p)[i])'
      BY <1>3, <2>1, <2>3, <2>4, <3>1
    <3>3. proc'[p].pc = "iderw" /\ InQueue(b)' /\ ~Finished(b)'
      BY EnqueueShape, <1>0, <1>2, <1>3, <1>b
    <3>4. proc[p].pc \in {"run", "got"}
      BY DEF Enqueues
    <3> QED
      BY <1>0, <1>4, <2>1, <2>3, <2>4, <3>2, <3>3, <3>4, <1>b
  <2>5. CASE q # p
    <3>1. \A i \in 1..Len(Held(q)) : Held(q)[i] # b
      BY HeldOnce, <1>0, <2>5, <1>b
    <3>2. Len(Held(q)) > 0 => Top(q) # b
      BY HeldOnce, <1>0, <2>5, <1>b
    <3>3. \A i \in 1..Len(Held(q)) : Finished(Held(q)[i])' <=> Finished(Held(q)[i])
      BY <1>3, <2>1, <2>2, <3>1
    <3>4. Len(Held(q)) > 0 => /\ InQueue(Top(q))' <=> InQueue(Top(q))
                              /\ Finished(Top(q))' <=> Finished(Top(q))
                              /\ buf'[Top(q)] = buf[Top(q)]
      BY EnqueueShape, <1>3, <2>1, <2>2, <3>2, <1>b
    <3>5. proc'[q] = proc[q]
      BY <1>2, <2>5
    <3>6. \A i \in 1..Len(Held(q)) - 1 : i \in 1..Len(Held(q))
      BY <2>2
    <3> QED
      BY <2>1, <2>3, <3>3, <3>4, <3>5, <3>6
  <2> QED
    BY <2>4, <2>5
<1>9. QueueInv'
  <2>1. ~InQueue(b) /\ queue'[Len(queue) + 1] = b /\ Len(queue') = Len(queue) + 1
        /\ \A i \in 1..Len(queue) : queue'[i] = queue[i]
    BY EnqueueShape, <1>b
  <2>2. ASSUME NEW i \in 1..Len(queue'), NEW j \in 1..Len(queue'), queue'[i] = queue'[j]
        PROVE  i = j
    <3>1. \A k \in 1..Len(queue) : queue[k] # b
      BY <2>1 DEF InQueue
    <3>2. (i \in 1..Len(queue) \/ i = Len(queue) + 1) /\ (j \in 1..Len(queue) \/ j = Len(queue) + 1)
      BY <1>0, <2>1
    <3> QED
      BY <2>1, <2>2, <3>1, <3>2 DEF IInv, QueueInv
  <2>3. ASSUME NEW i \in 1..Len(queue')
        PROVE  \E q \in Procs : proc'[q].pc \in {"iderw", "iosleep"} /\ queue'[i] = Top(q)'
    <3>1. CASE i = Len(queue) + 1
      BY EnqueueShape, <1>0, <1>2, <2>1, <3>1, <1>b
    <3>2. CASE i \in 1..Len(queue)
      <4>1. PICK q \in Procs : proc[q].pc \in {"iderw", "iosleep"} /\ queue[i] = Top(q)
        BY <3>2 DEF IInv, QueueInv
      <4>2. q # p
        BY <4>1 DEF Enqueues
      <4> QED
        BY EnqueueShape, <1>2, <2>1, <3>2, <4>1, <4>2
    <3> QED
      BY <1>0, <2>1, <3>1, <3>2
  <2>4. ASSUME NEW c \in Bufs
        PROVE  /\ buf'[c].dirty => InQueue(c)' /\ buf'[c].valid /\ buf'[c].data \in Values
               /\ buf'[c].valid => buf'[c].data \in Values
    BY EnqueueShape, <1>1, <1>b DEF IInv, QueueInv
  <2> QED
    BY <2>2, <2>3, <2>4 DEF QueueInv
<1>10. DriveInv'
  <2>1. CASE queue = <<>>
    <3>1. Head(queue') = b
      BY EnqueueShape, <2>1, EmptySeq, <1>b
    <3>2. drive' = [sector |-> r.sector, write |-> r.dirty, done |-> FALSE,
                    data |-> IF r.dirty THEN r.data ELSE None]
      BY EnqueueShape, <2>1
    <3>3. drive' # None
      <4>1. (IF r.dirty THEN r.data ELSE None) \in Values \cup {None} /\ r.dirty \in BOOLEAN
        BY <1>1 DEF Buffer
      <4>2. drive' \in Command
        BY <1>1, <3>2, <4>1 DEF Command
      <4> QED
        BY <4>2, CommandAssumption
    <3> QED
      BY EnqueueShape, <1>0, <3>1, <3>2, <3>3, <1>b DEF DriveInv
  <2>2. CASE queue # <<>>
    <3>1. Head(queue') = Head(queue) /\ Head(queue) # b /\ Head(queue) \in Bufs
      <4>1. Head(queue) = queue[1] /\ 1 \in 1..Len(queue) /\ queue[1] \in Bufs
        BY Shape, <1>0, <2>2 DEF IInv
      <4>2. queue'[1] = queue[1] /\ ~InQueue(b)
        BY EnqueueShape, <4>1, <1>b
      <4> QED
        BY EnqueueShape, <4>1, <4>2 DEF InQueue
    <3>2. buf'[Head(queue)] = buf[Head(queue)] /\ drive' = drive /\ queue' # <<>>
      BY EnqueueShape, <2>2, <3>1, <1>b
    <3> QED
      BY <1>0, <2>2, <3>1, <3>2 DEF IInv, DriveInv
  <2> QED
    BY <2>1, <2>2
<1>11. DataInv'
  <2> SUFFICES ASSUME NEW c \in Bufs, Finished(c)' PROVE buf'[c].data = disk'[buf'[c].sector]
    BY DEF DataInv
  <2>1. c # b /\ Finished(c)
    BY <1>3
  <2>2. buf'[c] = buf[c]
    BY <2>1, EnqueueShape, <1>b
  <2> QED
    BY <1>0, <2>1, <2>2 DEF IInv, DataInv
<1>12. NoLostWakeup'
  <2> SUFFICES ASSUME NEW q \in Procs PROVE NoLostWakeup!(q)'
    BY DEF NoLostWakeup
  <2>1. proc[q].chan \in Bufs \cup {None} /\ (proc[q].pc = "bsleep" => proc[q].chan # None)
    BY <1>0, PlaceOf
  <2>2. CASE proc'[q].pc = "bsleep"
    <3>1. proc[q].pc = "bsleep"
      BY <1>0, <1>2, <2>2
    <3>2. buf[proc[q].chan].busy /\ buf[proc[q].chan].sector = proc[q].want
      BY <3>1, PlaceOf
    <3> QED
      BY EnqueueShape, <1>4, <2>1, <2>2, <3>1, <3>2
  <2>3. CASE proc'[q].pc = "iosleep"
    <3>1. proc[q].pc = "iosleep" /\ q # p
      BY <1>0, <1>2, <2>3
    <3>2. proc[q].chan = Top(q) /\ InQueue(Top(q))
      BY <3>1, PlaceOf
    <3>3. Top(q) \in ToSet(queue)'
      BY EnqueueShape, SeqFacts, <3>2 DEF InQueue
    <3> QED
      BY EnqueueShape, <1>4, <2>3, <3>2, <3>3
  <2> QED
    BY <2>2, <2>3
<1> QED
  BY <1>5, <1>6, <1>7, <1>8, <1>9, <1>10, <1>11, <1>12 DEF IInv

LEMMA QueueingSteps ==
  ASSUME IInv, NEW p \in Procs, BreadMiss(p) \/ \E v \in Values : Bwrite(p, v)
  PROVE  IInv'
<1>1. buf \in [Bufs -> Buffer]
  BY DEF IInv, TypeOK
<1>2. ASSUME BreadMiss(p) PROVE IInv'
  <2>1. proc[p].pc = "got" /\ ~buf[Top(p)].valid /\ ~buf[Top(p)].dirty /\ Len(Held(p)) > 0
    BY <1>2, PlaceOf DEF BreadMiss, At
  <2>2. buf = [buf EXCEPT ![Top(p)] = buf[Top(p)]] /\ buf[Top(p)] \in Buffer /\ buf[Top(p)].busy
    BY <1>1, <2>1, HeldOnce
  <2>3. Enqueues(p, buf[Top(p)])
    BY <1>2, <2>1, <2>2 DEF BreadMiss, Enqueues
  <2> QED
    BY <2>3, EnqueueKeeps
<1>3. ASSUME NEW v \in Values, Bwrite(p, v) PROVE IInv'
  <2> DEFINE r == [buf[Top(p)] EXCEPT !.data = v, !.dirty = TRUE]
  <2>1. proc[p].pc = "run" /\ Len(Held(p)) > 0
    BY <1>3, Shape DEF Bwrite, At, Held, IInv
  <2>2. buf[Top(p)] \in Buffer /\ buf[Top(p)].busy /\ Finished(Top(p))
    BY <1>1, <2>1, HeldOnce, PlaceOf
  <2>3. /\ r \in Buffer /\ r.sector = buf[Top(p)].sector /\ r.busy /\ r.valid /\ r.dirty
        /\ r.data \in Values
    BY <2>2 DEF Buffer, Finished
  <2>4. Enqueue(p, Top(p), [buf EXCEPT ![Top(p)] = r]) /\ UNCHANGED <<lru, disk, up>>
    BY <1>3 DEF Bwrite
  <2>5. Enqueues(p, r)
    BY <2>1, <2>3, <2>4 DEF Enqueues
  <2> QED
    BY <2>5, EnqueueKeeps
<1> QED
  BY <1>2, <1>3
------------------------------------------------------------------------------
\* bget returns a free buffer: one that has the sector, or a recycled one.
Gets(p, b, r) ==
  /\ proc[p].pc = "bget" /\ b \in Bufs /\ ~buf[b].busy
  /\ r \in Buffer /\ r.sector = proc[p].want /\ r.busy /\ ~r.dirty
  /\ \/ r.valid = buf[b].valid /\ r.data = buf[b].data /\ r.sector = buf[b].sector
     \/ ~r.valid /\ Cached(proc[p].want) = {}
  /\ buf' = [buf EXCEPT ![b] = r]
  /\ proc' = Got(p, b)
  /\ UNCHANGED <<lru, queue, drive, disk, up>>

\* A free buffer is nobody's, not in the queue, and has nothing to write.
LEMMA FreeBuffer ==
  ASSUME IInv, NEW b \in Bufs, ~buf[b].busy
  PROVE  /\ \A p \in Procs : \A i \in 1..Len(Held(p)) : Held(p)[i] # b
         /\ \A p \in Procs : Len(Held(p)) > 0 => Top(p) # b
         /\ ~InQueue(b) /\ ~buf[b].dirty
<1>1. \A p \in Procs : \A i \in 1..Len(Held(p)) : Held(p)[i] # b
  BY DEF IInv, HeldInv
<1>2. \A p \in Procs : Len(Held(p)) > 0 => Top(p) # b
  BY <1>1, HeldOnce
<1>3. ~InQueue(b)
  <2> SUFFICES ASSUME InQueue(b) PROVE FALSE
    OBVIOUS
  <2>1. PICK i \in 1..Len(queue) : queue[i] = b
    BY DEF InQueue
  <2>2. PICK q \in Procs : proc[q].pc \in {"iderw", "iosleep"} /\ queue[i] = Top(q)
    BY DEF IInv, QueueInv
  <2> QED
    BY <1>2, <2>1, <2>2, PlaceOf
<1>4. ~buf[b].dirty
  BY <1>3 DEF IInv, QueueInv
<1> QED
  BY <1>1, <1>2, <1>3, <1>4

LEMMA GetsShape ==
  ASSUME IInv, NEW p \in Procs, NEW b, NEW r, Gets(p, b, r)
  PROVE  /\ buf' \in [Bufs -> Buffer] /\ buf'[b] = r
         /\ \A c \in Bufs : c # b => buf'[c] = buf[c]
         /\ \A q \in Procs : q # p => proc'[q] = proc[q] /\ Held(q)' = Held(q) /\ Top(q)' = Top(q)
         /\ proc' \in [Procs -> Process]
         /\ proc'[p].pc = "got" /\ proc'[p].want = None /\ proc'[p].chan = proc[p].chan
         /\ Len(Held(p)) \in Nat
         /\ Len(Held(p)') = Len(Held(p)) + 1 /\ Top(p)' = b
         /\ \A i \in 1..Len(Held(p)) : Held(p)'[i] = Held(p)[i]
         /\ Held(p)'[Len(Held(p)) + 1] = b
<1>0. /\ buf \in [Bufs -> Buffer]
      /\ proc \in [Procs -> Process]
  BY DEF IInv, TypeOK
<1>1. /\ buf' \in [Bufs -> Buffer] /\ buf'[b] = r
      /\ \A c \in Bufs : c # b => buf'[c] = buf[c]
  BY <1>0 DEF Gets
<1>2. b \in Bufs /\ Held(p) \in Seq(Bufs) /\ Len(Held(p)) \in Nat
  BY Shape DEF IInv, Gets
<1>3. /\ Append(Held(p), b) \in Seq(Bufs) /\ Len(Append(Held(p), b)) = Len(Held(p)) + 1
      /\ \A i \in 1..Len(Held(p)) : Append(Held(p), b)[i] = Held(p)[i]
      /\ Append(Held(p), b)[Len(Held(p)) + 1] = b
  BY <1>2, AppendProperties
<1>4. proc' = [proc EXCEPT ![p] = [proc[p] EXCEPT !.pc = "got", !.held = Append(Held(p), b),
                                                  !.want = None]]
  BY <1>0 DEF Gets, Got, Held
<1>5. [proc[p] EXCEPT !.pc = "got", !.held = Append(Held(p), b), !.want = None]
        \in Process
  BY <1>0, <1>3 DEF Places
<1>6. proc' \in [Procs -> Process]
  BY <1>0, <1>4, <1>5
<1>7. /\ proc'[p].pc = "got" /\ proc'[p].want = None /\ proc'[p].chan = proc[p].chan
      /\ proc'[p].held = Append(Held(p), b)
      /\ \A q \in Procs : q # p => proc'[q] = proc[q]
  BY <1>0, <1>4
<1>8. Held(p)' = Append(Held(p), b) /\ Top(p)' = b
  BY <1>2, <1>3, <1>7 DEF Held, Top, Last
<1>9. \A q \in Procs : q # p => Held(q)' = Held(q) /\ Top(q)' = Top(q)
  BY <1>7 DEF Held, Top
<1> QED
  BY <1>1, <1>2, <1>3, <1>6, <1>7, <1>8, <1>9

LEMMA GetsKeeps ==
  ASSUME IInv, NEW p \in Procs, NEW b, NEW r, Gets(p, b, r)
  PROVE  IInv'
<1>0. /\ b \in Bufs /\ ~buf[b].busy /\ proc[p].pc = "bget"
      /\ r \in Buffer /\ r.sector = proc[p].want /\ r.busy /\ ~r.dirty
      /\ UNCHANGED <<lru, queue, drive, disk, up>>
  BY DEF Gets
<1>1. /\ \A q \in Procs : \A i \in 1..Len(Held(q)) : Held(q)[i] # b /\ Held(q)[i] \in Bufs
      /\ \A q \in Procs : Len(Held(q)) > 0 => Top(q) # b /\ Top(q) \in Bufs
      /\ ~InQueue(b) /\ ~buf[b].dirty
  BY <1>0, FreeBuffer, Shape DEF IInv
<1>2. proc[p].want \in Sectors /\ proc[p].want # None /\ proc[p].chan = None
  BY <1>0, PlaceOf, ConstantAssumption
<1>3. \A i : i \in 1..Len(Held(p)') <=> i \in 1..Len(Held(p)) \/ i = Len(Held(p)) + 1
  BY GetsShape
<1>4. \A c \in Bufs : c # b => (Finished(c)' <=> Finished(c))
  BY GetsShape DEF Finished
<1>5. \A c : InQueue(c)' <=> InQueue(c)
  BY <1>0 DEF InQueue
<1>6. TypeOK'
  BY GetsShape, <1>0 DEF IInv, TypeOK
<1>7. HeldInv'
  <2>1. ASSUME NEW q \in Procs, NEW q2 \in Procs,
               NEW i \in 1..Len(Held(q)'), NEW j \in 1..Len(Held(q2)'), Held(q)'[i] = Held(q2)'[j]
        PROVE  q = q2 /\ i = j
    <3>1. \A u \in Procs : \A k \in 1..Len(Held(u)') :
            \/ k \in 1..Len(Held(u)) /\ Held(u)'[k] = Held(u)[k] /\ Held(u)[k] # b
            \/ u = p /\ k = Len(Held(p)) + 1 /\ Held(u)'[k] = b
      BY GetsShape, <1>1, <1>3
    <3>2. \A u, v \in Procs : \A k \in 1..Len(Held(u)), l \in 1..Len(Held(v)) :
            Held(u)[k] = Held(v)[l] => u = v /\ k = l
      BY DEF IInv, HeldInv
    <3>3. \/ i \in 1..Len(Held(q)) /\ Held(q)'[i] = Held(q)[i] /\ Held(q)[i] # b
          \/ q = p /\ i = Len(Held(p)) + 1 /\ Held(q)'[i] = b
      BY <3>1
    <3>4. \/ j \in 1..Len(Held(q2)) /\ Held(q2)'[j] = Held(q2)[j] /\ Held(q2)[j] # b
          \/ q2 = p /\ j = Len(Held(p)) + 1 /\ Held(q2)'[j] = b
      BY <3>1
    <3> QED
      BY <2>1, <3>2, <3>3, <3>4
  <2>2. ASSUME NEW q \in Procs, NEW i \in 1..Len(Held(q)')
        PROVE  buf'[Held(q)'[i]].busy
    <3>1. CASE q = p
      BY GetsShape, <1>0, <1>1, <1>3, <3>1 DEF IInv, HeldInv
    <3>2. CASE q # p
      BY GetsShape, <1>1, <3>2 DEF IInv, HeldInv
    <3> QED
      BY <3>1, <3>2
  <2>3. ASSUME NEW c \in Bufs, buf'[c].busy
        PROVE  \E q \in Procs : \E i \in 1..Len(Held(q)') : Held(q)'[i] = c
    <3>1. CASE c = b
      BY GetsShape, <1>3, <3>1
    <3>2. CASE c # b
      <4>0. PICK q \in Procs : \E i \in 1..Len(Held(q)) : Held(q)[i] = c
        BY GetsShape, <2>3, <3>2 DEF IInv, HeldInv
      <4>1. PICK i \in 1..Len(Held(q)) : Held(q)[i] = c
        BY <4>0
      <4>2. i \in 1..Len(Held(q)') /\ Held(q)'[i] = c
        BY GetsShape, <1>3, <4>1
      <4> QED
        BY <4>2
    <3> QED
      BY <3>1, <3>2
  <2> QED
    BY <2>1, <2>2, <2>3 DEF HeldInv
<1>8. SectorInv'
  <2>1. ASSUME NEW c \in Bufs, buf[c].sector = proc[p].want PROVE c = b
    BY <1>0, <1>2, <2>1 DEF Gets, Cached, IInv, SectorInv
  <2>2. ASSUME NEW c \in Bufs, NEW d \in Bufs,
               buf'[c].sector = buf'[d].sector, buf'[c].sector # None
        PROVE  c = d
    BY GetsShape, <1>0, <2>1, <2>2 DEF IInv, SectorInv
  <2>3. ASSUME NEW c \in Bufs, buf'[c].sector = None
        PROVE  ~buf'[c].busy /\ ~buf'[c].valid /\ ~buf'[c].dirty
    <3>1. c # b
      BY GetsShape, <1>0, <1>2, <2>3
    <3>2. buf'[c] = buf[c]
      BY GetsShape, <3>1
    <3> QED
      BY <2>3, <3>2 DEF IInv, SectorInv
  <2> QED
    BY <2>2, <2>3 DEF SectorInv
<1>9. PlaceInv'
  <2> SUFFICES ASSUME NEW q \in Procs PROVE PlaceInv!(q)'
    BY DEF PlaceInv
  <2>1. PlaceInv!(q)
    BY DEF IInv, PlaceInv
  <2>2. CASE q = p
    <3>1. \A i \in 1..Len(Held(p)') - 1 : i \in 1..Len(Held(p)) /\ Held(p)'[i] = Held(p)[i]
      BY GetsShape
    <3>2. \A i \in 1..Len(Held(p)) : Finished(Held(p)[i])'
      <4>1. \A i \in 1..Len(Held(p)) : Held(p)[i] # b /\ Held(p)[i] \in Bufs /\ Finished(Held(p)[i])
        BY <1>0, <1>1, <2>1, <2>2
      <4>2. \A i \in 1..Len(Held(p)) : buf'[Held(p)[i]] = buf[Held(p)[i]]
        BY <4>1, GetsShape
      <4>3. ASSUME NEW i \in 1..Len(Held(p)) PROVE Finished(Held(p)[i])'
        <5>1. Held(p)'[i] = Held(p)[i]
          BY GetsShape
        <5>2. buf'[Held(p)[i]].valid /\ ~buf'[Held(p)[i]].dirty
          BY <4>1, <4>2 DEF Finished
        <5> QED
          BY <5>1, <5>2 DEF Finished
      <4> QED
        BY <4>3
    <3>3. proc'[p].pc = "got" /\ proc'[p].want = None /\ proc'[p].chan = None /\ Len(Held(p)') > 0
      BY GetsShape, <1>2
    <3>4. ~buf'[Top(p)'].dirty
      BY GetsShape, <1>0
    <3> QED
      BY <2>2, <3>1, <3>2, <3>3, <3>4
  <2>3. CASE q # p
    <3>1. proc'[q] = proc[q] /\ Held(q)' = Held(q) /\ Top(q)' = Top(q)
      BY GetsShape, <2>3
    <3>2. \A i \in 1..Len(Held(q)) : Finished(Held(q)[i])' <=> Finished(Held(q)[i])
      BY <1>1, <1>4, <3>1
    <3>3. Len(Held(q)) > 0 => /\ InQueue(Top(q))' <=> InQueue(Top(q))
                              /\ Finished(Top(q))' <=> Finished(Top(q))
                              /\ buf'[Top(q)] = buf[Top(q)]
      BY GetsShape, <1>1, <1>4, <1>5, <3>1
    <3>4. \A i \in 1..Len(Held(q)) - 1 : i \in 1..Len(Held(q))
      BY Shape DEF IInv
    <3> QED
      BY <2>1, <3>1, <3>2, <3>3, <3>4
  <2> QED
    BY <2>2, <2>3
<1>10. QueueInv'
  <2>1. ASSUME NEW i \in 1..Len(queue)
        PROVE  \E q \in Procs : proc'[q].pc \in {"iderw", "iosleep"} /\ queue[i] = Top(q)'
    <3>1. PICK q \in Procs : proc[q].pc \in {"iderw", "iosleep"} /\ queue[i] = Top(q)
      BY DEF IInv, QueueInv
    <3>2. q # p
      BY <1>0, <3>1
    <3> QED
      BY GetsShape, <3>1, <3>2
  <2>2. ASSUME NEW c \in Bufs
        PROVE  /\ buf'[c].dirty => InQueue(c)' /\ buf'[c].valid /\ buf'[c].data \in Values
               /\ buf'[c].valid => buf'[c].data \in Values
    <3>1. CASE c = b
      <4>1. buf'[b] = r
        BY GetsShape
      <4> QED
        BY <1>0, <3>1, <4>1 DEF Gets, IInv, QueueInv
    <3>2. CASE c # b
      <4>1. buf'[c] = buf[c]
        BY GetsShape, <3>2
      <4> QED
        BY <1>5, <4>1 DEF IInv, QueueInv
    <3> QED
      BY <3>1, <3>2
  <2> QED
    BY <1>0, <2>1, <2>2 DEF IInv, QueueInv
<1>11. DriveInv'
  <2>1. queue # <<>> => Head(queue) # b /\ Head(queue) \in Bufs
    <3>1. queue # <<>> => 1 \in 1..Len(queue) /\ Head(queue) = queue[1] /\ queue[1] \in Bufs
      BY Shape DEF IInv
    <3> QED
      BY <1>1, <3>1 DEF InQueue
  <2>2. queue # <<>> => buf'[Head(queue)] = buf[Head(queue)]
    BY GetsShape, <2>1
  <2> QED
    BY <1>0, <2>2 DEF IInv, DriveInv
<1>12. DataInv'
  <2> SUFFICES ASSUME NEW c \in Bufs, Finished(c)' PROVE buf'[c].data = disk'[buf'[c].sector]
    BY DEF DataInv
  <2>1. CASE c = b
    <3>1. r.valid
      BY GetsShape, <2>1 DEF Finished
    <3>2. r.valid = buf[b].valid /\ r.data = buf[b].data /\ r.sector = buf[b].sector
      BY <3>1 DEF Gets
    <3>3. Finished(b)
      BY <1>1, <3>1, <3>2 DEF Finished
    <3> QED
      BY GetsShape, <1>0, <2>1, <3>2, <3>3 DEF IInv, DataInv
  <2>2. CASE c # b
    BY GetsShape, <1>0, <1>4, <2>2 DEF IInv, DataInv
  <2> QED
    BY <2>1, <2>2
<1>13. NoLostWakeup'
  <2> SUFFICES ASSUME NEW q \in Procs PROVE NoLostWakeup!(q)'
    BY DEF NoLostWakeup
  <2>1. CASE q = p
    BY GetsShape, <2>1
  <2>2. CASE q # p
    <3>1. NoLostWakeup!(q) /\ proc'[q] = proc[q] /\ Top(q)' = Top(q)
      BY GetsShape, <2>2 DEF IInv, NoLostWakeup
    <3>2. proc[q].pc = "bsleep" => buf'[proc[q].chan] = buf[proc[q].chan]
      <4>1. proc[q].pc = "bsleep" => proc[q].chan \in Bufs /\ buf[proc[q].chan].busy
        BY PlaceOf
      <4>2. \A c \in Bufs : c # b => buf'[c] = buf[c]
        BY GetsShape
      <4>3. ~buf[b].busy
        BY DEF Gets
      <4> QED
        BY <4>1, <4>2, <4>3
    <3>3. ToSet(queue)' = ToSet(queue)
      BY <1>0
    <3> QED
      BY <3>1, <3>2, <3>3
  <2> QED
    BY <2>1, <2>2
<1> QED
  BY <1>6, <1>7, <1>8, <1>9, <1>10, <1>11, <1>12, <1>13 DEF IInv

LEMMA GettingGets ==
  ASSUME IInv, NEW p \in Procs, BgetHit(p) \/ BgetRecycle(p)
  PROVE  \E b, r : Gets(p, b, r)
<1>0. buf \in [Bufs -> Buffer]
  BY DEF IInv, TypeOK
<1>1. ASSUME BgetHit(p) PROVE \E b, r : Gets(p, b, r)
  <2>1. PICK b \in Bufs : /\ buf[b].sector = proc[p].want /\ ~buf[b].busy
                          /\ buf' = [buf EXCEPT ![b].busy = TRUE] /\ proc' = Got(p, b)
    BY <1>1 DEF BgetHit, Cached, Free
  <2> DEFINE r == [buf[b] EXCEPT !.busy = TRUE]
  <2>2. /\ r \in Buffer /\ r.sector = proc[p].want /\ r.busy
        /\ r.valid = buf[b].valid /\ r.data = buf[b].data /\ r.sector = buf[b].sector
        /\ r.dirty = buf[b].dirty
    BY <1>0, <2>1 DEF Buffer
  <2>3. ~buf[b].dirty
    BY <2>1, FreeBuffer
  <2>4. proc[p].pc = "bget" /\ UNCHANGED <<lru, queue, drive, disk, up>>
    BY <1>1 DEF BgetHit, At
  <2>5. buf' = [buf EXCEPT ![b] = r]
    BY <1>0, <2>1
  <2> HIDE DEF r
  <2>6. Gets(p, b, r)
    BY <2>1, <2>2, <2>3, <2>4, <2>5 DEF Gets
  <2> QED
    BY <2>6
<1>2. ASSUME BgetRecycle(p) PROVE \E b, r : Gets(p, b, r)
  <2>1. PICK b \in Bufs : /\ Recyclable(b)
                          /\ buf' = [buf EXCEPT ![b] = Recycled(b, proc[p].want)]
                          /\ proc' = Got(p, b)
    BY <1>2 DEF BgetRecycle
  <2> DEFINE r == Recycled(b, proc[p].want)
  <2>2. ~buf[b].busy
    BY <2>1 DEF Recyclable, Free
  <2>3. proc[p].pc = "bget" /\ Cached(proc[p].want) = {} /\ UNCHANGED <<lru, queue, drive, disk, up>>
    BY <1>2 DEF BgetRecycle, At
  <2>4. proc[p].want \in Sectors \cup {None} /\ buf[b].data \in Values \cup {None}
    BY <1>0, PlaceOf DEF Buffer
  <2>5. EmptyBuf \in Buffer /\ ~EmptyBuf.valid /\ ~EmptyBuf.dirty
    BY DEF Buffer, EmptyBuf
  <2>6. r \in Buffer /\ r.sector = proc[p].want /\ r.busy /\ ~r.dirty /\ ~r.valid
    BY <2>4, <2>5 DEF Buffer, Recycled
  <2> HIDE DEF r
  <2>7. Gets(p, b, r)
    BY <2>1, <2>2, <2>3, <2>6 DEF Gets, r
  <2> QED
    BY <2>7
<1> QED
  BY <1>1, <1>2

LEMMA GettingSteps ==
  ASSUME IInv, NEW p \in Procs, BgetHit(p) \/ BgetRecycle(p)
  PROVE  IInv'
BY GettingGets, GetsKeeps
------------------------------------------------------------------------------
\* wakeup lets the sleepers on b look again, and touches nobody else.
LEMMA WakeupShape ==
  ASSUME NEW ps \in [Procs -> Process], NEW b \in Bufs,
         \A q \in Procs : ps[q].chan = b => ps[q].pc \in {"bsleep", "iosleep"}
  PROVE  /\ Wakeup(ps, b) \in [Procs -> Process]
         /\ \A q \in Procs :
              /\ Wakeup(ps, b)[q].held = ps[q].held /\ Wakeup(ps, b)[q].want = ps[q].want
              /\ ps[q].chan # b => Wakeup(ps, b)[q] = ps[q]
              /\ ps[q].chan = b => /\ Wakeup(ps, b)[q].chan = None
                                   /\ ps[q].pc = "bsleep" => Wakeup(ps, b)[q].pc = "bget"
                                   /\ ps[q].pc = "iosleep" => Wakeup(ps, b)[q].pc = "iderw"
<1>1. ASSUME NEW q \in Procs, ps[q].chan = b
      PROVE  Awake[ps[q].pc] = (IF ps[q].pc = "bsleep" THEN "bget" ELSE "iderw")
  BY <1>1 DEF Awake
<1>2. \A q \in Procs : Wakeup(ps, b)[q] =
        IF ps[q].chan = b THEN [ps[q] EXCEPT !.pc = Awake[ps[q].pc], !.chan = None] ELSE ps[q]
  BY DEF Wakeup
<1>3. \A q \in Procs : Wakeup(ps, b)[q] =
        IF ps[q].chan = b
        THEN [ps[q] EXCEPT !.pc = IF ps[q].pc = "bsleep" THEN "bget" ELSE "iderw", !.chan = None]
        ELSE ps[q]
  BY <1>1, <1>2
<1>4. ASSUME NEW q \in Procs PROVE Wakeup(ps, b)[q] \in Process
  <2>1. ps[q] \in Process
    OBVIOUS
  <2>2. CASE ps[q].chan = b
    <3>1. Wakeup(ps, b)[q] =
            [ps[q] EXCEPT !.pc = IF ps[q].pc = "bsleep" THEN "bget" ELSE "iderw", !.chan = None]
      BY <1>3, <2>2
    <3> QED
      BY <2>1, <3>1 DEF Places
  <2> QED
    BY <1>3, <2>1, <2>2
<1>5. Wakeup(ps, b) = [q \in Procs |-> Wakeup(ps, b)[q]]
  BY DEF Wakeup
<1> QED
  BY <1>3, <1>4, <1>5

\* brelse moves the buffer to the front and leaves the others in their order.
LEMMA ToFrontOrder ==
  ASSUME TypeOK, NEW b \in Bufs
  PROVE  ToFront(b) \in SetToSeqs(Bufs)
<1> DEFINE n == Cardinality(Bufs)
           D == 1..n
           place == CHOOSE i \in DOMAIN lru : lru[i] = b
<1>1. n \in Nat /\ IsFiniteSet(D) /\ Cardinality(D) = n
  BY FS_CardinalityType, FS_Interval, ConstantAssumption
<1>2. lru \in [D -> Bufs] /\ DOMAIN lru = D /\ \A i, j \in D : i # j => lru[i] # lru[j]
  BY DEF TypeOK, SetToSeqs
<1>3. lru \in Surjection(D, Bufs)
  <2>1. lru \in Injection(D, Bufs)
    BY <1>2 DEF Injection, IsInjective
  <2> QED
    BY <1>1, <2>1, FS_Injection, ConstantAssumption
<1>4. \E i \in D : lru[i] = b
  BY <1>3 DEF Surjection
<1>5. place \in D /\ lru[place] = b
  BY <1>2, <1>4
<1> HIDE DEF place
<1>6. ToFront(b) = [i \in D |-> IF i = 1 THEN b ELSE IF i <= place THEN lru[i - 1] ELSE lru[i]]
  BY <1>2 DEF ToFront, place
<1>7. \A i \in D : i # 1 /\ i <= place => i - 1 \in D /\ i - 1 < place
  BY <1>1, <1>5
<1>8. ToFront(b) \in [D -> Bufs]
  BY <1>2, <1>6, <1>7
<1>9. ASSUME NEW i \in D, NEW j \in D, i < j PROVE ToFront(b)[i] # ToFront(b)[j]
  <2> DEFINE at(k) == IF k <= place THEN k - 1 ELSE k
  <2>1. j # 1 /\ at(j) \in D /\ at(j) # place
    BY <1>1, <1>5, <1>7, <1>9
  <2>2. ToFront(b)[j] = lru[at(j)]
    BY <1>6, <2>1
  <2>3. CASE i = 1
    BY <1>2, <1>5, <1>6, <2>1, <2>2, <2>3
  <2>4. CASE i # 1
    <3>1. at(i) \in D /\ at(i) # at(j)
      BY <1>1, <1>5, <1>7, <1>9, <2>4
    <3>2. ToFront(b)[i] = lru[at(i)]
      BY <1>6, <2>4
    <3> QED
      BY <1>2, <2>1, <2>2, <3>1, <3>2
  <2> QED
    BY <2>3, <2>4
<1>10. \A i, j \in D : i # j => ToFront(b)[i] # ToFront(b)[j]
  <2>1. \A i, j \in D : i # j => i < j \/ j < i
    BY <1>1
  <2> QED
    BY <1>9, <2>1
<1> QED
  BY <1>8, <1>10 DEF SetToSeqs

LEMMA BrelseShape ==
  ASSUME IInv, NEW p \in Procs, NEW b, b = Top(p), Brelse(p)
  PROVE  /\ proc[p].pc = "run" /\ Len(Held(p)) \in Nat \ {0} /\ b \in Bufs
         /\ Finished(b) /\ ~InQueue(b)
         /\ lru' \in SetToSeqs(Bufs)
         /\ buf' \in [Bufs -> Buffer] /\ buf' = [buf EXCEPT ![b].busy = FALSE]
         /\ UNCHANGED <<queue, drive, disk, up>>
         /\ proc' \in [Procs -> Process]
         /\ \A q \in Procs : q # p => Held(q)' = Held(q) /\ Top(q)' = Top(q)
         /\ Len(Held(p)') = Len(Held(p)) - 1
         /\ \A i \in 1..Len(Held(p)) - 1 : Held(p)'[i] = Held(p)[i]
         /\ \A q \in Procs : proc'[q].want = proc[q].want
         /\ \A q \in Procs : \/ /\ proc[q].chan # b
                                /\ proc'[q].pc = proc[q].pc /\ proc'[q].chan = proc[q].chan
                             \/ /\ proc[q].chan = b /\ proc[q].pc = "bsleep"
                                /\ proc'[q].pc = "bget" /\ proc'[q].chan = None
<1> DEFINE ps == [proc EXCEPT ![p].held = Front(Held(p))]
<1>0. buf \in [Bufs -> Buffer] /\ proc \in [Procs -> Process] /\ None \notin Bufs
  BY ConstantAssumption DEF IInv, TypeOK
<1>1. proc[p].pc = "run" /\ Held(p) # <<>>
  BY DEF Brelse, At, Held
<1>2. Held(p) \in Seq(Bufs) /\ Len(Held(p)) \in Nat /\ Len(Held(p)) > 0
  BY <1>1, Shape DEF IInv
<1>3. b \in Bufs /\ Finished(b) /\ ~InQueue(b)
  <2>1. b \in Bufs /\ Len(Held(p)) \in 1..Len(Held(p)) /\ Held(p)[Len(Held(p))] = b
    BY <1>2, HeldOnce
  <2>2. Finished(b)
    BY <1>1, <2>1, PlaceOf
  <2>3. ~InQueue(b)
    BY <1>1, <2>1, QueuedHolder
  <2> QED
    BY <2>1, <2>2, <2>3
<1>4. lru' \in SetToSeqs(Bufs)
  BY <1>3, ToFrontOrder DEF Brelse, IInv
<1>5. /\ buf' = [buf EXCEPT ![b].busy = FALSE] /\ UNCHANGED <<queue, drive, disk, up>>
      /\ proc' = Wakeup([proc EXCEPT ![p].held = Front(@)], b)
  BY DEF Brelse
<1>6. buf' \in [Bufs -> Buffer]
  BY <1>0, <1>3, <1>5 DEF Buffer
<1>7. /\ Front(Held(p)) \in Seq(Bufs) /\ Len(Front(Held(p))) = Len(Held(p)) - 1
      /\ \A i \in 1..Len(Held(p)) - 1 : Front(Held(p))[i] = Held(p)[i]
  BY <1>2, FrontProperties
<1>8. proc' = Wakeup(ps, b)
  BY <1>5, <1>0 DEF Held
<1>9. ps \in [Procs -> Process] /\ ps[p].held = Front(Held(p))
  BY <1>0, <1>7
<1>10. \A q \in Procs : /\ ps[q].pc = proc[q].pc /\ ps[q].chan = proc[q].chan
                        /\ ps[q].want = proc[q].want
                        /\ q # p => ps[q].held = proc[q].held
  BY <1>0
<1> HIDE DEF ps
<1>11. ASSUME NEW q \in Procs, proc[q].chan = b PROVE proc[q].pc = "bsleep"
  <2>1. proc[q].pc \in {"bsleep", "iosleep"}
    BY <1>0, <1>3, <1>11, PlaceOf
  <2>2. proc[q].pc # "iosleep"
    BY <1>3, <1>11, PlaceOf
  <2> QED
    BY <2>1, <2>2
<1>12. \A q \in Procs : ps[q].chan = b => ps[q].pc \in {"bsleep", "iosleep"}
  BY <1>10, <1>11
<1>13. /\ proc' \in [Procs -> Process]
       /\ \A q \in Procs :
            /\ proc'[q].held = ps[q].held /\ proc'[q].want = ps[q].want
            /\ ps[q].chan # b => proc'[q] = ps[q]
            /\ ps[q].chan = b => /\ proc'[q].chan = None
                                 /\ ps[q].pc = "bsleep" => proc'[q].pc = "bget"
  BY <1>3, <1>8, <1>9, <1>12, WakeupShape
<1>14. \A q \in Procs : q # p => Held(q)' = Held(q) /\ Top(q)' = Top(q)
  BY <1>10, <1>13 DEF Held, Top
<1>15. /\ Len(Held(p)') = Len(Held(p)) - 1
       /\ \A i \in 1..Len(Held(p)) - 1 : Held(p)'[i] = Held(p)[i]
  <2>1. Held(p)' = Front(Held(p))
    BY <1>9, <1>13 DEF Held
  <2> QED
    BY <1>7, <2>1
<1>16. ASSUME NEW q \in Procs
       PROVE  \/ /\ proc[q].chan # b
                 /\ proc'[q].pc = proc[q].pc /\ proc'[q].chan = proc[q].chan
              \/ /\ proc[q].chan = b /\ proc[q].pc = "bsleep"
                 /\ proc'[q].pc = "bget" /\ proc'[q].chan = None
  BY <1>10, <1>11, <1>13
<1>17. \A q \in Procs : proc'[q].want = proc[q].want
  BY <1>10, <1>13
<1>18. Len(Held(p)) \in Nat \ {0}
  BY <1>2
<1> QED
  BY <1>1, <1>3, <1>4, <1>5, <1>6, <1>13, <1>14, <1>15, <1>16, <1>17, <1>18

LEMMA BrelseKeeps ==
  ASSUME IInv, NEW p \in Procs, Brelse(p)
  PROVE  IInv'
<1>b. PICK b : b = Top(p)
  OBVIOUS
<1>0. /\ proc[p].pc = "run" /\ Len(Held(p)) \in Nat \ {0} /\ b \in Bufs /\ Finished(b) /\ ~InQueue(b)
      /\ buf \in [Bufs -> Buffer] /\ buf' = [buf EXCEPT ![b].busy = FALSE]
      /\ UNCHANGED <<queue, drive, disk, up>>
  BY BrelseShape, <1>b DEF IInv, TypeOK
<1>1. \A c \in Bufs : /\ buf'[c].sector = buf[c].sector /\ buf'[c].valid = buf[c].valid
                      /\ buf'[c].dirty = buf[c].dirty /\ buf'[c].data = buf[c].data
                      /\ c # b => buf'[c].busy = buf[c].busy
  BY <1>0 DEF Buffer
<1>2. ~buf'[b].busy
  BY <1>0 DEF Buffer
<1>3. \A c \in Bufs : Finished(c)' <=> Finished(c)
  BY <1>1 DEF Finished
<1>4. \A c : InQueue(c)' <=> InQueue(c)
  BY <1>0 DEF InQueue
<1>5. /\ \A i \in 1..Len(Held(p)) - 1 : Held(p)[i] # b
      /\ \A q \in Procs : q # p => \A i \in 1..Len(Held(q)) : Held(q)[i] # b
      /\ \A q \in Procs : q # p => (Len(Held(q)) > 0 => Top(q) # b)
  BY <1>0, <1>b, HeldOnce
<1>6. \A q \in Procs : /\ \A i \in 1..Len(Held(q)) : Held(q)[i] \in Bufs
                       /\ Len(Held(q)) > 0 => Top(q) \in Bufs
  BY Shape DEF IInv
<1>7. \A q \in Procs : \A i \in 1..Len(Held(q)') :
        i \in 1..Len(Held(q)) /\ Held(q)'[i] = Held(q)[i] /\ Held(q)[i] # b
  <2> SUFFICES ASSUME NEW q \in Procs, NEW i \in 1..Len(Held(q)')
               PROVE  i \in 1..Len(Held(q)) /\ Held(q)'[i] = Held(q)[i] /\ Held(q)[i] # b
    OBVIOUS
  <2>1. CASE q = p
    <3>1. i \in 1..Len(Held(p)) - 1
      BY BrelseShape, <1>b, <2>1
    <3> QED
      BY BrelseShape, <1>0, <1>b, <1>5, <2>1, <3>1
  <2>2. CASE q # p
    BY BrelseShape, <1>b, <1>5, <2>2
  <2> QED
    BY <2>1, <2>2
<1>8. TypeOK'
  BY BrelseShape, <1>b, <1>0 DEF IInv, TypeOK
<1>9. HeldInv'
  <2>1. \A u, v \in Procs : \A k \in 1..Len(Held(u)), l \in 1..Len(Held(v)) :
          Held(u)[k] = Held(v)[l] => u = v /\ k = l
    BY DEF IInv, HeldInv
  <2>2. \A u, v \in Procs : \A k \in 1..Len(Held(u)'), l \in 1..Len(Held(v)') :
          Held(u)'[k] = Held(v)'[l] => u = v /\ k = l
    BY <1>7, <2>1
  <2>3. \A u \in Procs : \A k \in 1..Len(Held(u)') : buf'[Held(u)'[k]].busy
    <3> SUFFICES ASSUME NEW u \in Procs, NEW k \in 1..Len(Held(u)') PROVE buf'[Held(u)'[k]].busy
      OBVIOUS
    <3>1. k \in 1..Len(Held(u)) /\ Held(u)'[k] = Held(u)[k] /\ Held(u)[k] # b
      BY <1>7
    <3>2. buf[Held(u)[k]].busy /\ Held(u)[k] \in Bufs
      BY <1>6, <3>1 DEF IInv, HeldInv
    <3> QED
      BY <1>1, <3>1, <3>2
  <2>4. ASSUME NEW c \in Bufs, buf'[c].busy
        PROVE  \E q \in Procs : \E i \in 1..Len(Held(q)') : Held(q)'[i] = c
    <3>1. c # b /\ buf[c].busy
      BY <1>1, <1>2, <2>4
    <3>2. PICK q \in Procs : \E i \in 1..Len(Held(q)) : Held(q)[i] = c
      BY <3>1 DEF IInv, HeldInv
    <3>3. PICK i \in 1..Len(Held(q)) : Held(q)[i] = c
      BY <3>2
    <3>4. i \in 1..Len(Held(q)') /\ Held(q)'[i] = c
      <4>1. CASE q = p
        <5>1. Held(p)[Len(Held(p))] = b
          BY <1>0, <1>b, HeldOnce
        <5>2. i \in 1..Len(Held(p)) - 1
          BY <1>0, <3>1, <3>3, <4>1, <5>1
        <5> QED
          BY BrelseShape, <1>b, <3>3, <4>1, <5>2
      <4>2. CASE q # p
        BY BrelseShape, <1>b, <3>3, <4>2
      <4> QED
        BY <4>1, <4>2
    <3> QED
      BY <3>4
  <2> QED
    BY <2>2, <2>3, <2>4 DEF HeldInv
<1>10. SectorInv'
  <2>1. \A c \in Bufs : buf'[c].busy => buf[c].busy
    BY <1>1, <1>2
  <2> QED
    BY <1>1, <2>1 DEF IInv, SectorInv
<1>11. PlaceInv'
  <2> SUFFICES ASSUME NEW q \in Procs PROVE PlaceInv!(q)'
    BY DEF PlaceInv
  <2>1. PlaceInv!(q)
    BY DEF IInv, PlaceInv
  <2>2. \/ proc'[q].pc = proc[q].pc /\ proc'[q].chan = proc[q].chan
        \/ /\ proc[q].pc = "bsleep" /\ proc'[q].pc = "bget" /\ proc'[q].chan = None
    BY BrelseShape, <1>b
  <2>3. proc'[q].want = proc[q].want
    BY BrelseShape, <1>b
  <2>4. \A i \in 1..Len(Held(q)') : Finished(Held(q)[i]) => Finished(Held(q)[i])'
    <3> SUFFICES ASSUME NEW i \in 1..Len(Held(q)'), Finished(Held(q)[i]) PROVE Finished(Held(q)[i])'
      OBVIOUS
    <3>1. i \in 1..Len(Held(q)) /\ Held(q)'[i] = Held(q)[i] /\ Held(q)[i] \in Bufs
      BY <1>6, <1>7
    <3>2. buf'[Held(q)[i]].valid /\ ~buf'[Held(q)[i]].dirty
      BY <1>1, <3>1 DEF Finished
    <3> QED
      BY <3>1, <3>2 DEF Finished
  <2>5. \A i \in 1..Len(Held(q)') : i \in 1..Len(Held(q))
    BY <1>7
  <2>6. CASE q = p
    <3>1. proc[p].pc = "run" /\ \A i \in 1..Len(Held(p)') : Finished(Held(p)[i])'
      BY <1>0, <2>1, <2>4, <2>5, <2>6
    <3>2. proc'[p].pc = "run" /\ proc'[p].chan = proc[p].chan
      BY <1>0, <2>2, <2>6
    <3>3. \A i \in 1..Len(Held(p)') - 1 : i \in 1..Len(Held(p)')
      BY BrelseShape, <1>b
    <3> QED
      BY <2>1, <2>3, <2>6, <3>1, <3>2, <3>3
  <2>7. CASE q # p
    <3>1. Held(q)' = Held(q) /\ Top(q)' = Top(q)
      BY BrelseShape, <1>b, <2>7
    <3>2. Len(Held(q)) > 0 => /\ InQueue(Top(q))' <=> InQueue(Top(q))
                              /\ Finished(Top(q))' <=> Finished(Top(q))
                              /\ buf'[Top(q)].dirty = buf[Top(q)].dirty
      BY <1>1, <1>3, <1>4, <1>6, <3>1
    <3>3. \A i \in 1..Len(Held(q)) - 1 : i \in 1..Len(Held(q))
      BY Shape DEF IInv
    <3> QED
      BY <2>1, <2>2, <2>3, <2>4, <3>1, <3>2, <3>3
  <2> QED
    BY <2>6, <2>7
<1>12. QueueInv'
  <2>1. ASSUME NEW i \in 1..Len(queue)
        PROVE  \E q \in Procs : proc'[q].pc \in {"iderw", "iosleep"} /\ queue[i] = Top(q)'
    <3>1. PICK q \in Procs : proc[q].pc \in {"iderw", "iosleep"} /\ queue[i] = Top(q)
      BY DEF IInv, QueueInv
    <3>2. q # p /\ proc[q].pc # "bsleep"
      BY <1>0, <3>1
    <3>3. Top(q)' = Top(q) /\ proc'[q].pc = proc[q].pc
      BY BrelseShape, <1>b, <3>2
    <3> QED
      BY <3>1, <3>3
  <2>2. \A c \in Bufs : /\ buf'[c].dirty => InQueue(c)' /\ buf'[c].valid /\ buf'[c].data \in Values
                        /\ buf'[c].valid => buf'[c].data \in Values
    BY <1>1, <1>4 DEF IInv, QueueInv
  <2> QED
    BY <1>0, <2>1, <2>2 DEF IInv, QueueInv
<1>13. DriveInv'
  <2>1. queue # <<>> => Head(queue) \in Bufs
    BY HeadTailProperties DEF IInv, TypeOK
  <2> QED
    BY <1>0, <1>1, <2>1 DEF IInv, DriveInv
<1>14. DataInv'
  BY <1>0, <1>1, <1>3 DEF IInv, DataInv
<1>15. NoLostWakeup'
  <2> SUFFICES ASSUME NEW q \in Procs PROVE NoLostWakeup!(q)'
    BY DEF NoLostWakeup
  <2>1. \/ /\ proc[q].chan # b /\ proc'[q].pc = proc[q].pc /\ proc'[q].chan = proc[q].chan
        \/ proc'[q].pc = "bget"
    BY BrelseShape, <1>b
  <2>2. CASE proc'[q].pc = "bsleep"
    <3>1. proc[q].pc = "bsleep" /\ proc[q].chan # b /\ proc'[q].chan = proc[q].chan
      BY <2>1, <2>2
    <3>2. proc[q].chan \in Bufs /\ buf[proc[q].chan].busy /\ buf[proc[q].chan].sector = proc[q].want
      BY <3>1, PlaceOf
    <3>3. proc'[q].want = proc[q].want
      BY BrelseShape, <1>b
    <3> QED
      BY <1>1, <2>2, <3>1, <3>2, <3>3
  <2>3. CASE proc'[q].pc = "iosleep"
    <3>1. proc[q].pc = "iosleep" /\ proc'[q].chan = proc[q].chan /\ q # p
      BY <1>0, <2>1, <2>3
    <3>2. proc[q].chan = Top(q) /\ Top(q) \in ToSet(queue) /\ Top(q)' = Top(q)
      BY BrelseShape, <1>b, <3>1 DEF IInv, NoLostWakeup
    <3> QED
      BY <1>0, <2>3, <3>1, <3>2
  <2> QED
    BY <2>2, <2>3
<1> QED
  BY <1>8, <1>9, <1>10, <1>11, <1>12, <1>13, <1>14, <1>15 DEF IInv
------------------------------------------------------------------------------
\* A step of the drive changes the platter, or what a read will return.
LEMMA DriveStep ==
  ASSUME IInv, DriveWorks
  PROVE  IInv'
<1>0. /\ UNCHANGED <<buf, lru, queue, proc, up>> /\ drive # None /\ ~drive.done
      /\ buf \in [Bufs -> Buffer] /\ disk \in [Sectors -> Values]
      /\ drive \in Command
  BY DEF DriveWorks, IInv, TypeOK
<1>1. /\ queue # <<>> /\ Head(queue) \in Bufs /\ InQueue(Head(queue))
      /\ drive.sector = buf[Head(queue)].sector
      /\ drive.write = buf[Head(queue)].dirty
      /\ drive.write => drive.data = buf[Head(queue)].data
  <2>1. queue # <<>>
    BY <1>0 DEF IInv, DriveInv
  <2>2. Head(queue) = queue[1] /\ 1 \in 1..Len(queue) /\ queue[1] \in Bufs
    BY <2>1, Shape DEF IInv
  <2> QED
    BY <2>1, <2>2 DEF InQueue, IInv, DriveInv
<1>2. \/ /\ drive.write /\ drive' = [drive EXCEPT !.done = TRUE]
         /\ disk' = [disk EXCEPT ![drive.sector] = drive.data]
      \/ /\ ~drive.write /\ drive' = [drive EXCEPT !.done = TRUE, !.data = disk[drive.sector]]
         /\ disk' = disk
  BY DEF DriveWorks
<1>3. drive.sector \in Sectors /\ drive.write \in BOOLEAN /\ (drive.write => drive.data \in Values)
  <2>1. drive.write => buf[Head(queue)].data \in Values
    BY <1>1 DEF IInv, QueueInv
  <2> QED
    BY <1>0, <1>1, <2>1 DEF Command
<1>4. /\ drive' \in Command /\ disk' \in [Sectors -> Values]
      /\ drive'.sector = drive.sector /\ drive'.write = drive.write
      /\ drive.write => drive'.data = drive.data
      /\ drive'.data = disk'[drive.sector]
      /\ \A s \in Sectors : s # drive.sector => disk'[s] = disk[s]
      /\ ~drive.write => disk' = disk
  <2>1. CASE drive.write
    BY <1>0, <1>2, <1>3, <2>1 DEF Command
  <2>2. CASE ~drive.write
    <3>1. disk[drive.sector] \in Values
      BY <1>0, <1>3
    <3> QED
      BY <1>0, <1>2, <1>3, <2>2, <3>1 DEF Command
  <2> QED
    BY <2>1, <2>2
<1>5. TypeOK'
  BY <1>0, <1>4 DEF IInv, TypeOK
<1>6. HeldInv' /\ SectorInv' /\ NoLostWakeup'
  <2>1. HeldInv'
    BY <1>0 DEF IInv, HeldInv, Held
  <2>2. SectorInv'
    BY <1>0 DEF IInv, SectorInv
  <2>3. NoLostWakeup'
    BY <1>0 DEF IInv, NoLostWakeup, Top
  <2> QED
    BY <2>1, <2>2, <2>3
<1>7. PlaceInv'
  BY <1>0 DEF IInv, PlaceInv, Held, Top, InQueue, Finished
<1>8. QueueInv'
  BY <1>0 DEF IInv, QueueInv, Top, InQueue
<1>9. DriveInv'
  <2>1. drive' # None
    BY <1>4, CommandAssumption
  <2> QED
    BY <1>0, <1>1, <1>4, <2>1 DEF DriveInv
<1>10. DataInv'
  <2> SUFFICES ASSUME NEW c \in Bufs, Finished(c) PROVE buf[c].data = disk'[buf[c].sector]
    BY <1>0 DEF DataInv, Finished
  <2>1. buf[c].data = disk[buf[c].sector]
    BY DEF IInv, DataInv
  <2>2. CASE drive.write
    <3>1. c # Head(queue)
      BY <1>1, <2>2 DEF Finished
    <3>2. buf[c].sector # None /\ buf[c].sector \in Sectors
      <4>1. buf[c].sector # None
        BY DEF Finished, IInv, SectorInv
      <4> QED
        BY <1>0, <4>1 DEF Buffer
    <3>3. buf[c].sector # drive.sector
      BY <1>1, <3>1, <3>2 DEF IInv, SectorInv
    <3> QED
      BY <1>4, <2>1, <3>2, <3>3
  <2>3. CASE ~drive.write
    BY <1>4, <2>1, <2>3
  <2> QED
    BY <1>3, <2>2, <2>3
<1> QED
  BY <1>5, <1>6, <1>7, <1>8, <1>9, <1>10 DEF IInv

\* ideintr serves the head of the queue, and starts the next one.
LEMMA IdeintrShape ==
  ASSUME IInv, Ideintr, NEW b, b = Head(queue)
  PROVE  /\ b \in Bufs /\ queue # <<>> /\ UNCHANGED <<lru, disk, up>>
         /\ buf' \in [Bufs -> Buffer]
         /\ \A c \in Bufs : /\ c # b => buf'[c] = buf[c]
                            /\ buf'[c].sector = buf[c].sector /\ buf'[c].busy = buf[c].busy
         /\ buf'[b].valid /\ ~buf'[b].dirty /\ buf'[b].data = disk[buf[b].sector]
         /\ buf[b].sector \in Sectors /\ buf'[b].data \in Values
         /\ queue' \in Seq(Bufs) /\ Len(queue) \in Nat \ {0} /\ Len(queue') = Len(queue) - 1
         /\ \A i \in 1..Len(queue) - 1 : queue'[i] = queue[i + 1]
         /\ \A c : InQueue(c)' <=> InQueue(c) /\ c # b
         /\ drive' = Started(queue', buf')
         /\ \E p \in Procs : /\ proc[p].pc \in {"iderw", "iosleep"} /\ b = Top(p)
                             /\ \A q \in Procs : proc[q].pc = "iosleep" /\ proc[q].chan = b => q = p
         /\ proc' \in [Procs -> Process]
         /\ \A q \in Procs : /\ Held(q)' = Held(q) /\ Top(q)' = Top(q) /\ proc'[q].want = proc[q].want
                             /\ \/ proc[q].chan # b /\ proc'[q] = proc[q]
                                \/ /\ proc[q].chan = b /\ proc[q].pc = "bsleep"
                                   /\ proc'[q].pc = "bget" /\ proc'[q].chan = None
                                \/ /\ proc[q].chan = b /\ proc[q].pc = "iosleep"
                                   /\ proc'[q].pc = "iderw" /\ proc'[q].chan = None
<1>0. /\ drive # None /\ drive.done
      /\ buf' = Served(Head(queue)) /\ queue' = Tail(queue) /\ proc' = Wakeup(proc, Head(queue))
      /\ drive' = StartNext(queue', buf') /\ UNCHANGED <<lru, disk, up>>
  BY DEF Ideintr
<1>1. buf \in [Bufs -> Buffer] /\ queue \in Seq(Bufs) /\ proc \in [Procs -> Process] /\ None \notin Bufs
      /\ disk \in [Sectors -> Values]
  BY ConstantAssumption DEF IInv, TypeOK
<1>2. queue # <<>> /\ b = queue[1] /\ b \in Bufs /\ Len(queue) \in Nat \ {0}
  <2>1. queue # <<>>
    BY <1>0 DEF IInv, DriveInv
  <2> QED
    BY <2>1, Shape DEF IInv
<1>3. /\ queue' \in Seq(Bufs) /\ Len(queue') = Len(queue) - 1
      /\ \A i \in 1..Len(queue) - 1 : queue'[i] = queue[i + 1]
  BY <1>0, <1>1, <1>2, HeadTailProperties
<1>4. PICK p \in Procs : proc[p].pc \in {"iderw", "iosleep"} /\ b = Top(p)
  <2>1. 1 \in 1..Len(queue)
    BY <1>2
  <2> QED
    BY <1>2, <2>1 DEF IInv, QueueInv
<1>5. buf[b].sector \in Sectors /\ InQueue(b)
  <2>1. Len(Held(p)) > 0 /\ 1 \in 1..Len(queue)
    BY <1>2, <1>4, PlaceOf
  <2> QED
    BY <1>2, <1>4, <2>1, HeldOnce DEF InQueue
<1>6. /\ drive.data = disk[buf[b].sector]
      /\ buf[b].dirty => buf[b].data = disk[buf[b].sector]
  BY <1>0, <1>2 DEF IInv, DriveInv
<1>7. buf' = [buf EXCEPT ![b] = [buf[b] EXCEPT !.valid = TRUE, !.dirty = FALSE,
                                               !.data = disk[buf[b].sector]]]
  <2>1. (IF buf[b].dirty THEN buf[b].data ELSE drive.data) = disk[buf[b].sector]
    BY <1>6
  <2>2. buf' = [buf EXCEPT ![b] = [buf[b] EXCEPT !.valid = TRUE, !.dirty = FALSE,
                             !.data = IF buf[b].dirty THEN buf[b].data ELSE drive.data]]
    BY <1>0 DEF Served
  <2> QED
    BY <2>1, <2>2
<1>8. disk[buf[b].sector] \in Values
  BY <1>1, <1>5
<1>9. /\ buf' \in [Bufs -> Buffer]
      /\ \A c \in Bufs : /\ c # b => buf'[c] = buf[c]
                         /\ buf'[c].sector = buf[c].sector /\ buf'[c].busy = buf[c].busy
      /\ buf'[b].valid /\ ~buf'[b].dirty /\ buf'[b].data = disk[buf[b].sector]
      /\ buf'[b].data \in Values
  <2>1. buf \in [Bufs -> Buffer] /\ b \in Bufs
    BY <1>1, <1>2
  <2>2. buf' \in [Bufs -> Buffer]
    <3>1. [buf[b] EXCEPT !.valid = TRUE, !.dirty = FALSE, !.data = disk[buf[b].sector]] \in Buffer
      BY <1>8, <2>1 DEF Buffer
    <3> QED
      BY <1>7, <2>1, <3>1
  <2>3. \A c \in Bufs : c # b => buf'[c] = buf[c]
    BY <1>7, <2>1
  <2>4. buf'[b] = [buf[b] EXCEPT !.valid = TRUE, !.dirty = FALSE, !.data = disk[buf[b].sector]]
    BY <1>7, <2>1
  <2>5. /\ buf'[b].sector = buf[b].sector /\ buf'[b].busy = buf[b].busy
        /\ buf'[b].valid /\ ~buf'[b].dirty /\ buf'[b].data = disk[buf[b].sector]
    BY <2>1, <2>4 DEF Buffer
  <2> QED
    BY <1>8, <2>2, <2>3, <2>5
<1>10. \A c : InQueue(c)' <=> InQueue(c) /\ c # b
  <2>1. \A i \in 1..Len(queue') : i + 1 \in 1..Len(queue) /\ i + 1 # 1 /\ queue'[i] = queue[i + 1]
    BY <1>2, <1>3
  <2>2. \A i \in 1..Len(queue) : i # 1 => i - 1 \in 1..Len(queue') /\ queue'[i - 1] = queue[i]
    BY <1>2, <1>3
  <2>3. \A i \in 1..Len(queue) : queue[i] = b <=> i = 1
    <3>1. 1 \in 1..Len(queue)
      BY <1>2
    <3> QED
      BY <1>2, <3>1 DEF IInv, QueueInv
  <2>4. ASSUME NEW c, NEW i \in 1..Len(queue'), queue'[i] = c PROVE InQueue(c) /\ c # b
    BY <2>1, <2>3, <2>4 DEF InQueue
  <2>5. ASSUME NEW c, NEW i \in 1..Len(queue), queue[i] = c, c # b
        PROVE  \E j \in 1..Len(queue') : queue'[j] = c
    BY <2>2, <2>3, <2>5, <1>2
  <2> QED
    BY <2>4, <2>5 DEF InQueue
<1>11. \A q \in Procs : proc[q].chan = b => proc[q].pc \in {"bsleep", "iosleep"}
  BY <1>1, <1>2, PlaceOf
<1>12. /\ proc' \in [Procs -> Process]
       /\ \A q \in Procs :
            /\ proc'[q].held = proc[q].held /\ proc'[q].want = proc[q].want
            /\ proc[q].chan # b => proc'[q] = proc[q]
            /\ proc[q].chan = b => /\ proc'[q].chan = None
                                   /\ proc[q].pc = "bsleep" => proc'[q].pc = "bget"
                                   /\ proc[q].pc = "iosleep" => proc'[q].pc = "iderw"
  <2>1. PICK w : w = Wakeup(proc, b)
    OBVIOUS
  <2>2. /\ w \in [Procs -> Process]
        /\ \A q \in Procs :
             /\ w[q].held = proc[q].held /\ w[q].want = proc[q].want
             /\ proc[q].chan # b => w[q] = proc[q]
             /\ proc[q].chan = b => /\ w[q].chan = None
                                    /\ proc[q].pc = "bsleep" => w[q].pc = "bget"
                                    /\ proc[q].pc = "iosleep" => w[q].pc = "iderw"
    BY <1>1, <1>2, <1>11, <2>1, WakeupShape
  <2>3. proc' = w
    BY <1>0, <2>1
  <2> QED
    BY <2>2, <2>3
<1>13. ASSUME NEW q \in Procs, proc[q].pc = "iosleep", proc[q].chan = b PROVE q = p
  <2>1. Top(q) = b /\ Len(Held(q)) > 0 /\ Len(Held(p)) > 0
    BY <1>4, <1>13, PlaceOf
  <2> QED
    BY <1>4, <2>1, HeldOnce
<1>14. \A q \in Procs : Held(q)' = Held(q) /\ Top(q)' = Top(q)
  BY <1>12 DEF Held, Top
<1>15. drive' = Started(queue', buf')
  BY <1>0 DEF StartNext
<1>16. \E u \in Procs : /\ proc[u].pc \in {"iderw", "iosleep"} /\ b = Top(u)
                        /\ \A q \in Procs : proc[q].pc = "iosleep" /\ proc[q].chan = b => q = u
  BY <1>4, <1>13
<1>17. \A q \in Procs : \/ proc[q].chan # b /\ proc'[q] = proc[q]
                        \/ /\ proc[q].chan = b /\ proc[q].pc = "bsleep"
                           /\ proc'[q].pc = "bget" /\ proc'[q].chan = None
                        \/ /\ proc[q].chan = b /\ proc[q].pc = "iosleep"
                           /\ proc'[q].pc = "iderw" /\ proc'[q].chan = None
  BY <1>11, <1>12
<1> QED
  BY <1>0, <1>2, <1>3, <1>5, <1>9, <1>10, <1>12, <1>14, <1>15, <1>16, <1>17

LEMMA IdeintrKeeps ==
  ASSUME IInv, Ideintr
  PROVE  IInv'
<1>b. PICK b : b = Head(queue)
  OBVIOUS
<1>0. /\ b \in Bufs /\ queue # <<>> /\ UNCHANGED <<lru, disk, up>>
      /\ Len(queue) \in Nat \ {0} /\ Len(queue') = Len(queue) - 1
  BY IdeintrShape, <1>b
<1>1. /\ \A c \in Bufs : /\ c # b => buf'[c] = buf[c]
                         /\ buf'[c].sector = buf[c].sector /\ buf'[c].busy = buf[c].busy
      /\ buf'[b].valid /\ ~buf'[b].dirty /\ buf'[b].data = disk[buf[b].sector]
      /\ buf'[b].data \in Values /\ buf[b].sector \in Sectors
  BY IdeintrShape, <1>b
<1>2. PICK p \in Procs :
        /\ proc[p].pc \in {"iderw", "iosleep"} /\ b = Top(p)
        /\ \A q \in Procs : proc[q].pc = "iosleep" /\ proc[q].chan = b => q = p
  BY IdeintrShape, <1>b
<1>3. \A q \in Procs : /\ Held(q)' = Held(q) /\ Top(q)' = Top(q) /\ proc'[q].want = proc[q].want
                       /\ \/ proc[q].chan # b /\ proc'[q] = proc[q]
                          \/ /\ proc[q].chan = b /\ proc[q].pc = "bsleep"
                             /\ proc'[q].pc = "bget" /\ proc'[q].chan = None
                          \/ /\ proc[q].chan = b /\ proc[q].pc = "iosleep"
                             /\ proc'[q].pc = "iderw" /\ proc'[q].chan = None
  BY IdeintrShape, <1>b
<1>4. \A c : InQueue(c)' <=> InQueue(c) /\ c # b
  BY IdeintrShape, <1>b
<1>5. /\ \A c \in Bufs : c # b => (Finished(c)' <=> Finished(c))
      /\ \A c \in Bufs : c = b => Finished(c)'
  BY <1>1 DEF Finished
<1>6. /\ Len(Held(p)) > 0 /\ \A i \in 1..Len(Held(p)) - 1 : Held(p)[i] # b
      /\ \A q \in Procs : q # p => \A i \in 1..Len(Held(q)) : Held(q)[i] # b
      /\ \A q \in Procs : q # p => (Len(Held(q)) > 0 => Top(q) # b)
  BY <1>2, HeldOnce, PlaceOf
<1>7. \A q \in Procs : /\ \A i \in 1..Len(Held(q)) : Held(q)[i] \in Bufs
                       /\ Len(Held(q)) \in Nat
                       /\ Len(Held(q)) > 0 => Top(q) \in Bufs
  BY Shape DEF IInv
<1>8. queue' # <<>> => /\ Head(queue') \in Bufs
                       /\ buf'[Head(queue')] \in Buffer
                       /\ buf'[Head(queue')].sector \in Sectors
  <2> SUFFICES ASSUME queue' # <<>>, NEW h, h = Head(queue')
               PROVE  h \in Bufs /\ buf'[h] \in Buffer /\ buf'[h].sector \in Sectors
    OBVIOUS
  <2>1. queue' \in Seq(Bufs) /\ buf' \in [Bufs -> Buffer]
    BY IdeintrShape, <1>b
  <2>2. Len(queue') > 0 /\ Len(queue') \in Nat
    BY <2>1, SeqFacts
  <2>3. 1 \in 1..Len(queue') /\ h = queue'[1] /\ h \in Bufs
    BY <2>1, <2>2, SeqFacts
  <2>4. InQueue(h)
    BY <1>4, <2>3 DEF InQueue
  <2>5. PICK i \in 1..Len(queue) : queue[i] = h
    BY <2>4 DEF InQueue
  <2>6. PICK q \in Procs : proc[q].pc \in {"iderw", "iosleep"} /\ queue[i] = Top(q)
    BY DEF IInv, QueueInv
  <2>7. buf[h].sector \in Sectors
    BY <2>5, <2>6, PlaceOf, HeldOnce
  <2> QED
    BY <1>1, <2>1, <2>3, <2>7
<1>9. drive' = IF queue' = <<>> THEN None
               ELSE [sector |-> buf'[Head(queue')].sector, write |-> buf'[Head(queue')].dirty,
                     done |-> FALSE,
                     data |-> IF buf'[Head(queue')].dirty THEN buf'[Head(queue')].data ELSE None]
  <2>1. drive' = Started(queue', buf')
    BY IdeintrShape, <1>b
  <2> QED
    BY <2>1 DEF Started
<1>10. drive' \in Command \cup {None} /\ (queue' # <<>> => drive' # None)
  <2>1. CASE queue' = <<>>
    BY <1>9, <2>1
  <2>2. CASE queue' # <<>>
    <3>1. /\ buf'[Head(queue')].dirty \in BOOLEAN /\ buf'[Head(queue')].sector \in Sectors
          /\ (IF buf'[Head(queue')].dirty THEN buf'[Head(queue')].data ELSE None)
               \in Values \cup {None}
      BY <1>8, <2>2 DEF Buffer
    <3>2. drive' \in Command
      BY <1>9, <2>2, <3>1 DEF Command
    <3> QED
      BY <2>2, <3>2, CommandAssumption
  <2> QED
    BY <2>1, <2>2
<1>11. TypeOK'
  <2>1. /\ buf' \in [Bufs -> Buffer] /\ queue' \in Seq(Bufs) /\ proc' \in [Procs -> Process]
    BY IdeintrShape, <1>b
  <2> QED
    BY <1>0, <1>10, <2>1 DEF IInv, TypeOK
<1>12. HeldInv'
  BY <1>1, <1>3, <1>7 DEF IInv, HeldInv
<1>13. SectorInv'
  <2>1. \A c \in Bufs : buf'[c].sector = None => c # b /\ buf'[c] = buf[c]
    BY <1>1, ConstantAssumption
  <2> QED
    BY <1>1, <2>1 DEF IInv, SectorInv
<1>14. PlaceInv'
  <2> SUFFICES ASSUME NEW q \in Procs PROVE PlaceInv!(q)'
    BY DEF PlaceInv
  <2>1. PlaceInv!(q)
    BY DEF IInv, PlaceInv
  <2>2. /\ Held(q)' = Held(q) /\ Top(q)' = Top(q) /\ proc'[q].want = proc[q].want
        /\ \/ proc'[q].pc = proc[q].pc /\ proc'[q].chan = proc[q].chan
           \/ proc[q].pc = "bsleep" /\ proc'[q].pc = "bget" /\ proc'[q].chan = None
           \/ proc[q].pc = "iosleep" /\ proc'[q].pc = "iderw" /\ proc'[q].chan = None
    BY <1>3
  <2>3. \A c \in Bufs : Finished(c) => Finished(c)'
    BY <1>5
  <2>4. \A i \in 1..Len(Held(q)) : Finished(Held(q)[i]) => Finished(Held(q)[i])'
    BY <1>7, <2>2, <2>3
  <2>5. \A i \in 1..Len(Held(q)) - 1 : i \in 1..Len(Held(q))
    BY <1>7
  <2>6. proc[q].pc = "got" => Top(q) # b
    BY <1>2, <1>6, PlaceOf
  <2>7. proc[q].pc = "got" => ~buf'[Top(q)].dirty
    BY <1>1, <1>7, <2>1, <2>6, PlaceOf
  <2>8. proc[q].pc \in {"iderw", "iosleep"} => (InQueue(Top(q))' <=> ~Finished(Top(q))')
    <3>1. CASE q = p
      BY <1>0, <1>2, <1>4, <1>5, <2>2, <3>1
    <3>2. CASE q # p
      <4> SUFFICES ASSUME proc[q].pc \in {"iderw", "iosleep"}
                   PROVE  InQueue(Top(q))' <=> ~Finished(Top(q))'
        OBVIOUS
      <4>1. Top(q) \in Bufs /\ Top(q) # b
        BY <1>6, <1>7, <3>2, PlaceOf
      <4> QED
        BY <1>4, <1>5, <2>1, <2>2, <4>1
    <3> QED
      BY <3>1, <3>2
  <2> QED
    BY <2>1, <2>2, <2>4, <2>5, <2>7, <2>8
<1>15. QueueInv'
  <2>1. /\ Len(queue) \in Nat \ {0} /\ Len(queue') = Len(queue) - 1
        /\ \A i \in 1..Len(queue) - 1 : queue'[i] = queue[i + 1]
    BY IdeintrShape, <1>b
  <2>2. \A i \in 1..Len(queue') : i + 1 \in 1..Len(queue) /\ queue'[i] = queue[i + 1]
    BY <2>1
  <2>3. ASSUME NEW i \in 1..Len(queue'), NEW j \in 1..Len(queue'), queue'[i] = queue'[j]
        PROVE  i = j
    <3>1. i + 1 = j + 1
      BY <2>2, <2>3 DEF IInv, QueueInv
    <3> QED
      BY <3>1
  <2>4. ASSUME NEW i \in 1..Len(queue')
        PROVE  \E q \in Procs : proc'[q].pc \in {"iderw", "iosleep"} /\ queue'[i] = Top(q)'
    <3>1. PICK q \in Procs : proc[q].pc \in {"iderw", "iosleep"} /\ queue[i + 1] = Top(q)
      BY <2>2 DEF IInv, QueueInv
    <3>2. proc'[q].pc \in {"iderw", "iosleep"}
      BY <1>3, <3>1
    <3> QED
      BY <1>3, <2>2, <3>1, <3>2
  <2>5. ASSUME NEW c \in Bufs
        PROVE  /\ buf'[c].dirty => InQueue(c)' /\ buf'[c].valid /\ buf'[c].data \in Values
               /\ buf'[c].valid => buf'[c].data \in Values
    <3>1. CASE c = b
      BY <1>1, <3>1
    <3>2. CASE c # b
      BY <1>1, <1>4, <3>2 DEF IInv, QueueInv
    <3> QED
      BY <3>1, <3>2
  <2> QED
    BY <2>3, <2>4, <2>5 DEF QueueInv
<1>16. DriveInv'
  <2>1. queue' # <<>> => /\ drive'.sector = buf'[Head(queue')].sector
                         /\ drive'.write = buf'[Head(queue')].dirty /\ ~drive'.done
                         /\ drive'.write => drive'.data = buf'[Head(queue')].data
    BY <1>9
  <2>2. queue' = <<>> <=> drive' = None
    BY <1>9, <1>10
  <2> QED
    BY <2>1, <2>2 DEF DriveInv
<1>17. DataInv'
  <2> SUFFICES ASSUME NEW c \in Bufs, Finished(c)' PROVE buf'[c].data = disk'[buf'[c].sector]
    BY DEF DataInv
  <2>1. CASE c = b
    BY <1>0, <1>1, <2>1
  <2>2. CASE c # b
    BY <1>0, <1>1, <1>5, <2>2 DEF IInv, DataInv
  <2> QED
    BY <2>1, <2>2
<1>18. NoLostWakeup'
  <2> SUFFICES ASSUME NEW q \in Procs PROVE NoLostWakeup!(q)'
    BY DEF NoLostWakeup
  <2>1. CASE proc'[q].pc = "bsleep"
    <3>1. proc[q].pc = "bsleep" /\ proc'[q] = proc[q]
      BY <1>3, <2>1
    <3>2. proc[q].chan \in Bufs /\ buf[proc[q].chan].busy /\ buf[proc[q].chan].sector = proc[q].want
      BY <3>1, PlaceOf
    <3> QED
      BY <1>1, <2>1, <3>1, <3>2
  <2>2. CASE proc'[q].pc = "iosleep"
    <3>1. proc[q].pc = "iosleep" /\ proc'[q] = proc[q] /\ proc[q].chan # b /\ Top(q)' = Top(q)
      BY <1>3, <2>2
    <3>2. proc[q].chan = Top(q) /\ InQueue(Top(q))
      BY <3>1, PlaceOf
    <3>3. InQueue(Top(q))'
      BY <1>4, <3>1, <3>2
    <3>4. Top(q) \in ToSet(queue)'
      <4>1. queue' \in Seq(Bufs)
        BY IdeintrShape, <1>b
      <4> QED
        BY <3>1, <3>3, <4>1, SeqFacts DEF InQueue
    <3> QED
      BY <2>2, <3>1, <3>2, <3>4
  <2> QED
    BY <2>1, <2>2
<1> QED
  BY <1>11, <1>12, <1>13, <1>14, <1>15, <1>16, <1>17, <1>18 DEF IInv
------------------------------------------------------------------------------
\* After a power failure the machine is as it was at boot.
LEMMA CrashKeeps == IInv /\ Crash => IInv'
<1>1. (Boot(buf, lru, queue, drive, proc, up) /\ disk \in [Sectors -> Values])' => IInv'
  BY BootIInv, PTL
<1>2. IInv /\ Crash => (Boot(buf, lru, queue, drive, proc, up) /\ disk \in [Sectors -> Values])'
  BY DEF IInv, TypeOK, Crash, Boot
<1> QED
  BY <1>1, <1>2

LEMMA StutterKeeps == IInv /\ UNCHANGED vars => IInv'
<1> SUFFICES ASSUME IInv, UNCHANGED vars PROVE IInv'
  OBVIOUS
<1> USE DEF IInv, vars
<1>1. TypeOK'
  BY DEF TypeOK
<1>2. HeldInv' /\ SectorInv'
  BY DEF HeldInv, SectorInv, Held
<1>3. PlaceInv' /\ NoLostWakeup'
  BY DEF PlaceInv, NoLostWakeup, Held, Top, InQueue, Finished
<1>4. QueueInv' /\ DriveInv' /\ DataInv'
  BY DEF QueueInv, DriveInv, DataInv, InQueue, Top, Finished
<1> QED
  BY <1>1, <1>2, <1>3, <1>4

LEMMA StepIInv == IInv /\ [Next]_vars => IInv'
<1> SUFFICES ASSUME IInv, [Next]_vars PROVE IInv'
  OBVIOUS
<1>1. CASE \E p \in Procs : \/ Kernel(p) \/ Brelse(p) \/ Kill(p)
                            \/ \E s \in Sectors : Bread(p, s)
                            \/ \E v \in Values : Bwrite(p, v)
  <2> SUFFICES ASSUME NEW p \in Procs,
                      \/ Kernel(p) \/ Brelse(p) \/ Kill(p)
                      \/ \E s \in Sectors : Bread(p, s)
                      \/ \E v \in Values : Bwrite(p, v)
               PROVE  IInv'
    BY <1>1
  <2>1. CASE \/ \E s \in Sectors : Bread(p, s)
             \/ BgetSleep(p) \/ BgetPanic(p) \/ BreadValid(p)
             \/ IderwSleep(p) \/ IderwReturns(p) \/ Kill(p)
    BY <2>1, MovingSteps
  <2>2. CASE BreadMiss(p) \/ \E v \in Values : Bwrite(p, v)
    BY <2>2, QueueingSteps
  <2>3. CASE BgetHit(p) \/ BgetRecycle(p)
    BY <2>3, GettingSteps
  <2>4. CASE Brelse(p)
    BY <2>4, BrelseKeeps
  <2> QED
    BY <2>1, <2>2, <2>3, <2>4 DEF Kernel, Bget
<1>2. CASE DriveWorks
  BY <1>2, DriveStep
<1>3. CASE Ideintr
  BY <1>3, IdeintrKeeps
<1>4. CASE Crash
  BY <1>4, CrashKeeps
<1>5. CASE UNCHANGED vars
  BY <1>5, StutterKeeps
<1> QED
  BY <1>1, <1>2, <1>3, <1>4, <1>5 DEF Next

\* The inductive invariant holds in every reachable state of the cache.
THEOREM Invariance == Spec => []IInv
<1>1. Init => IInv
  BY BootIInv DEF Init
<1> QED
  BY <1>1, StepIInv, PTL DEF Spec

\* Every variable keeps its type; in particular the list of buffers stays an
\* order of all buffers, however often brelse moves them.
THEOREM TypeCorrect == Spec => []TypeOK
<1>1. IInv => TypeOK
  BY DEF IInv
<1> QED
  BY <1>1, Invariance, PTL

\* A sector is in one buffer at most, a busy buffer has one holder, a buffer
\* that is not being written agrees with the platter, and the drive works for
\* the head of idequeue.
THEOREM CoherentHolds == Spec => []Coherent
<1>1. IInv => Coherent
  <2> SUFFICES ASSUME IInv PROVE Coherent
    OBVIOUS
  <2>1. \A p \in Procs : \A b : b \in ToSet(proc[p].held) <=> \E i \in 1..Len(Held(p)) : Held(p)[i] = b
    BY SeqFacts DEF IInv, TypeOK, Held
  <2>2. ASSUME NEW b \in Bufs
        PROVE  buf[b].busy <=> \E p \in Procs : b \in ToSet(proc[p].held) /\
                                 \A q \in Procs \ {p} : b \notin ToSet(proc[q].held)
    <3>1. ASSUME buf[b].busy
          PROVE  \E p \in Procs : b \in ToSet(proc[p].held) /\
                   \A q \in Procs \ {p} : b \notin ToSet(proc[q].held)
      <4>1. PICK p \in Procs : \E i \in 1..Len(Held(p)) : Held(p)[i] = b
        BY <3>1 DEF IInv, HeldInv
      <4>2. b \in ToSet(proc[p].held)
        BY <2>1, <4>1
      <4>3. ASSUME NEW q \in Procs, b \in ToSet(proc[q].held) PROVE q = p
        <5>1. PICK i \in 1..Len(Held(p)) : Held(p)[i] = b
          BY <4>1
        <5>2. PICK j \in 1..Len(Held(q)) : Held(q)[j] = b
          BY <2>1, <4>3
        <5> QED
          BY <5>1, <5>2 DEF IInv, HeldInv
      <4> QED
        BY <4>2, <4>3
    <3>2. ASSUME NEW p \in Procs, b \in ToSet(proc[p].held)
          PROVE  buf[b].busy
      BY <2>1, <3>2 DEF IInv, HeldInv
    <3> QED
      BY <3>1, <3>2
  <2>3. OneBuffer
    BY <2>2 DEF OneBuffer, IInv, SectorInv
  <2>4. \A b \in Bufs : Finished(b) => buf[b].data = disk[buf[b].sector]
    BY DEF IInv, DataInv
  <2>5. /\ (queue = <<>>) <=> (drive = None)
        /\ queue # <<>> => /\ drive.sector = buf[Head(queue)].sector
                           /\ drive.write = buf[Head(queue)].dirty
                           /\ buf[Head(queue)].dirty => drive.data = buf[Head(queue)].data
    BY DEF IInv, DriveInv
  <2> QED
    BY <2>3, <2>4, <2>5 DEF Coherent
<1> QED
  BY <1>1, Invariance, PTL

\* Whoever sleeps in bget or iderw will be woken: its buffer is held for the
\* sector it wants, or is in the queue of the drive.
THEOREM NoLostWakeupHolds == Spec => []NoLostWakeup
<1>1. IInv => NoLostWakeup
  BY DEF IInv
<1> QED
  BY <1>1, Invariance, PTL
------------------------------------------------------------------------------
\* The refinement.  Process p sees v in sector s: it holds a valid buffer.
Sees(p, s, v) == /\ up
                 /\ \E b \in Bufs : /\ buf[b].sector = s /\ buf[b].valid /\ buf[b].data = v
                                    /\ \E i \in 1..Len(Held(p)) : Held(p)[i] = b

Owner == [s \in Sectors |-> HolderOf(s)]
View  == [s \in Sectors |-> ViewOf(s)]

\* What the mapping to SectorStore makes of who sees what.
Mapped == \A s \in Sectors :
  /\ \A p \in Procs, v \in Values : Sees(p, s, v) => HolderOf(s) = p /\ ViewOf(s) = v
  /\ (\A p \in Procs, v \in Values : ~Sees(p, s, v)) => HolderOf(s) = None /\ ViewOf(s) = None

LEMMA MappedHolds == IInv => Mapped
<1> SUFFICES ASSUME IInv, NEW s \in Sectors
             PROVE  /\ \A p \in Procs, v \in Values : Sees(p, s, v) => HolderOf(s) = p /\ ViewOf(s) = v
                    /\ (\A p \in Procs, v \in Values : ~Sees(p, s, v)) =>
                         HolderOf(s) = None /\ ViewOf(s) = None
  BY DEF Mapped
<1>0. s # None /\ None \notin Procs
  BY ConstantAssumption
<1>1. ASSUME NEW p \in Procs, Holds(p, s)
      PROVE  /\ \E v \in Values : Sees(p, s, v)
             /\ \E b \in Bufs : /\ buf[b].sector = s
                                /\ \E i \in 1..Len(Held(p)) : Held(p)[i] = b
  <2>1. PICK i \in 1..Len(Held(p)) :
          up /\ buf[Held(p)[i]].sector = s /\ buf[Held(p)[i]].valid /\ Held(p)[i] \in Bufs
    BY <1>1, Shape DEF Holds, Held, IInv
  <2>2. buf[Held(p)[i]].data \in Values
    BY <2>1 DEF IInv, QueueInv
  <2> QED
    BY <2>1, <2>2 DEF Sees
<1>2. ASSUME NEW p \in Procs, NEW v \in Values, Sees(p, s, v)
      PROVE  HolderOf(s) = p /\ ViewOf(s) = v
  <2>1. PICK b \in Bufs : /\ up /\ buf[b].sector = s /\ buf[b].valid /\ buf[b].data = v
                          /\ \E i \in 1..Len(Held(p)) : Held(p)[i] = b
    BY <1>2 DEF Sees
  <2>2. Holds(p, s)
    <3>1. PICK i \in 1..Len(Held(p)) : Held(p)[i] = b
      BY <2>1
    <3>2. i \in DOMAIN proc[p].held /\ proc[p].held[i] = b
      BY <3>1, Shape DEF Held, IInv
    <3> QED
      BY <2>1, <3>2 DEF Holds
  <2>3. \A c \in Bufs : buf[c].sector = s => c = b
    BY <1>0, <2>1 DEF IInv, SectorInv
  <2>4. ASSUME NEW q \in Procs, Holds(q, s) PROVE q = p
    <3>1. \E j \in 1..Len(Held(q)) : Held(q)[j] = b
      BY <1>1, <2>3, <2>4
    <3> QED
      BY <2>1, <3>1 DEF IInv, HeldInv
  <2>5. HolderOf(s) = p
    BY <2>2, <2>4 DEF HolderOf
  <2>6. Cached(s) = {b}
    BY <2>1, <2>3 DEF Cached
  <2> QED
    BY <1>0, <2>1, <2>5, <2>6 DEF ViewOf
<1>3. ASSUME \A p \in Procs, v \in Values : ~Sees(p, s, v)
      PROVE  HolderOf(s) = None /\ ViewOf(s) = None
  <2>1. ~\E p \in Procs : Holds(p, s)
    BY <1>1, <1>3
  <2> QED
    BY <2>1 DEF HolderOf, ViewOf
<1> QED
  BY <1>2, <1>3

\* A sector of which everybody sees the same as before.
LEMMA SameSector ==
  ASSUME Mapped, Mapped', NEW s \in Sectors,
         \A p \in Procs, v \in Values : Sees(p, s, v)' <=> Sees(p, s, v)
  PROVE  HolderOf(s)' = HolderOf(s) /\ ViewOf(s)' = ViewOf(s)
<1>1. ASSUME NEW p \in Procs, NEW v \in Values, Sees(p, s, v)
      PROVE  HolderOf(s)' = HolderOf(s) /\ ViewOf(s)' = ViewOf(s)
  BY <1>1 DEF Mapped
<1>2. CASE \A p \in Procs, v \in Values : ~Sees(p, s, v)
  <2>1. HolderOf(s) = None /\ ViewOf(s) = None
    BY <1>2 DEF Mapped
  <2>2. HolderOf(s)' = None /\ ViewOf(s)' = None
    BY <1>2 DEF Mapped
  <2> QED
    BY <2>1, <2>2
<1> QED
  BY <1>1, <1>2

\* Where nobody sees anything else than before, the store stutters.
LEMMA SameStore ==
  ASSUME Mapped, Mapped', disk' = disk,
         \A s \in Sectors : \A p \in Procs, v \in Values : Sees(p, s, v)' <=> Sees(p, s, v)
  PROVE  UNCHANGED Store!vars
<1>1. \A s \in Sectors : HolderOf(s)' = HolderOf(s) /\ ViewOf(s)' = ViewOf(s)
  BY SameSector
<1>2. Owner' = Owner /\ View' = View
  BY <1>1 DEF Owner, View
<1> QED
  BY <1>2 DEF Store!vars, Owner, View

\* When the machine has stopped, nobody sees anything.
LEMMA NobodySees ==
  ASSUME Mapped', disk' = disk, \A s \in Sectors : \A p \in Procs, v \in Values : ~Sees(p, s, v)'
  PROVE  Store!Crash
<1>1. \A s \in Sectors : HolderOf(s)' = None /\ ViewOf(s)' = None
  BY DEF Mapped
<1>2. Owner' = [s \in Sectors |-> None] /\ View' = [s \in Sectors |-> None]
  BY <1>1 DEF Owner, View
<1> QED
  BY <1>2 DEF Store!Crash, Owner, View

\* A step that concerns one sector only.
LEMMA OneSector ==
  ASSUME Mapped, Mapped', NEW t \in Sectors,
         \A s \in Sectors : s # t => \A p \in Procs, v \in Values : Sees(p, s, v)' <=> Sees(p, s, v)
  PROVE  /\ Owner' = [Owner EXCEPT ![t] = HolderOf(t)']
         /\ View' = [View EXCEPT ![t] = ViewOf(t)']
         /\ Owner[t] = HolderOf(t) /\ View[t] = ViewOf(t)
<1>1. \A s \in Sectors : s # t => HolderOf(s)' = HolderOf(s) /\ ViewOf(s)' = ViewOf(s)
  BY SameSector
<1> QED
  BY <1>1 DEF Owner, View

\* p has come to hold a valid buffer of t, which nobody held.
LEMMA LockStep ==
  ASSUME Mapped, Mapped', disk' = disk,
         NEW p \in Procs, NEW t \in Sectors, NEW u \in Values, u = disk[t],
         \A s \in Sectors : s # t => \A q \in Procs, v \in Values : Sees(q, s, v)' <=> Sees(q, s, v),
         \A q \in Procs, v \in Values : ~Sees(q, t, v),
         Sees(p, t, u)'
  PROVE  Store!Lock(p, t)
<1>1. HolderOf(t) = None
  BY DEF Mapped
<1>2. HolderOf(t)' = p /\ ViewOf(t)' = u
  BY DEF Mapped
<1> QED
  BY <1>1, <1>2, OneSector DEF Store!Lock, Owner, View

\* bget locks the sector when the buffer it returns is valid.
LEMMA GetsMapped ==
  ASSUME IInv, Mapped, Mapped', NEW p \in Procs, NEW b, NEW r, Gets(p, b, r), up
  PROVE  (\E s \in Sectors : Store!Lock(p, s)) \/ UNCHANGED Store!vars
<1>0. /\ b \in Bufs /\ ~buf[b].busy /\ r.sector = proc[p].want /\ proc[p].pc = "bget"
      /\ r.valid => r.valid = buf[b].valid /\ r.data = buf[b].data /\ r.sector = buf[b].sector
      /\ ~r.valid => Cached(proc[p].want) = {} \/ r.sector = buf[b].sector
      /\ disk' = disk /\ up' = up /\ buf'[b] = r
      /\ \A c \in Bufs : c # b => buf'[c] = buf[c]
  BY GetsShape DEF Gets
<1>1. proc[p].want \in Sectors
  BY <1>0, PlaceOf
<1>2. \A q \in Procs : \A i \in 1..Len(Held(q)) : Held(q)[i] # b
  BY <1>0, FreeBuffer
<1>3. \A q \in Procs : \A c \in Bufs : c # b =>
        ((\E i \in 1..Len(Held(q)') : Held(q)'[i] = c) <=> \E i \in 1..Len(Held(q)) : Held(q)[i] = c)
  <2> SUFFICES ASSUME NEW q \in Procs, NEW c \in Bufs, c # b
               PROVE  (\E i \in 1..Len(Held(q)') : Held(q)'[i] = c) <=>
                         \E i \in 1..Len(Held(q)) : Held(q)[i] = c
    OBVIOUS
  <2>1. CASE q = p
    <3>1. \A i : i \in 1..Len(Held(p)') <=> i \in 1..Len(Held(p)) \/ i = Len(Held(p)) + 1
      BY GetsShape
    <3>2. /\ \A i \in 1..Len(Held(p)) : Held(p)'[i] = Held(p)[i]
          /\ Held(p)'[Len(Held(p)) + 1] = b
      BY GetsShape
    <3> QED
      BY <2>1, <3>1, <3>2
  <2>2. CASE q # p
    BY GetsShape, <2>2
  <2> QED
    BY <2>1, <2>2
<1>4. ASSUME NEW s \in Sectors, NEW q \in Procs, NEW v \in Values, q # p \/ s # r.sector \/ ~r.valid
      PROVE  Sees(q, s, v)' <=> Sees(q, s, v)
  <2>1. ASSUME Sees(q, s, v) PROVE Sees(q, s, v)'
    <3>1. PICK c \in Bufs : /\ buf[c].sector = s /\ buf[c].valid /\ buf[c].data = v
                            /\ \E i \in 1..Len(Held(q)) : Held(q)[i] = c
      BY <2>1 DEF Sees
    <3>2. c # b
      BY <1>2, <3>1
    <3>3. buf'[c] = buf[c] /\ \E i \in 1..Len(Held(q)') : Held(q)'[i] = c
      BY <1>0, <1>3, <3>1, <3>2
    <3> QED
      BY <1>0, <2>1, <3>1, <3>3 DEF Sees
  <2>2. ASSUME Sees(q, s, v)' PROVE Sees(q, s, v)
    <3>1. PICK c \in Bufs : /\ buf'[c].sector = s /\ buf'[c].valid /\ buf'[c].data = v
                            /\ \E i \in 1..Len(Held(q)') : Held(q)'[i] = c
      BY <2>2 DEF Sees
    <3>2. c # b
      <4> SUFFICES ASSUME c = b PROVE FALSE
        OBVIOUS
      <4>1. s = r.sector /\ r.valid
        BY <1>0, <3>1
      <4>2. q # p
        BY <1>4, <4>1
      <4>3. Held(q)' = Held(q)
        BY GetsShape, <4>2
      <4> QED
        BY <1>2, <3>1, <4>3
    <3>3. buf'[c] = buf[c] /\ \E i \in 1..Len(Held(q)) : Held(q)[i] = c
      BY <1>0, <1>3, <3>1, <3>2
    <3> QED
      BY <1>0, <2>2, <3>1, <3>3 DEF Sees
  <2> QED
    BY <2>1, <2>2
<1>5. CASE ~r.valid
  BY <1>0, <1>4, <1>5, SameStore
<1>6. CASE r.valid
  <2>t. PICK t \in Sectors : t = proc[p].want
    BY <1>1
  <2>u. PICK u \in Values : u = disk[t]
    BY DEF IInv, TypeOK
  <2>1. /\ \A s \in Sectors : s # t => \A q \in Procs, v \in Values : Sees(q, s, v)' <=> Sees(q, s, v)
    BY <1>0, <1>4, <2>t
  <2>2. ASSUME NEW q \in Procs, NEW v \in Values, Sees(q, t, v) PROVE FALSE
    <3>1. PICK c \in Bufs : /\ buf[c].sector = t /\ \E i \in 1..Len(Held(q)) : Held(q)[i] = c
      BY <2>2 DEF Sees
    <3>2. c = b
      BY <1>0, <1>1, <1>6, <2>t, <3>1, ConstantAssumption DEF IInv, SectorInv
    <3> QED
      BY <1>2, <3>1, <3>2
  <2>3. Sees(p, t, u)'
    <3>1. Finished(b)
      BY <1>0, <1>6, FreeBuffer DEF Finished
    <3>2. buf[b].data = u
      BY <1>0, <1>6, <2>t, <2>u, <3>1 DEF IInv, DataInv
    <3>3. \E i \in 1..Len(Held(p)') : Held(p)'[i] = b
      <4>1. Len(Held(p)) + 1 \in 1..Len(Held(p)') /\ Held(p)'[Len(Held(p)) + 1] = b
        BY GetsShape
      <4> QED
        BY <4>1
    <3> QED
      BY <1>0, <1>6, <2>t, <3>2, <3>3 DEF Sees
  <2>4. Store!Lock(p, t)
    BY <1>0, <2>1, <2>2, <2>3, <2>u, LockStep
  <2> QED
    BY <2>4
<1> QED
  BY <1>5, <1>6

\* The holder sees its valid buffers.
LEMMA HolderSees ==
  ASSUME IInv, up, NEW p \in Procs, NEW i \in 1..Len(Held(p)), NEW b, b = Held(p)[i], buf[b].valid
  PROVE  \E s \in Sectors, v \in Values : s = buf[b].sector /\ v = buf[b].data /\ Sees(p, s, v)
<1>1. b \in Bufs
  BY Shape DEF IInv
<1>2. buf[b].data \in Values
  BY <1>1 DEF IInv, QueueInv
<1>3. buf[b].sector \in Sectors
  BY <1>1 DEF IInv, SectorInv, TypeOK, Buffer
<1> QED
  BY <1>1, <1>2, <1>3 DEF Sees

\* Who sees something of the sector of a held buffer sees this buffer.
LEMMA SeenBuffer ==
  ASSUME IInv, NEW b \in Bufs, NEW s \in Sectors, buf[b].sector = s,
         NEW q \in Procs, NEW v \in Values, Sees(q, s, v)
  PROVE  buf[b].valid /\ buf[b].data = v /\ \E i \in 1..Len(Held(q)) : Held(q)[i] = b
BY ConstantAssumption DEF Sees, IInv, SectorInv

\* bwrite edits the sector of the last buffer.
LEMMA BwriteMapped ==
  ASSUME IInv, Mapped, Mapped', NEW p \in Procs, NEW v \in Values, Bwrite(p, v)
  PROVE  \E s \in Sectors : Store!Edit(p, s, v)
<1>0. PICK b, r : /\ b = Top(p) /\ r = [buf[b] EXCEPT !.data = v, !.dirty = TRUE]
                  /\ buf' = [buf EXCEPT ![b] = r]
  BY DEF Bwrite, Enqueue
<1>1. /\ up /\ up' /\ disk' = disk /\ proc[p].pc = "run" /\ Len(Held(p)) > 0
      /\ proc' = [proc EXCEPT ![p].pc = "iderw"]
  BY Shape DEF Bwrite, At, Enqueue, Goto, Held, IInv
<1>2. b \in Bufs /\ Len(Held(p)) \in 1..Len(Held(p)) /\ Held(p)[Len(Held(p))] = b /\ Finished(b)
  BY <1>0, <1>1, HeldOnce, PlaceOf
<1>3. /\ buf'[b].sector = buf[b].sector /\ buf'[b].valid /\ buf'[b].data = v
      /\ \A c \in Bufs : c # b => buf'[c] = buf[c]
  BY <1>0, <1>2 DEF IInv, TypeOK, Buffer, Finished
<1>4. \A q \in Procs : Held(q)' = Held(q)
  BY <1>1 DEF IInv, TypeOK, Held
<1>5. PICK t \in Sectors, w \in Values : t = buf[b].sector /\ Sees(p, t, w)
  BY <1>1, <1>2, HolderSees DEF Finished
<1>6. \A s \in Sectors : s # t => \A q \in Procs, u \in Values : Sees(q, s, u)' <=> Sees(q, s, u)
  BY <1>1, <1>3, <1>4, <1>5 DEF Sees
<1>7. Sees(p, t, v)'
  BY <1>1, <1>2, <1>3, <1>4, <1>5 DEF Sees
<1>8. HolderOf(t) = p /\ HolderOf(t)' = p /\ ViewOf(t)' = v
  BY <1>5, <1>7 DEF Mapped
<1>9. Owner' = Owner /\ View' = [View EXCEPT ![t] = v] /\ Owner[t] = p
  BY <1>6, <1>8, OneSector DEF Owner
<1> QED
  BY <1>1, <1>9 DEF Store!Edit, Owner, View

\* brelse unlocks the sector of the last buffer, which is finished.
LEMMA BrelseMapped ==
  ASSUME IInv, Mapped, Mapped', NEW p \in Procs, Brelse(p)
  PROVE  \E s \in Sectors : Store!Unlock(p, s)
<1>0. PICK b : b = Top(p)
  OBVIOUS
<1>1. /\ Len(Held(p)) \in Nat \ {0} /\ b \in Bufs /\ Finished(b)
      /\ buf' = [buf EXCEPT ![b].busy = FALSE] /\ disk' = disk /\ up' = up
      /\ \A q \in Procs : q # p => Held(q)' = Held(q)
      /\ Len(Held(p)') = Len(Held(p)) - 1
      /\ \A i \in 1..Len(Held(p)) - 1 : Held(p)'[i] = Held(p)[i]
  BY <1>0, BrelseShape
<1>2. /\ up /\ Len(Held(p)) \in 1..Len(Held(p)) /\ Held(p)[Len(Held(p))] = b
      /\ \A i \in 1..Len(Held(p)) - 1 : Held(p)[i] # b
      /\ \A q \in Procs : q # p => \A i \in 1..Len(Held(q)) : Held(q)[i] # b
  BY <1>0, <1>1, HeldOnce DEF Brelse, At
<1>3. \A c \in Bufs : /\ buf'[c].sector = buf[c].sector /\ buf'[c].valid = buf[c].valid
                      /\ buf'[c].data = buf[c].data
  BY <1>1 DEF IInv, TypeOK, Buffer
<1>4. \A q \in Procs : \A c \in Bufs :
        (\E i \in 1..Len(Held(q)') : Held(q)'[i] = c) <=>
           c # b /\ \E i \in 1..Len(Held(q)) : Held(q)[i] = c
  <2> SUFFICES ASSUME NEW q \in Procs, NEW c \in Bufs
               PROVE  (\E i \in 1..Len(Held(q)') : Held(q)'[i] = c) <=>
                         c # b /\ \E i \in 1..Len(Held(q)) : Held(q)[i] = c
    OBVIOUS
  <2>1. CASE q = p
    <3>1. \A i \in 1..Len(Held(p)) : i # Len(Held(p)) => i \in 1..Len(Held(p)) - 1
      BY <1>1
    <3>2. \A i \in 1..Len(Held(p)) - 1 : i \in 1..Len(Held(p)) /\ i \in 1..Len(Held(p)')
      BY <1>1
    <3>3. ASSUME NEW i \in 1..Len(Held(p)'), Held(p)'[i] = c
          PROVE  c # b /\ \E j \in 1..Len(Held(p)) : Held(p)[j] = c
      BY <1>1, <1>2, <3>2, <3>3
    <3>4. ASSUME c # b, NEW i \in 1..Len(Held(p)), Held(p)[i] = c
          PROVE  \E j \in 1..Len(Held(p)') : Held(p)'[j] = c
      BY <1>1, <1>2, <3>1, <3>2, <3>4
    <3> QED
      BY <2>1, <3>3, <3>4
  <2>2. CASE q # p
    <3>1. Held(q)' = Held(q) /\ \A i \in 1..Len(Held(q)) : Held(q)[i] # b
      BY <1>1, <1>2, <2>2
    <3> QED
      BY <3>1
  <2> QED
    BY <2>1, <2>2
<1>5. PICK t \in Sectors, w \in Values : t = buf[b].sector /\ w = buf[b].data /\ Sees(p, t, w)
  BY <1>1, <1>2, HolderSees DEF Finished
<1>6. w = disk[t]
  BY <1>1, <1>5 DEF IInv, DataInv
<1>7. ASSUME NEW s \in Sectors, s # t, NEW q \in Procs, NEW v \in Values
      PROVE  Sees(q, s, v)' <=> Sees(q, s, v)
  <2>1. \A c \in Bufs : buf[c].sector = s => c # b
    BY <1>5, <1>7
  <2>2. \A c \in Bufs : buf[c].sector = s =>
          ((\E i \in 1..Len(Held(q)') : Held(q)'[i] = c) <=> \E i \in 1..Len(Held(q)) : Held(q)[i] = c)
    BY <1>4, <2>1
  <2> QED
    BY <1>1, <1>3, <2>2 DEF Sees
<1>8. ASSUME NEW q \in Procs, NEW v \in Values, Sees(q, t, v)' PROVE FALSE
  <2>1. PICK c \in Bufs : /\ buf'[c].sector = t /\ \E i \in 1..Len(Held(q)') : Held(q)'[i] = c
    BY <1>8 DEF Sees
  <2>2. c = b
    BY <1>1, <1>3, <1>5, <2>1, ConstantAssumption DEF IInv, SectorInv
  <2> QED
    BY <1>4, <2>1, <2>2
<1>9. HolderOf(t) = p /\ ViewOf(t) = w /\ HolderOf(t)' = None /\ ViewOf(t)' = None
  BY <1>5, <1>8 DEF Mapped
<1>10. /\ Owner' = [Owner EXCEPT ![t] = None] /\ View' = [View EXCEPT ![t] = None]
       /\ Owner[t] = p /\ View[t] = disk[t]
  BY <1>6, <1>7, <1>9, OneSector
<1> QED
  BY <1>1, <1>10 DEF Store!Unlock, Owner, View

\* A write of the drive commits the sector of the head of the queue.
LEMMA DriveMapped ==
  ASSUME IInv, Mapped, Mapped', DriveWorks
  PROVE  (\E s \in Sectors : Store!Commit(s)) \/ UNCHANGED Store!vars
<1>0. /\ up /\ UNCHANGED <<buf, lru, queue, proc, up>>
      /\ IF drive.write THEN disk' = [disk EXCEPT ![drive.sector] = drive.data] ELSE disk' = disk
  BY DEF DriveWorks
<1>1. \A s \in Sectors : \A q \in Procs, v \in Values : Sees(q, s, v)' <=> Sees(q, s, v)
  BY <1>0 DEF Sees, Held
<1>2. CASE ~drive.write
  BY <1>0, <1>1, <1>2, SameStore
<1>3. CASE drive.write
  <2>1. queue # <<>>
    BY DEF IInv, DriveInv, DriveWorks
  <2>2. PICK b : b = Head(queue) /\ b = queue[1] /\ 1 \in 1..Len(queue) /\ b \in Bufs
    BY <2>1, Shape DEF IInv
  <2>3. drive.sector = buf[b].sector /\ buf[b].dirty /\ drive.data = buf[b].data /\ buf[b].valid
    BY <1>3, <2>1, <2>2 DEF IInv, DriveInv, QueueInv
  <2>4. PICK p \in Procs : proc[p].pc \in {"iderw", "iosleep"} /\ b = Top(p)
    BY <2>2 DEF IInv, QueueInv
  <2>5. Len(Held(p)) \in 1..Len(Held(p)) /\ b = Held(p)[Len(Held(p))]
    BY <2>4, PlaceOf, HeldOnce
  <2>6. PICK t \in Sectors, w \in Values : t = buf[b].sector /\ w = buf[b].data /\ Sees(p, t, w)
    BY <1>0, <2>3, <2>5, HolderSees
  <2>7. HolderOf(t) = p /\ ViewOf(t) = w /\ p # None
    BY <2>6, ConstantAssumption DEF Mapped
  <2>8. Owner' = Owner /\ View' = View
    BY <1>1, SameSector DEF Owner, View
  <2>9. disk' = [disk EXCEPT ![t] = w]
    BY <1>0, <1>3, <2>3, <2>6
  <2>10. Owner[t] # None /\ View[t] = w
    BY <2>7 DEF Owner, View
  <2> QED
    BY <2>8, <2>9, <2>10 DEF Store!Commit, Owner, View
<1> QED
  BY <1>2, <1>3

\* The end of a read locks the sector: only now its holder sees it.  The end
\* of a write changes nothing that anybody sees.
LEMMA IdeintrMapped ==
  ASSUME IInv, Mapped, Mapped', Ideintr
  PROVE  (\E s \in Sectors, p \in Procs : Store!Lock(p, s)) \/ UNCHANGED Store!vars
<1>b. PICK b : b = Head(queue)
  OBVIOUS
<1>1. /\ up /\ b \in Bufs /\ up' = up /\ disk' = disk
      /\ \A c \in Bufs : c # b => buf'[c] = buf[c]
      /\ buf'[b].sector = buf[b].sector /\ buf'[b].valid /\ buf'[b].data = disk[buf[b].sector]
      /\ buf[b].sector \in Sectors /\ buf'[b].data \in Values
      /\ \A q \in Procs : Held(q)' = Held(q)
  BY <1>b, IdeintrShape DEF Ideintr
<1>2. PICK p \in Procs : proc[p].pc \in {"iderw", "iosleep"} /\ b = Top(p)
  BY <1>b, IdeintrShape
<1>3. Len(Held(p)) \in 1..Len(Held(p)) /\ b = Held(p)[Len(Held(p))]
  BY <1>2, PlaceOf, HeldOnce
<1>4. PICK t \in Sectors, w \in Values : t = buf[b].sector /\ w = disk[t]
  BY <1>1
<1>5. \A s \in Sectors : s # t => \A q \in Procs, v \in Values : Sees(q, s, v)' <=> Sees(q, s, v)
  BY <1>1, <1>4 DEF Sees
<1>6. CASE buf[b].dirty
  <2>1. buf[b].valid /\ buf[b].data = buf'[b].data
    <3>1. drive.done /\ queue # <<>> /\ drive.write /\ drive.data = buf[b].data
          /\ drive.data = disk[drive.sector] /\ drive.sector = buf[b].sector
      BY <1>b, <1>6, IdeintrShape DEF Ideintr, IInv, DriveInv
    <3> QED
      BY <1>1, <1>6, <3>1 DEF IInv, QueueInv
  <2>2. \A s \in Sectors : \A q \in Procs, v \in Values : Sees(q, s, v)' <=> Sees(q, s, v)
    BY <1>1, <2>1 DEF Sees
  <2> QED
    BY <1>1, <2>2, SameStore
<1>7. CASE ~buf[b].dirty
  <2>1. ~buf[b].valid
    <3>1. InQueue(b)
      <4>1. queue # <<>>
        BY <1>b, IdeintrShape
      <4>2. 1 \in 1..Len(queue) /\ queue[1] = b
        BY <1>b, <4>1, Shape DEF IInv
      <4> QED
        BY <4>2 DEF InQueue
    <3>2. ~Finished(b)
      BY <1>2, <3>1, PlaceOf
    <3> QED
      BY <1>7, <3>2 DEF Finished
  <2>2. \A q \in Procs, v \in Values : ~Sees(q, t, v)
    BY <1>1, <1>4, <2>1, SeenBuffer
  <2>3. Sees(p, t, w)'
    BY <1>1, <1>3, <1>4 DEF Sees
  <2>4. Store!Lock(p, t)
    BY <1>1, <1>4, <1>5, <2>2, <2>3, LockStep
  <2> QED
    BY <2>4
<1> QED
  BY <1>6, <1>7

LEMMA InitMapped == Init => Store!Init
<1> SUFFICES ASSUME Init PROVE Store!Init
  OBVIOUS
<1>1. IInv
  BY BootIInv DEF Init
<1>2. \A s \in Sectors : \A p \in Procs, v \in Values : ~Sees(p, s, v)
  BY EmptySeq DEF Sees, Init, Boot, EmptyBuf
<1>3. \A s \in Sectors : HolderOf(s) = None /\ ViewOf(s) = None
  BY <1>1, <1>2, MappedHolds DEF Mapped
<1> QED
  BY <1>3 DEF Store!Init, Init

LEMMA StepMapped ==
  ASSUME IInv, Mapped, Mapped', [Next]_vars
  PROVE  [Store!Next]_Store!vars
<1>1. ASSUME NEW p \in Procs,
             \/ Kernel(p) \/ Brelse(p) \/ Kill(p)
             \/ \E s \in Sectors : Bread(p, s)
             \/ \E v \in Values : Bwrite(p, v)
      PROVE  [Store!Next]_Store!vars
  <2>1. CASE BgetPanic(p)
    <3>1. Store!Crash
      BY <2>1, NobodySees DEF BgetPanic, Sees
    <3> QED
      BY <3>1 DEF Store!Next
  <2>2. CASE \/ \E s \in Sectors : Bread(p, s)
             \/ BgetSleep(p) \/ BreadValid(p) \/ BreadMiss(p)
             \/ IderwSleep(p) \/ IderwReturns(p) \/ Kill(p)
    <3>1. buf' = buf /\ disk' = disk /\ up' = up /\ proc \in [Procs -> Process]
      BY <2>2 DEF Bread, BgetSleep, BreadValid, BreadMiss, Enqueue, IderwSleep, IderwReturns, Kill,
                  IInv, TypeOK
    <3>2. \A q \in Procs : Held(q)' = Held(q)
      <4>1. CASE \E s \in Sectors : Bread(p, s)
        BY <3>1, <4>1 DEF Bread, Held
      <4>2. CASE BgetSleep(p)
        BY <3>1, <4>2 DEF BgetSleep, Held
      <4>3. CASE BreadValid(p) \/ BreadMiss(p) \/ IderwReturns(p)
        <5>1. PICK pc : Goto(p, pc)
          BY <4>3 DEF BreadValid, BreadMiss, Enqueue, IderwReturns
        <5>2. \A q \in Procs : proc'[q].held = proc[q].held
          BY <3>1, <5>1 DEF Goto
        <5> QED
          BY <5>2 DEF Held
      <4>4. CASE IderwSleep(p)
        BY <3>1, <4>4 DEF IderwSleep, Held
      <4>5. CASE Kill(p)
        BY <3>1, <4>5 DEF Kill, Held
      <4> QED
        BY <2>2, <4>1, <4>2, <4>3, <4>4, <4>5
    <3>3. \A s \in Sectors : \A q \in Procs, v \in Values : Sees(q, s, v)' <=> Sees(q, s, v)
      BY <3>1, <3>2 DEF Sees
    <3> QED
      BY <3>1, <3>3, SameStore
  <2>3. CASE BgetHit(p) \/ BgetRecycle(p)
    <3>1. PICK b, r : Gets(p, b, r)
      BY <2>3, GettingGets
    <3>2. up
      BY <2>3 DEF BgetHit, BgetRecycle, At
    <3> QED
      BY <3>1, <3>2, GetsMapped DEF Store!Next
  <2>4. CASE \E v \in Values : Bwrite(p, v)
    <3>1. PICK v \in Values : Bwrite(p, v)
      BY <2>4
    <3>2. PICK s \in Sectors : Store!Edit(p, s, v)
      BY <3>1, BwriteMapped
    <3> QED
      BY <3>2 DEF Store!Next
  <2>5. CASE Brelse(p)
    <3>1. PICK s \in Sectors : Store!Unlock(p, s)
      BY <2>5, BrelseMapped
    <3> QED
      BY <3>1 DEF Store!Next
  <2> QED
    BY <1>1, <2>1, <2>2, <2>3, <2>4, <2>5 DEF Kernel, Bget
<1>2. CASE DriveWorks
  BY <1>2, DriveMapped DEF Store!Next
<1>3. CASE Ideintr
  BY <1>3, IdeintrMapped DEF Store!Next
<1>4. CASE Crash
  <2>1. disk' = disk /\ \A p \in Procs : Held(p)' = <<>>
    BY <1>4 DEF Crash, Boot, Idle, Held
  <2>2. \A s \in Sectors : \A p \in Procs, v \in Values : ~Sees(p, s, v)'
    BY <2>1, EmptySeq DEF Sees
  <2>3. Store!Crash
    BY <2>1, <2>2, NobodySees
  <2> QED
    BY <2>3 DEF Store!Next
<1>5. CASE UNCHANGED vars
  <2>1. \A s \in Sectors : \A p \in Procs, v \in Values : Sees(p, s, v)' <=> Sees(p, s, v)
    BY <1>5 DEF vars, Sees, Held
  <2> QED
    BY <1>5, <2>1, SameStore DEF vars
<1> QED
  BY <1>1, <1>2, <1>3, <1>4, <1>5 DEF Next

\* The cache with its queue and its drive implements a store of locked
\* registers, one for each sector: who holds a buffer sees what the last
\* writer left, also after a crash, and lets go only of what is on the disk.
THEOREM CacheImplements == Spec => Implements
<1>1. Spec => []IInv
  BY Invariance
<1>2. IInv /\ IInv' /\ [Next]_vars => [Store!Next]_Store!vars
  <2>1. IInv' => Mapped'
    BY MappedHolds, PTL
  <2> QED
    BY <2>1, MappedHolds, StepMapped
<1> QED
  BY <1>1, <1>2, InitMapped, PTL DEF Spec, Implements, Store!Spec
=============================================================================
