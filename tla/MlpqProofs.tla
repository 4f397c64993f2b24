----------------------------- MODULE MlpqProofs -----------------------------
(***************************************************************************)
(* Proofs about Mlpq for every number of slots, levels and CPUs, every     *)
(* slice and every period of the starvation check.                         *)
(*                                                                         *)
(* Whatever fork() lets happen between making its child RUNNABLE and       *)
(* counting it: the types, that a process is on one CPU at most, that      *)
(* wait() misses no zombie, what the counters count, what scheduler()      *)
(* makes of them, and that a slice is not given away.                      *)
(***************************************************************************)
EXTENDS Mlpq, FiniteSetTheorems, TLAPS

------------------------------------------------------------------------------
(***************************************************************************)
(* The inductive invariant.  OneCpu says nothing of ptable.lock, on which  *)
(* it rests: a process that is RUNNABLE again but still on its CPU must    *)
(* not be found by another scheduler(), and it is not because its CPU      *)
(* holds the lock until it has switched.  WaitNotLost needs that no        *)
(* process is its own parent and that init never exits, or the zombies it  *)
(* inherits would have nobody to wake.                                     *)
(***************************************************************************)

\* A CPU has a process exactly while it is not in scheduler()'s own code, and
\* no two CPUs have the same one.
CurInv ==
  /\ \A c \in CPU : cur[c] = None <=> spc[c] \in {"idle", "scan"}
  /\ \A c, d \in CPU : cur[c] = cur[d] /\ cur[c] # None => c = d

\* The process is RUNNING until sched(), and no longer after it.
RunInv ==
  /\ \A c \in CPU : spc[c] \in {"run", "tick", "yield"} => state[cur[c]] = "RUNNING"
  /\ \A c \in CPU : spc[c] = "switch" =>
       state[cur[c]] \in {"RUNNABLE", "SLEEPING", "ZOMBIE"}
  /\ \A p \in Slot : state[p] = "RUNNING" =>
       \E c \in CPU : cur[c] = p /\ spc[c] \in {"run", "tick", "yield"}

\* ptable.lock is held exactly in scheduler()'s pass, in sched() and in wait().
Holds(c) ==
  \/ spc[c] \in {"scan", "switch"}
  \/ spc[c] = "run" /\ kpc[cur[c]] = "wait"
LockInv == \A c \in CPU : Holds(c) <=> lock = c

\* Every fork() under way has an EMBRYO of its own.
ForkInv ==
  /\ \A p \in Slot : kpc[p] = "copy" => np[p] \in Slot /\ state[np[p]] = "EMBRYO"
  /\ \A p, q \in Slot : kpc[p] = "copy" /\ kpc[q] = "copy" /\ np[p] = np[q] => p = q

\* init lives and has no parent; nobody is its own parent.
ParentInv ==
  /\ state[Initproc] \in {"SLEEPING", "RUNNABLE", "RUNNING"}
  /\ parent[Initproc] = None
  /\ \A q \in Slot : parent[q] # q

Control ==
  CurInv /\ RunInv /\ LockInv /\ ForkInv /\ ParentInv /\ WaitNotLost

IInv == TypeOK /\ Control

\* Only a process that lives is inside a system call, and a child is still at
\* level 0 when it becomes RUNNABLE.
ForkCounts ==
  /\ \A p \in Slot : kpc[p] # "user" => state[p] \in {"SLEEPING", "RUNNABLE", "RUNNING"}
  /\ \A p \in Slot : state[p] = "EMBRYO" => level[p] = 0

AInv == IInv /\ ForkCounts /\ Accounting

\* scheduler() stays at the slot and level of a process whose slice it has
\* begun, until that process is found again or a higher level has one.
HeldInv ==
  \A c \in CPU : held[c] # None =>
    \/ /\ spc[c] \in {"run", "tick", "yield", "switch"}
       /\ cur[c] = held[c] /\ idx[c] = held[c] /\ ii[c] = level[held[c]]
       /\ spc[c] = "switch" => state[held[c]] = "RUNNABLE"
    \/ /\ spc[c] = "scan" /\ state[held[c]] = "RUNNABLE"
       /\ \/ idx[c] = held[c] /\ ii[c] = level[held[c]]
          \/ /\ HighestLevel < level[held[c]]
             /\ idx[c] <= held[c] \/ ii[c] < NLAYER - 1

\* What it goes by then is exact.
HeldExact == \A c \in CPU : held[c] # None => Missing = 0

SInv == AInv /\ HeldExact /\ HeldInv

------------------------------------------------------------------------------
(* The operators the steps are built from. *)

\* The remainder the slice and the starvation check are counted with.
LEMMA RemainderRange ==
  ASSUME NEW n \in Nat, NEW m \in Nat \ {0}
  PROVE  n % m \in 0 .. m - 1
OBVIOUS

\* Every inhabited set of natural numbers has a smallest member.
LEMMA MinProperties ==
  ASSUME NEW S \in SUBSET Nat, S # {}
  PROVE  Min(S) \in S /\ \A n \in S : Min(S) <= n
<1>1. PICK m \in S : \A n \in S : <<n, m>> \notin OpToRel(<, Nat)
  BY NatLessThanWellFounded, WFMin, Zenon
<1>2. \A n \in S : ~(n < m)
  BY <1>1, Zenon DEF OpToRel
<1>3. \A n \in S : m <= n
  BY <1>2
<1> QED
  BY <1>3 DEF Min

\* There are finitely many slots, so what is counted are numbers.
LEMMA SlotsAreFinite ==
  ASSUME NEW S \in SUBSET Slot
  PROVE  IsFiniteSet(S) /\ Cardinality(S) \in Nat
<1>1. IsFiniteSet(Slot)
  BY FS_Interval, ConstantAssumption DEF Slot
<1> QED
  BY <1>1, FS_Subset, FS_CardinalityType

\* What level 0's counter misses is a number, and the same after a step that
\* neither starts nor ends the counting of a child.
LEMMA MissingType ==
  ASSUME TypeOK
  PROVE  /\ Missing \in Int
         /\ \A l \in Level : Uncounted(l) \in Int /\ ninlevel[l] \in Int
<1>1. Cardinality(InFork) \in Nat /\ drift \in Int
  BY SlotsAreFinite DEF InFork, TypeOK
<1>2. Missing \in Int
  BY <1>1 DEF Missing
<1>3. \A l \in Level : ninlevel[l] \in Int
  BY DEF TypeOK
<1> QED
  BY <1>2, <1>3 DEF Uncounted

LEMMA MissingSame ==
  ASSUME drift' = drift,
         \A p \in Slot : kpc'[p] \in {"count", "store"} <=> kpc[p] \in {"count", "store"}
  PROVE  Missing' = Missing
<1>1. InFork' = InFork
  BY DEF InFork
<1> QED
  BY <1>1 DEF Missing

\* The level scheduler() finds is a level.
LEMMA HighestLevelType == HighestLevel \in Level
<1>1. {l \in Level : ninlevel[l] # 0} \cup {NLAYER - 1} \in SUBSET Level
  BY ConstantAssumption DEF Level
<1> QED
  BY <1>1, MinProperties DEF HighestLevel, Level

\* The slot the inner loop stops at.
LEMMA NextReady ==
  ASSUME TypeOK, NEW c \in CPU, Ready(c) # {}
  PROVE  /\ Min(Ready(c)) \in Slot
         /\ state[Min(Ready(c))] = "RUNNABLE"
         /\ Min(Ready(c)) >= idx[c]
         /\ \A p \in Ready(c) : Min(Ready(c)) <= p
<1>1. Ready(c) \in SUBSET Slot /\ Ready(c) \in SUBSET Nat
  BY ConstantAssumption DEF Ready, Slot
<1> QED
  BY <1>1, MinProperties DEF Ready

\* The counters stay integers.
LEMMA CountedType ==
  ASSUME TypeOK, NEW up \in SUBSET Slot, NEW down \in SUBSET Slot
  PROVE  Counted(up, down) \in [Level -> Int]
<1> SUFFICES ASSUME NEW l \in Level
             PROVE  ninlevel[l] + Cardinality({p \in up : level[p] = l})
                      - Cardinality({p \in down : level[p] = l}) \in Int
  BY DEF Counted
<1>1. Cardinality({p \in up : level[p] = l}) \in Nat
  BY SlotsAreFinite
<1>2. Cardinality({p \in down : level[p] = l}) \in Nat
  BY SlotsAreFinite
<1> QED
  BY <1>1, <1>2 DEF TypeOK
------------------------------------------------------------------------------
(* Types. *)

\* The process a CPU is running is in the table.
LEMMA HasProcess ==
  ASSUME TypeOK, CurInv, NEW c \in CPU, spc[c] \in {"run", "tick", "yield", "switch"}
  PROVE  cur[c] \in Slot
BY DEF TypeOK, CurInv

LEMMA InitType == Init => TypeOK
<1> SUFFICES ASSUME Init PROVE TypeOK
  OBVIOUS
<1>1. 0 \in Level /\ 0 \in Slot
  BY ConstantAssumption DEF Level, Slot
<1> QED
  BY <1>1, ConstantAssumption DEF Init, TypeOK, Slot, Level, Initproc

LEMMA SchedulerTypes ==
  ASSUME TypeOK, CurInv, NEW c \in CPU, SchedStep(c)
  PROVE  TypeOK'
<1> USE DEF proc, call
<1>0. 0 \in Level /\ 0 \in 0 .. NPROC
  BY ConstantAssumption DEF Level
<1>1. CASE Acquire(c)
  BY <1>1 DEF Acquire, TypeOK
<1>2. CASE EndOfTable(c)
  <2>1. ii[c] \in Level
    BY DEF TypeOK
  <2>2. ii[c] + 1 < NLAYER => ii[c] + 1 \in Level
    BY <2>1, ConstantAssumption DEF Level
  <2>3. CASE ii[c] + 1 < NLAYER
    <3>1. ii' \in [CPU -> Level] /\ idx' \in [CPU -> 0 .. NPROC]
      <4>1. /\ ii' = [ii EXCEPT ![c] = ii[c] + 1] /\ ii \in [CPU -> Level]
            /\ idx' = [idx EXCEPT ![c] = 0] /\ idx \in [CPU -> 0 .. NPROC]
        BY <1>2, <2>3 DEF EndOfTable, TypeOK
      <4> QED
        BY <1>0, <2>2, <2>3, <4>1
    <3>2. UNCHANGED <<proc, call, snap, ninlevel, starve_clock, lock, spc, cur, held>>
      BY <1>2, <2>3 DEF EndOfTable
    <3> QED
      BY <3>1, <3>2 DEF TypeOK
  <2>4. CASE ~(ii[c] + 1 < NLAYER)
    <3>1. ii' \in [CPU -> Level] /\ idx' \in [CPU -> 0 .. NPROC]
      <4>1. /\ ii' = [ii EXCEPT ![c] = 0] /\ ii \in [CPU -> Level]
            /\ idx' = [idx EXCEPT ![c] = 0] /\ idx \in [CPU -> 0 .. NPROC]
        BY <1>2, <2>4 DEF EndOfTable, TypeOK
      <4> QED
        BY <1>0, <4>1
    <3>2. /\ lock' = None
          /\ spc' \in [CPU -> {"idle", "scan", "run", "tick", "yield", "switch"}]
      BY <1>2, <2>4 DEF EndOfTable, TypeOK
    <3>3. UNCHANGED <<proc, call, snap, ninlevel, starve_clock, cur, held>>
      BY <1>2 DEF EndOfTable
    <3> QED
      BY <3>1, <3>2, <3>3 DEF TypeOK
  <2> QED
    BY <2>3, <2>4
<1>3. CASE Rescan(c)
  BY <1>3, <1>0, HighestLevelType DEF Rescan, TypeOK
<1>4. CASE OtherLevel(c)
  <2>1. Min(Ready(c)) \in Slot
    BY <1>4, NextReady DEF OtherLevel
  <2>2. Min(Ready(c)) + 1 \in 0 .. NPROC
    BY <2>1, ConstantAssumption DEF Slot
  <2> QED
    BY <1>4, <2>2 DEF OtherLevel, TypeOK
<1>5. CASE Dispatch(c)
  <2> DEFINE p == Min(Ready(c))
             l == level[p]
             tick == (used[p][l] + 1) % Slice[l]
             over == tick = 0
             down == over /\ MovesDown(l)
  <2>1. p \in Slot /\ l \in Level
    BY <1>5, NextReady DEF Dispatch, TypeOK
  <2>2. tick \in 0 .. Slice[l] - 1
    <3>1. used[p][l] + 1 \in Nat /\ Slice[l] \in Nat \ {0}
      BY <2>1, ConstantAssumption DEF TypeOK
    <3> QED
      BY <3>1, RemainderRange
  <2> HIDE DEF p, l, tick, over
  <2>3. down => l + 1 \in Level
    BY <2>1, ConstantAssumption DEF MovesDown, Level
  <2>4. NextSlot(p, over) \in 0 .. NPROC
    BY <2>1, ConstantAssumption DEF NextSlot, Slot
  <2> HIDE DEF down
  <2>5. used' = [used EXCEPT ![p][l] = tick]
    BY <1>5 DEF Dispatch, p, l, tick
  <2>6. /\ used' \in [Slot -> [Level -> Nat]]
        /\ \A q \in Slot, k \in Level : used'[q][k] < Slice[k]
    BY <2>1, <2>2, <2>5, ConstantAssumption DEF TypeOK
  <2>7. level' \in [Slot -> Level]
    <3>1. level' = [level EXCEPT ![p] = IF down THEN l + 1 ELSE l]
      BY <1>5 DEF Dispatch, p, l, tick, over, down
    <3> QED
      BY <3>1, <2>1, <2>3 DEF TypeOK
  <2>8. ninlevel' \in [Level -> Int]
    BY <1>5 DEF Dispatch, TypeOK
  <2>9. /\ state' = [state EXCEPT ![p] = "RUNNING"]
        /\ snap' = [snap EXCEPT ![p] = IF @ = "same" THEN "moved" ELSE @]
        /\ idx' = [idx EXCEPT ![c] = NextSlot(p, over)]
        /\ held' = [held EXCEPT ![c] = IF over \/ Missing # 0 THEN None ELSE p]
        /\ lock' = IF kpc[p] = "wait" THEN c ELSE None
        /\ cur' = [cur EXCEPT ![c] = p]
        /\ chan' = [chan EXCEPT ![p] = "none"]
        /\ spc' = [spc EXCEPT ![c] = "run"]
        /\ UNCHANGED <<killed, parent, call, starve_clock, ii>>
    BY <1>5 DEF Dispatch, p, l, tick, over
  <2> QED
    BY <2>1, <2>4, <2>6, <2>7, <2>8, <2>9 DEF TypeOK
<1>6. CASE Switch(c)
  BY <1>6 DEF Switch, TypeOK
<1> QED
  BY <1>1, <1>2, <1>3, <1>4, <1>5, <1>6 DEF SchedStep

LEMMA SyscallTypes ==
  ASSUME TypeOK, CurInv, NEW c \in CPU, Syscall(c)
  PROVE  TypeOK'
<1> USE DEF proc, call, sched
<1>0. cur[c] \in Slot
  <2>1. spc[c] \in {"run", "tick"}
    BY DEF Syscall, ForkAlloc, ForkFails, ForkStep, ForkReady, ForkLoad,
       ForkStore, Exit, WaitScan, Sleep, SleepReturns, Kill, Calls, Running
  <2> QED
    BY <2>1, HasProcess
<1>1. CASE ForkAlloc(c)
  <2> DEFINE free == {p \in Slot : state[p] = "UNUSED"}
  <2>1. Min(free) \in Slot
    <3>1. free \in SUBSET Nat /\ free # {}
      BY <1>1, ConstantAssumption DEF ForkAlloc, Slot
    <3> QED
      BY <3>1, MinProperties
  <2>2. 0 \in Level /\ [l \in Level |-> 0] \in [Level -> Nat]
    BY ConstantAssumption DEF Level
  <2> HIDE DEF free
  <2>3. /\ np' = [np EXCEPT ![cur[c]] = Min(free)]
        /\ state' = [state EXCEPT ![Min(free)] = "EMBRYO"]
        /\ level' = [level EXCEPT ![Min(free)] = 0]
        /\ used' = [used EXCEPT ![Min(free)] = [l \in Level |-> 0]]
        /\ kpc' = [kpc EXCEPT ![cur[c]] = "copy"]
        /\ UNCHANGED <<chan, killed, parent, loaded, drift, snap, ninlevel,
                       starve_clock, sched>>
    BY <1>1 DEF ForkAlloc, free
  <2>4. \A q \in Slot, l \in Level : used'[q][l] < Slice[l]
    BY <2>1, <2>3, ConstantAssumption DEF TypeOK
  <2> QED
    BY <2>1, <2>2, <2>3, <2>4, <1>0 DEF TypeOK
<1>2. CASE ForkFails(c)
  BY <1>0, <1>2 DEF ForkFails, TypeOK
<1>3. CASE ForkReady(c)
  <2> DEFINE p == cur[c]
             n == np[p]
  <2>1. /\ parent' = [parent EXCEPT ![n] = p]
        /\ state' = [state EXCEPT ![n] = "RUNNABLE"]
        /\ \/ /\ kpc' = [kpc EXCEPT ![p] = "count", ![n] = "user"]
              /\ UNCHANGED <<ninlevel, np>>
           \/ /\ kpc' = [kpc EXCEPT ![p] = "user", ![n] = "user"]
              /\ ninlevel' = [ninlevel EXCEPT ![0] = @ + 1]
              /\ np' = [np EXCEPT ![p] = None]
        /\ held' \in {held, [d \in CPU |-> None]}
        /\ UNCHANGED <<level, used, chan, killed, loaded, drift, snap,
                       starve_clock, lock, spc, ii, idx, cur>>
    BY <1>3 DEF ForkReady
  <2>2. p \in Slot
    BY <1>0
  <2> HIDE DEF p, n
  <2>3. kpc' \in [Slot -> {"user", "copy", "count", "store", "sleep", "wait"}]
    BY <2>1, <2>2 DEF TypeOK
  <2>4. np' \in [Slot -> Slot \cup {None}]
    <3>1. np \in [Slot -> Slot \cup {None}] /\ np' \in {np, [np EXCEPT ![p] = None]}
      BY <2>1 DEF TypeOK
    <3> QED
      BY <2>2, <3>1
  <2>5. ninlevel' \in [Level -> Int]
    <3>1. /\ ninlevel \in [Level -> Int] /\ 0 \in Level
          /\ ninlevel' \in {ninlevel, [ninlevel EXCEPT ![0] = @ + 1]}
      BY <2>1, ConstantAssumption DEF TypeOK, Level
    <3>2. ninlevel[0] + 1 \in Int
      BY <3>1
    <3> QED
      BY <3>1, <3>2
  <2>6. held' \in [CPU -> Slot \cup {None}]
    BY <2>1 DEF TypeOK
  <2> QED
    BY <2>1, <2>2, <2>3, <2>4, <2>5, <2>6 DEF TypeOK
<1>4. CASE ForkLoad(c)
  <2>1. ninlevel[0] \in Int
    BY ConstantAssumption DEF TypeOK, Level
  <2> QED
    BY <1>0, <1>4, <2>1 DEF ForkLoad, TypeOK
<1>5. CASE ForkStore(c)
  <2>1. loaded[cur[c]] + 1 \in Int
    BY <1>0 DEF TypeOK
  <2>2. ninlevel' \in [Level -> Int]
    <3>1. /\ ninlevel \in [Level -> Int]
          /\ ninlevel' = [ninlevel EXCEPT ![0] = loaded[cur[c]] + 1]
      BY <1>5 DEF ForkStore, TypeOK
    <3> QED
      BY <2>1, <3>1
  <2>3. loaded' \in [Slot -> Int]
    <3>1. loaded' = [loaded EXCEPT ![cur[c]] = 0]
      BY <1>5 DEF ForkStore
    <3>2. loaded \in [Slot -> Int] /\ 0 \in Int
      BY DEF TypeOK
    <3> QED
      BY <3>1, <3>2
  <2>4. drift' \in Int
    <3>1. 0 \in Level
      BY ConstantAssumption DEF Level
    <3>2. ninlevel[0] \in Int /\ loaded[cur[c]] \in Int /\ drift \in Int
      BY <1>0, <3>1 DEF TypeOK
    <3>3. drift' = drift + loaded[cur[c]] - ninlevel[0]
      BY <1>5 DEF ForkStore
    <3> QED
      BY <3>2, <3>3
  <2> QED
    BY <1>0, <1>5, <2>2, <2>3, <2>4 DEF ForkStore, TypeOK
<1>6. CASE Exit(c)
  <2>1. PICK woken \in SUBSET Slot :
          /\ state' = [q \in Slot |-> CASE q = cur[c] -> "ZOMBIE"
                                        [] q \in woken -> "RUNNABLE"
                                        [] OTHER -> state[q]]
          /\ ninlevel' = Counted(woken, {cur[c]})
    <3> DEFINE woken == Woken({q \in Slot : q \in Called(cur[c]) /\ chan[q] = "wait"})
    <3>1. woken \in SUBSET Slot
      BY DEF Woken
    <3> QED
      BY <1>6, <3>1 DEF Exit, Enter, Leave
  <2>2. state' \in [Slot -> {"UNUSED", "EMBRYO", "SLEEPING", "RUNNABLE",
                             "RUNNING", "ZOMBIE"}]
    BY <2>1 DEF TypeOK
  <2>3. ninlevel' \in [Level -> Int]
    BY <2>1, <1>0, CountedType
  <2>4. parent' \in [Slot -> Slot \cup {None}]
    <3>1. Initproc \in Slot
      BY ConstantAssumption DEF Slot, Initproc
    <3> QED
      BY <1>6, <3>1 DEF Exit, TypeOK
  <2>5. /\ used' \in [Slot -> [Level -> Nat]]
        /\ \A q \in Slot, l \in Level : used'[q][l] < Slice[l]
    <3>1. used' = [used EXCEPT ![cur[c]] = [l \in Level |-> 0]]
      BY <1>6 DEF Exit
    <3> QED
      BY <3>1, <1>0, ConstantAssumption DEF TypeOK
  <2>6. level' \in [Slot -> Level]
    <3>1. 0 \in Level
      BY ConstantAssumption DEF Level
    <3> QED
      BY <1>6, <3>1 DEF Exit, TypeOK
  <2>7. /\ snap' = [snap EXCEPT ![cur[c]] = "other"]
        /\ lock' = c
        /\ spc' = [spc EXCEPT ![c] = "switch"]
        /\ held' \in [CPU -> Slot \cup {None}]
        /\ UNCHANGED <<chan, killed, call, starve_clock, ii, idx, cur>>
    BY <1>6 DEF Exit, ToScheduler, TypeOK
  <2> QED
    BY <2>2, <2>3, <2>4, <2>5, <2>6, <2>7 DEF TypeOK
<1>7. CASE WaitScan(c)
  <2> DEFINE kids == {q \in Slot : parent[q] = cur[c]}
             zombie == {q \in kids : state[q] = "ZOMBIE"}
  <2>1. Counted({}, Leave({cur[c]})) \in [Level -> Int]
    BY <1>0, CountedType DEF Leave
  <2> HIDE DEF kids, zombie
  <2>2. \/ /\ state' = [state EXCEPT ![Min(zombie)] = "UNUSED"]
           /\ parent' = [parent EXCEPT ![Min(zombie)] = None]
           /\ killed' = [killed EXCEPT ![Min(zombie)] = FALSE]
           /\ kpc' = [kpc EXCEPT ![cur[c]] = "user"]
           /\ lock' = None
           /\ UNCHANGED <<chan, ninlevel, spc, ii, idx, cur, held>>
        \/ /\ kpc' = [kpc EXCEPT ![cur[c]] = "user"]
           /\ lock' = None
           /\ UNCHANGED <<state, chan, killed, parent, ninlevel, spc, ii, idx,
                          cur, held>>
        \/ /\ state' = [state EXCEPT ![cur[c]] = "SLEEPING"]
           /\ chan' = [chan EXCEPT ![cur[c]] = "wait"]
           /\ ninlevel' = Counted({}, Leave({cur[c]}))
           /\ kpc' = [kpc EXCEPT ![cur[c]] = "wait"]
           /\ ToScheduler(c)
           /\ UNCHANGED <<killed, parent>>
    BY <1>7 DEF WaitScan, kids, zombie
  <2>3. UNCHANGED <<level, used, np, loaded, drift, snap, starve_clock>>
    BY <1>7 DEF WaitScan
  <2>4. CASE UNCHANGED <<ninlevel, spc, ii, idx, cur, held>> /\ lock' = None
    <3>1. kpc' \in [Slot -> {"user", "copy", "count", "store", "sleep", "wait"}]
      BY <2>2, <2>4, <1>0 DEF TypeOK
    <3>2. state' \in [Slot -> {"UNUSED", "EMBRYO", "SLEEPING", "RUNNABLE",
                               "RUNNING", "ZOMBIE"}]
      BY <2>2 DEF TypeOK
    <3>3. chan' \in [Slot -> {"none", "ticks", "wait"}]
      BY <2>2 DEF TypeOK
    <3>4. parent' \in [Slot -> Slot \cup {None}] /\ killed' \in [Slot -> BOOLEAN]
      BY <2>2 DEF TypeOK
    <3> QED
      BY <2>3, <2>4, <3>1, <3>2, <3>3, <3>4 DEF TypeOK
  <2>5. CASE ToScheduler(c)
    <3>1. /\ lock' = c
          /\ spc' = [spc EXCEPT ![c] = "switch"]
          /\ held' \in [CPU -> Slot \cup {None}]
          /\ UNCHANGED <<ii, idx, cur>>
      BY <2>5 DEF ToScheduler, TypeOK
    <3>2. ninlevel' \in [Level -> Int]
      BY <2>1, <2>2 DEF TypeOK
    <3>3. state' \in [Slot -> {"UNUSED", "EMBRYO", "SLEEPING", "RUNNABLE",
                               "RUNNING", "ZOMBIE"}]
      BY <2>2 DEF TypeOK
    <3>4. /\ chan' \in [Slot -> {"none", "ticks", "wait"}]
          /\ killed' \in [Slot -> BOOLEAN]
          /\ parent' \in [Slot -> Slot \cup {None}]
          /\ kpc' \in [Slot -> {"user", "copy", "count", "store", "sleep", "wait"}]
      <4>1. chan' \in [Slot -> {"none", "ticks", "wait"}]
        BY <2>2 DEF TypeOK
      <4>2. parent' \in [Slot -> Slot \cup {None}] /\ killed' \in [Slot -> BOOLEAN]
        BY <2>2 DEF TypeOK
      <4>3. kpc' \in [Slot -> {"user", "copy", "count", "store", "sleep", "wait"}]
        BY <2>2, <1>0 DEF TypeOK
      <4> QED
        BY <4>1, <4>2, <4>3
    <3> QED
      BY <2>3, <3>1, <3>2, <3>3, <3>4 DEF TypeOK
  <2> QED
    BY <2>2, <2>4, <2>5
<1>8. CASE Sleep(c)
  <2>1. Counted({}, Leave({cur[c]})) \in [Level -> Int]
    BY <1>0, CountedType DEF Leave
  <2> QED
    BY <2>1, <1>0, <1>8 DEF Sleep, TypeOK, ToScheduler
<1>9. CASE SleepReturns(c)
  BY <1>0, <1>9 DEF SleepReturns, TypeOK
<1>10. CASE Kill(c)
  <2>1. PICK q \in Slot :
          /\ killed' = [killed EXCEPT ![q] = TRUE]
          /\ state' = [state EXCEPT ![q] = IF @ = "SLEEPING" THEN "RUNNABLE" ELSE @]
          /\ ninlevel' = Counted(Enter(Woken({q})), {})
    BY <1>10 DEF Kill
  <2>2. Counted(Enter(Woken({q})), {}) \in [Level -> Int]
    <3>1. Woken({q}) \in SUBSET Slot
      BY DEF Woken
    <3> QED
      BY <3>1, CountedType DEF Enter
  <2> QED
    BY <2>1, <2>2, <1>10 DEF Kill, TypeOK
<1> QED
  BY <1>1, <1>2, <1>3, <1>4, <1>5, <1>6, <1>7, <1>8, <1>9, <1>10
     DEF Syscall, ForkStep

\* wakeup(&ticks) changes states and counters only, and only on the CPU that
\* counts.
LEMMA WakeTicksTypes ==
  ASSUME TypeOK, NEW c \in CPU, WakeTicks(c)
  PROVE  /\ state' \in [Slot -> {"UNUSED", "EMBRYO", "SLEEPING", "RUNNABLE",
                                 "RUNNING", "ZOMBIE"}]
         /\ ninlevel' \in [Level -> Int]
<1> DEFINE woken == Woken({q \in Slot : chan[q] = "ticks"})
<1>1. woken \in SUBSET Slot
  BY DEF Woken
<1>2. CASE c = 0
  <2>1. /\ state' = [q \in Slot |-> IF q \in woken THEN "RUNNABLE" ELSE state[q]]
        /\ ninlevel' = Counted(woken, {})
    BY <1>2 DEF WakeTicks, Enter
  <2>2. Counted(woken, {}) \in [Level -> Int]
    BY <1>1, CountedType
  <2> HIDE DEF woken
  <2> QED
    BY <2>1, <2>2 DEF TypeOK
<1>3. CASE c # 0
  BY <1>3 DEF WakeTicks, TypeOK
<1> QED
  BY <1>2, <1>3

LEMMA BoostTypes ==
  ASSUME TypeOK, Boost
  PROVE  /\ level' \in [Slot -> Level]
         /\ used' \in [Slot -> [Level -> Nat]]
         /\ \A p \in Slot, l \in Level : used'[p][l] < Slice[l]
         /\ ninlevel' \in [Level -> Int]
         /\ snap' \in [Slot -> {"same", "moved", "other"}]
<1>1. PICK alike \in SUBSET {p \in Slot : snap[p] = "other"} :
        LET up    == Starved(alike)
            ready == {p \in Slot : state[p] = "RUNNABLE"}
            lv    == [p \in Slot |-> IF p \in up THEN level[p] - 1 ELSE level[p]]
        IN /\ level' = lv
           /\ used' = [p \in Slot |-> IF p \in up
                                      THEN [used[p] EXCEPT ![lv[p]] = 0]
                                      ELSE used[p]]
           /\ ninlevel' = [l \in Level |->
                             ninlevel[l] + Cardinality({p \in up : lv[p] = l})
                                         - Cardinality({p \in up : level[p] = l})]
           /\ snap' = [p \in Slot |-> IF p \notin ready THEN snap[p]
                                      ELSE IF lv[p] = 0 THEN "moved" ELSE "same"]
  BY DEF Boost
<1>2. PICK up \in SUBSET Slot : up = Starved(alike)
  BY DEF Starved
<1>3. \A p \in Slot : p \in up => level[p] - 1 \in Level
  <2> SUFFICES ASSUME NEW p \in Slot, p \in up
               PROVE  level[p] - 1 \in Level
    OBVIOUS
  <2>1. level[p] \in Level /\ level[p] # 0
    BY <1>2 DEF Starved, TypeOK
  <2> QED
    BY <2>1, ConstantAssumption DEF Level
<1>4. level' \in [Slot -> Level]
  BY <1>1, <1>2, <1>3 DEF TypeOK
<1>5. /\ used' \in [Slot -> [Level -> Nat]]
      /\ \A p \in Slot, l \in Level : used'[p][l] < Slice[l]
  <2>1. used' = [p \in Slot |-> IF p \in up
                                THEN [used[p] EXCEPT ![level'[p]] = 0]
                                ELSE used[p]]
    BY <1>1, <1>2
  <2>2. ASSUME NEW p \in Slot
        PROVE  /\ used'[p] \in [Level -> Nat]
               /\ \A l \in Level : used'[p][l] < Slice[l]
    <3>1. /\ used[p] \in [Level -> Nat]
          /\ \A l \in Level : used[p][l] < Slice[l] /\ 0 < Slice[l]
      BY ConstantAssumption DEF TypeOK
    <3>2. CASE p \in up
      <4>1. used'[p] = [used[p] EXCEPT ![level'[p]] = 0]
        BY <2>1, <3>2
      <4>2. \A l \in Level : used'[p][l] = IF l = level'[p] THEN 0 ELSE used[p][l]
        BY <3>1, <4>1
      <4>3. \A l \in Level : used'[p][l] \in Nat
        BY <3>1, <4>2
      <4>4. used'[p] \in [Level -> Nat]
        BY <3>1, <4>1, <4>3
      <4> QED
        BY <3>1, <4>2, <4>4
    <3>3. CASE p \notin up
      BY <2>1, <3>1, <3>3
    <3> QED
      BY <3>2, <3>3
  <2> QED
    BY <2>1, <2>2
<1>6. ninlevel' \in [Level -> Int]
  <2> SUFFICES ASSUME NEW l \in Level
               PROVE  ninlevel[l] + Cardinality({p \in up : level'[p] = l})
                        - Cardinality({p \in up : level[p] = l}) \in Int
    BY <1>1, <1>2
  <2>1. Cardinality({p \in up : level'[p] = l}) \in Nat
    BY SlotsAreFinite
  <2>2. Cardinality({p \in up : level[p] = l}) \in Nat
    BY SlotsAreFinite
  <2> QED
    BY <2>1, <2>2 DEF TypeOK
<1>7. snap' \in [Slot -> {"same", "moved", "other"}]
  BY <1>1 DEF TypeOK
<1> QED
  BY <1>4, <1>5, <1>6, <1>7

LEMMA ClockTypes ==
  ASSUME TypeOK, CurInv, NEW c \in CPU,
         Timer(c) \/ TimerIdle(c) \/ TickCheck(c) \/ Yield(c)
  PROVE  TypeOK'
<1> USE DEF proc, call, sched
<1>1. CASE Timer(c)
  BY <1>1, WakeTicksTypes DEF Timer, TypeOK
<1>2. CASE TimerIdle(c)
  BY <1>2, WakeTicksTypes DEF TimerIdle, TypeOK
<1>3. CASE TickCheck(c)
  <2>1. starve_clock' \in 0 .. Period - 1
    <3>1. starve_clock + 1 \in Nat
      BY DEF TypeOK
    <3>2. starve_clock' = (starve_clock + 1) % Period
      BY <1>3 DEF TickCheck
    <3> QED
      BY <3>1, <3>2, RemainderRange, ConstantAssumption
  <2>2. CASE Boost
    BY <1>3, <2>1, <2>2, BoostTypes DEF TickCheck, TypeOK
  <2>3. CASE UNCHANGED <<level, used, snap, ninlevel>>
    BY <1>3, <2>1, <2>3 DEF TickCheck, TypeOK
  <2> QED
    BY <1>3, <2>2, <2>3 DEF TickCheck
<1>4. CASE Yield(c)
  <2>1. cur[c] \in Slot
    BY <1>4, HasProcess DEF Yield
  <2>2. held' \in [CPU -> Slot \cup {None}]
    BY <1>4 DEF Yield, ToScheduler, TypeOK
  <2> QED
    BY <1>4, <2>1, <2>2 DEF Yield, ToScheduler, TypeOK
<1> QED
  BY <1>1, <1>2, <1>3, <1>4

LEMMA TypeStep ==
  ASSUME TypeOK, CurInv, [Next]_vars
  PROVE  TypeOK'
<1>1. CASE UNCHANGED vars
  BY <1>1 DEF vars, proc, call, sched, TypeOK
<1> QED
  BY <1>1, SchedulerTypes, SyscallTypes, ClockTypes DEF Next
------------------------------------------------------------------------------
(* The steps keep the control invariants. *)

LEMMA InitControl == Init => Control
<1> SUFFICES ASSUME Init PROVE Control
  OBVIOUS
<1>1. Initproc \in Slot /\ None \notin Slot /\ None \notin CPU
  BY ConstantAssumption DEF Slot, Initproc
<1> QED
  BY <1>1 DEF Init, Control, CurInv, RunInv, LockInv, Holds, ForkInv,
     ParentInv, WaitNotLost

\* What none of the control invariants mentions may change.
LEMMA SameControl ==
  ASSUME Control, UNCHANGED <<state, chan, parent, kpc, np, lock, spc, cur>>
  PROVE  Control'
BY DEF Control, CurInv, RunInv, LockInv, Holds, ForkInv, ParentInv, WaitNotLost

\* The types these invariants need.
LEMMA ControlTypes ==
  ASSUME TypeOK
  PROVE  /\ state \in [Slot -> {"UNUSED", "EMBRYO", "SLEEPING", "RUNNABLE",
                                "RUNNING", "ZOMBIE"}]
         /\ chan \in [Slot -> {"none", "ticks", "wait"}]
         /\ parent \in [Slot -> Slot \cup {None}]
         /\ kpc \in [Slot -> {"user", "copy", "count", "store", "sleep", "wait"}]
         /\ np \in [Slot -> Slot \cup {None}]
         /\ spc \in [CPU -> {"idle", "scan", "run", "tick", "yield", "switch"}]
         /\ cur \in [CPU -> Slot \cup {None}]
         /\ lock \in CPU \cup {None}
         /\ None \notin CPU /\ None \notin Slot
         /\ Initproc \in Slot
<1>1. None \notin CPU /\ None \notin Slot /\ Initproc \in Slot
  BY ConstantAssumption DEF Slot, Initproc
<1> QED
  BY <1>1 DEF TypeOK

\* A CPU takes ptable.lock for a scheduling pass, or releases it after one.
LEMMA PassControl ==
  ASSUME TypeOK, Control, NEW c \in CPU, Acquire(c) \/ EndOfTable(c)
  PROVE  Control'
<1>1. CASE UNCHANGED <<lock, spc>>
  BY <1>1, SameControl DEF Acquire, EndOfTable, proc, call
<1>2. CASE /\ spc[c] = "idle" /\ lock = None /\ lock' = c
           /\ spc' = [spc EXCEPT ![c] = "scan"]
           /\ UNCHANGED <<state, chan, parent, kpc, np, cur>>
  <2>1. CurInv' /\ LockInv'
    BY <1>2, ControlTypes DEF CurInv, LockInv, Holds, Control
  <2>2. RunInv'
    BY <1>2, ControlTypes DEF RunInv, CurInv, Control
  <2> QED
    BY <1>2, <2>1, <2>2 DEF Control, ForkInv, ParentInv, WaitNotLost
<1>3. CASE /\ spc[c] = "scan" /\ lock' = None
           /\ spc' = [spc EXCEPT ![c] = "idle"]
           /\ UNCHANGED <<state, chan, parent, kpc, np, cur>>
  <2>1. CurInv' /\ LockInv'
    BY <1>3, ControlTypes DEF CurInv, LockInv, Holds, Control
  <2>2. RunInv'
    BY <1>3, ControlTypes DEF RunInv, CurInv, Control
  <2> QED
    BY <1>3, <2>1, <2>2 DEF Control, ForkInv, ParentInv, WaitNotLost
<1> QED
  BY <1>1, <1>2, <1>3 DEF Acquire, EndOfTable, LockFree, proc, call

LEMMA DispatchControl ==
  ASSUME TypeOK, Control, NEW c \in CPU, Dispatch(c)
  PROVE  Control'
<1>1. PICK p \in Slot :
        /\ spc[c] = "scan" /\ state[p] = "RUNNABLE"
        /\ state' = [state EXCEPT ![p] = "RUNNING"]
        /\ lock' = IF kpc[p] = "wait" THEN c ELSE None
        /\ cur' = [cur EXCEPT ![c] = p]
        /\ chan' = [chan EXCEPT ![p] = "none"]
        /\ spc' = [spc EXCEPT ![c] = "run"]
        /\ UNCHANGED <<parent, kpc, np>>
  <2>1. Min(Ready(c)) \in Slot /\ state[Min(Ready(c))] = "RUNNABLE"
    BY NextReady DEF Dispatch
  <2> QED
    BY <2>1 DEF Dispatch, call
<1>3. \A d \in CPU : cur[d] # p
  BY <1>1, ControlTypes DEF Control, CurInv, RunInv, LockInv, Holds
<1>4. CurInv'
  BY <1>1, <1>3, ControlTypes DEF CurInv, Control
<1>5. RunInv'
  BY <1>1, <1>3, ControlTypes DEF RunInv, CurInv, Control
<1>6. LockInv'
  BY <1>1, <1>3, ControlTypes DEF LockInv, Holds, Control
<1>7. ForkInv'
  BY <1>1, ControlTypes DEF ForkInv, Control
<1>8. ParentInv'
  BY <1>1, ControlTypes DEF ParentInv, Control
<1>9. WaitNotLost'
  BY <1>1, ControlTypes DEF WaitNotLost, Control
<1> QED
  BY <1>4, <1>5, <1>6, <1>7, <1>8, <1>9 DEF Control

LEMMA SwitchControl ==
  ASSUME TypeOK, Control, NEW c \in CPU, Switch(c)
  PROVE  Control'
<1>1. /\ spc[c] = "switch"
      /\ spc' = [spc EXCEPT ![c] = "scan"]
      /\ cur' = [cur EXCEPT ![c] = None]
      /\ UNCHANGED <<state, chan, parent, kpc, np, lock>>
  BY DEF Switch, proc, call
<1>2. CurInv' /\ LockInv'
  BY <1>1, ControlTypes DEF CurInv, LockInv, Holds, Control
<1>3. RunInv'
  BY <1>1, ControlTypes DEF RunInv, CurInv, Control
<1>4. ForkInv' /\ ParentInv' /\ WaitNotLost'
  BY <1>1 DEF ForkInv, ParentInv, WaitNotLost, Control
<1> QED
  BY <1>2, <1>3, <1>4 DEF Control

LEMMA SchedulerControl ==
  ASSUME TypeOK, Control, NEW c \in CPU, SchedStep(c)
  PROVE  Control'
<1>1. CASE Rescan(c) \/ OtherLevel(c)
  BY <1>1, SameControl DEF Rescan, OtherLevel, proc, call
<1> QED
  BY <1>1, PassControl, DispatchControl, SwitchControl DEF SchedStep

\* The process a CPU runs is RUNNING there and on no other CPU.
LEMMA OnThisCpu ==
  ASSUME TypeOK, Control, NEW c \in CPU, spc[c] \in {"run", "tick", "yield"}
  PROVE  /\ cur[c] \in Slot /\ state[cur[c]] = "RUNNING"
         /\ \A d \in CPU : cur[d] = cur[c] => d = c
BY ControlTypes DEF Control, CurInv, RunInv

\* A process enters another place of its system call, and no lock changes
\* hands: fork() counts its child, or a sleep is over.
LEMMA PlaceControl ==
  ASSUME TypeOK, Control, NEW c \in CPU, ForkLoad(c) \/ ForkStore(c) \/ SleepReturns(c)
  PROVE  Control'
<1>1. PICK k \in {"store", "user"} :
        /\ spc[c] = "run" /\ kpc[cur[c]] \in {"count", "store", "sleep"}
        /\ kpc' = [kpc EXCEPT ![cur[c]] = k]
        /\ np' = np \/ np' = [np EXCEPT ![cur[c]] = None]
        /\ UNCHANGED <<state, chan, parent, lock, spc, cur>>
  BY DEF ForkLoad, ForkStore, SleepReturns, Running, proc, sched
<1>2. /\ cur[c] \in Slot
      /\ \A d \in CPU : cur[d] = cur[c] => d = c
  BY <1>1, OnThisCpu
<1>3. CurInv' /\ RunInv' /\ ParentInv' /\ WaitNotLost'
  BY <1>1 DEF CurInv, RunInv, ParentInv, WaitNotLost, Control
<1>4. LockInv'
  BY <1>1, <1>2, ControlTypes DEF LockInv, Holds, Control
<1>5. ForkInv'
  BY <1>1, <1>2, ControlTypes DEF ForkInv, Control
<1> QED
  BY <1>3, <1>4, <1>5 DEF Control

LEMMA ForkAllocControl ==
  ASSUME TypeOK, Control, NEW c \in CPU, ForkAlloc(c)
  PROVE  Control'
<1>1. PICK n \in Slot :
        /\ spc[c] = "run" /\ kpc[cur[c]] = "user"
        /\ state[n] = "UNUSED"
        /\ np' = [np EXCEPT ![cur[c]] = n]
        /\ state' = [state EXCEPT ![n] = "EMBRYO"]
        /\ kpc' = [kpc EXCEPT ![cur[c]] = "copy"]
        /\ UNCHANGED <<chan, parent, lock, spc, cur>>
  <2> DEFINE free == {p \in Slot : state[p] = "UNUSED"}
  <2>1. free \in SUBSET Nat /\ free # {}
    BY ConstantAssumption DEF ForkAlloc, Slot
  <2>2. Min(free) \in free
    BY <2>1, MinProperties
  <2> QED
    BY <2>2 DEF ForkAlloc, Calls, Running, sched
<1>2. /\ cur[c] \in Slot /\ state[cur[c]] = "RUNNING"
      /\ \A d \in CPU : cur[d] = cur[c] => d = c
  BY <1>1, OnThisCpu
<1>3. CurInv'
  BY <1>1 DEF CurInv, Control
<1>4. RunInv'
  BY <1>1, ControlTypes DEF RunInv, CurInv, Control
<1>5. LockInv'
  BY <1>1, <1>2, ControlTypes DEF LockInv, Holds, Control
<1>6. ForkInv'
  BY <1>1, <1>2, ControlTypes DEF ForkInv, Control
<1>7. ParentInv' /\ WaitNotLost'
  BY <1>1, ControlTypes DEF ParentInv, WaitNotLost, Control
<1> QED
  BY <1>3, <1>4, <1>5, <1>6, <1>7 DEF Control

\* fork() gives its child up, or hands it to the scheduler.
LEMMA ForkEndControl ==
  ASSUME TypeOK, Control, NEW c \in CPU, ForkFails(c) \/ ForkReady(c)
  PROVE  Control'
<1> DEFINE p == cur[c]
           n == np[p]
<1>1. /\ spc[c] = "run" /\ kpc[p] = "copy"
      /\ UNCHANGED <<chan, lock, spc, cur>>
      /\ np' = np \/ np' = [np EXCEPT ![p] = None]
      /\ \/ /\ state' = [state EXCEPT ![n] = "UNUSED"]
            /\ kpc' = [kpc EXCEPT ![p] = "user"]
            /\ parent' = parent
         \/ /\ state' = [state EXCEPT ![n] = "RUNNABLE"]
            /\ \/ kpc' = [kpc EXCEPT ![p] = "count", ![n] = "user"]
               \/ kpc' = [kpc EXCEPT ![p] = "user", ![n] = "user"]
            /\ parent' = [parent EXCEPT ![n] = p]
  BY DEF ForkFails, ForkReady, Running, sched
<1>2. /\ p \in Slot /\ state[p] = "RUNNING"
      /\ \A d \in CPU : cur[d] = cur[c] => d = c
  BY <1>1, OnThisCpu
<1>3. n \in Slot /\ state[n] = "EMBRYO" /\ n # p /\ n # Initproc
  BY <1>1, <1>2 DEF Control, ForkInv, ParentInv
<1>4. \A d \in CPU : cur[d] # n
  BY <1>3, ControlTypes DEF Control, CurInv, RunInv
<1> HIDE DEF p, n
<1>5. CurInv'
  BY <1>1 DEF CurInv, Control
<1>6. RunInv'
  BY <1>1, <1>3, <1>4, ControlTypes DEF RunInv, CurInv, Control
<1>7. LockInv'
  <2>1. \A d \in CPU : d # c /\ cur[d] # None => kpc'[cur[d]] = kpc[cur[d]]
    BY <1>1, <1>2, <1>4, ControlTypes DEF p
  <2>2. kpc'[cur[c]] # "wait"
    BY <1>1, <1>2, <1>3, ControlTypes DEF p
  <2> QED
    BY <1>1, <2>1, <2>2, ControlTypes DEF LockInv, Holds, CurInv, Control, p
<1>8. ForkInv'
  <2>1. \A q \in Slot : kpc'[q] = "copy" => kpc[q] = "copy" /\ q # p /\ np'[q] = np[q]
    BY <1>1, <1>2, <1>3, ControlTypes
  <2>2. \A q \in Slot : kpc'[q] = "copy" => np[q] # n
    BY <1>1, <1>2, <2>1 DEF ForkInv, Control, n
  <2>3. \A q \in Slot : q # n => state'[q] = state[q]
    BY <1>1, ControlTypes
  <2> QED
    BY <2>1, <2>2, <2>3 DEF ForkInv, Control
<1>9. ParentInv'
  BY <1>1, <1>2, <1>3, ControlTypes DEF ParentInv, Control
<1>10. WaitNotLost'
  BY <1>1, <1>2, <1>3, ControlTypes DEF WaitNotLost, Control
<1> QED
  BY <1>5, <1>6, <1>7, <1>8, <1>9, <1>10 DEF Control

\* A process that gives its CPU up in sched(), ptable.lock held: it has just
\* become RUNNABLE, SLEEPING or ZOMBIE, and others may have been woken.
LEMMA LeavingControl ==
  ASSUME TypeOK, Control, NEW c \in CPU,
         spc[c] \in {"run", "tick", "yield"},
         lock = None \/ lock = c,
         lock' = c, spc' = [spc EXCEPT ![c] = "switch"], cur' = cur,
         state'[cur[c]] \in {"RUNNABLE", "SLEEPING", "ZOMBIE"},
         \A q \in Slot \ {cur[c]} :
           \/ state'[q] = state[q]
           \/ state[q] = "SLEEPING" /\ state'[q] = "RUNNABLE",
         kpc' = kpc \/ \E k \in {"sleep", "wait"} : kpc' = [kpc EXCEPT ![cur[c]] = k],
         kpc[cur[c]] # "copy" \/ kpc' = kpc,
         np' = np
  PROVE  CurInv' /\ RunInv' /\ LockInv' /\ ForkInv'
<1>1. /\ cur[c] \in Slot /\ state[cur[c]] = "RUNNING"
      /\ \A d \in CPU : cur[d] = cur[c] => d = c
  BY OnThisCpu
<1>2. CurInv'
  BY ControlTypes DEF CurInv, Control
<1>3. RunInv'
  <2>1. \A d \in CPU : d # c /\ spc[d] \in {"run", "tick", "yield"} =>
          cur[d] \in Slot \ {cur[c]} /\ state'[cur[d]] = "RUNNING"
    BY <1>1, ControlTypes DEF RunInv, CurInv, Control
  <2>2. \A d \in CPU : spc[d] # "switch"
    BY ControlTypes DEF LockInv, Holds, Control
  <2>3. \A q \in Slot : state'[q] = "RUNNING" => q # cur[c] /\ state[q] = "RUNNING"
    BY <1>1
  <2> QED
    BY <2>1, <2>2, <2>3, ControlTypes DEF RunInv, Control
<1>4. LockInv'
  <2>1. \A d \in CPU : d # c /\ cur[d] # None => kpc'[cur[d]] = kpc[cur[d]]
    BY <1>1, ControlTypes
  <2> QED
    BY <2>1, ControlTypes DEF LockInv, Holds, CurInv, Control
<1>5. ForkInv'
  <2>1. \A q \in Slot : kpc'[q] = "copy" => kpc[q] = "copy"
    BY <1>1, ControlTypes
  <2>2. \A q \in Slot : state[q] = "EMBRYO" => state'[q] = "EMBRYO"
    BY <1>1
  <2> QED
    BY <2>1, <2>2 DEF ForkInv, Control
<1> QED
  BY <1>2, <1>3, <1>4, <1>5

LEMMA YieldControl ==
  ASSUME TypeOK, Control, NEW c \in CPU, Yield(c)
  PROVE  Control'
<1>1. /\ spc[c] = "yield" /\ lock = None
      /\ state' = [state EXCEPT ![cur[c]] = "RUNNABLE"]
      /\ lock' = c /\ spc' = [spc EXCEPT ![c] = "switch"]
      /\ UNCHANGED <<chan, parent, kpc, np, cur>>
  BY DEF Yield, ToScheduler, call
<1>2. cur[c] \in Slot /\ state[cur[c]] = "RUNNING"
  BY <1>1, OnThisCpu
<1>3. CurInv' /\ RunInv' /\ LockInv' /\ ForkInv'
  BY <1>1, <1>2, ControlTypes, LeavingControl
<1>4. ParentInv' /\ WaitNotLost'
  BY <1>1, <1>2, ControlTypes DEF ParentInv, WaitNotLost, Control
<1> QED
  BY <1>3, <1>4 DEF Control

LEMMA SleepControl ==
  ASSUME TypeOK, Control, NEW c \in CPU, Sleep(c)
  PROVE  Control'
<1>1. /\ spc[c] = "run" /\ lock = None /\ kpc[cur[c]] # "copy"
      /\ state' = [state EXCEPT ![cur[c]] = "SLEEPING"]
      /\ chan' = [chan EXCEPT ![cur[c]] = "ticks"]
      /\ kpc' = [kpc EXCEPT ![cur[c]] = "sleep"]
      /\ lock' = c /\ spc' = [spc EXCEPT ![c] = "switch"]
      /\ UNCHANGED <<parent, np, cur>>
  BY DEF Sleep, ToScheduler, Calls, Running
<1>2. cur[c] \in Slot /\ state[cur[c]] = "RUNNING"
  BY <1>1, OnThisCpu
<1>3. CurInv' /\ RunInv' /\ LockInv' /\ ForkInv'
  BY <1>1, <1>2, ControlTypes, LeavingControl
<1>4. ParentInv' /\ WaitNotLost'
  BY <1>1, <1>2, ControlTypes DEF ParentInv, WaitNotLost, Control
<1> QED
  BY <1>3, <1>4 DEF Control

\* wait() goes to sleep only when no child of its is a zombie.
LEMMA WaitControl ==
  ASSUME TypeOK, Control, NEW c \in CPU, WaitScan(c)
  PROVE  Control'
<1> DEFINE p == cur[c]
           kids == {q \in Slot : parent[q] = p}
           zombie == {q \in kids : state[q] = "ZOMBIE"}
<1>1. spc[c] = "run" /\ np' = np /\ cur' = cur
  BY DEF WaitScan, Calls, Running, ToScheduler
<1>2. \/ kpc[p] = "user" /\ lock = None
      \/ kpc[p] = "wait" /\ lock = c
  BY DEF WaitScan, Calls, Running
<1>3. /\ p \in Slot /\ state[p] = "RUNNING"
      /\ \A d \in CPU : cur[d] = p => d = c
  BY <1>1, OnThisCpu
<1>4. zombie # {} => Min(zombie) \in zombie
  <2>1. zombie \in SUBSET Nat
    BY ConstantAssumption DEF Slot
  <2> QED
    BY <2>1, MinProperties
<1>5. CASE zombie # {}
  <2> DEFINE z == Min(zombie)
  <2>1. z \in Slot /\ parent[z] = p /\ state[z] = "ZOMBIE"
    BY <1>4, <1>5
  <2>2. /\ state' = [state EXCEPT ![z] = "UNUSED"]
        /\ parent' = [parent EXCEPT ![z] = None]
        /\ kpc' = [kpc EXCEPT ![p] = "user"]
        /\ lock' = None
        /\ UNCHANGED <<chan, spc>>
    BY <1>5 DEF WaitScan
  <2> HIDE DEF z, zombie, kids
  <2>3. CurInv'
    BY <1>1, <2>2 DEF CurInv, Control
  <2>4. RunInv'
    <3>1. \A d \in CPU : spc[d] # "switch"
      BY <1>1, <1>2, ControlTypes DEF LockInv, Holds, Control
    <3> QED
      BY <1>1, <2>1, <2>2, <3>1, ControlTypes DEF RunInv, CurInv, Control
  <2>5. LockInv'
    BY <1>1, <1>2, <1>3, <2>2, ControlTypes DEF LockInv, Holds, CurInv, Control
  <2>6. ForkInv'
    BY <1>1, <1>2, <1>3, <2>1, <2>2, ControlTypes DEF ForkInv, Control
  <2>7. ParentInv'
    BY <2>1, <2>2, ControlTypes DEF ParentInv, Control
  <2>8. WaitNotLost'
    BY <2>1, <2>2, ControlTypes DEF WaitNotLost, Control
  <2> QED
    BY <2>3, <2>4, <2>5, <2>6, <2>7, <2>8 DEF Control
<1>6. CASE /\ kpc' = [kpc EXCEPT ![p] = "user"] /\ lock' = None
           /\ UNCHANGED <<state, chan, parent, spc>>
  <2>1. CurInv' /\ RunInv' /\ ParentInv' /\ WaitNotLost'
    BY <1>1, <1>6 DEF CurInv, RunInv, ParentInv, WaitNotLost, Control
  <2>2. LockInv'
    BY <1>1, <1>2, <1>3, <1>6, ControlTypes DEF LockInv, Holds, CurInv, Control
  <2>3. ForkInv'
    BY <1>1, <1>2, <1>3, <1>6, ControlTypes DEF ForkInv, Control
  <2> QED
    BY <2>1, <2>2, <2>3 DEF Control
<1>7. CASE /\ zombie = {}
           /\ state' = [state EXCEPT ![p] = "SLEEPING"]
           /\ chan' = [chan EXCEPT ![p] = "wait"]
           /\ kpc' = [kpc EXCEPT ![p] = "wait"]
           /\ lock' = c /\ spc' = [spc EXCEPT ![c] = "switch"]
           /\ parent' = parent
  <2>1. CurInv' /\ RunInv' /\ LockInv' /\ ForkInv'
    BY <1>1, <1>2, <1>3, <1>7, ControlTypes, LeavingControl
  <2>2. ParentInv' /\ WaitNotLost'
    BY <1>1, <1>3, <1>7, ControlTypes DEF ParentInv, WaitNotLost, Control
  <2> QED
    BY <2>1, <2>2 DEF Control
<1> QED
  BY <1>5, <1>6, <1>7 DEF WaitScan, ToScheduler

\* exit() leaves its children to init and wakes whoever waits for a zombie
\* that is now theirs.
LEMMA ExitControl ==
  ASSUME TypeOK, Control, NEW c \in CPU, Exit(c)
  PROVE  Control'
<1> DEFINE p == cur[c]
           orphan == {q \in Slot : parent[q] = p}
           woken == Woken({q \in Slot : q \in Called(p) /\ chan[q] = "wait"})
<1>1. /\ spc[c] \in {"run", "tick"} /\ lock = None /\ p # Initproc
      /\ kpc[p] = "user"
      /\ lock' = c /\ spc' = [spc EXCEPT ![c] = "switch"]
      /\ UNCHANGED <<chan, kpc, np, cur>>
  BY DEF Exit, Running, ToScheduler, call
<1>2. p \in Slot /\ state[p] = "RUNNING"
  BY <1>1, OnThisCpu
<1>3. /\ state' = [q \in Slot |-> CASE q = p -> "ZOMBIE"
                                    [] q \in woken -> "RUNNABLE"
                                    [] OTHER -> state[q]]
      /\ parent' = [q \in Slot |-> IF q \in orphan THEN Initproc ELSE parent[q]]
  BY DEF Exit
<1>4. \A q \in woken : state[q] = "SLEEPING"
  BY DEF Woken
<1>5. /\ state'[p] = "ZOMBIE"
      /\ \A q \in Slot \ {p} :
           state'[q] = IF q \in woken THEN "RUNNABLE" ELSE state[q]
  BY <1>2, <1>3, <1>4
<1>6. CurInv' /\ RunInv' /\ LockInv' /\ ForkInv'
  BY <1>1, <1>4, <1>5, LeavingControl
<1>7. ParentInv'
  <2>1. Initproc \notin orphan
    BY <1>2, ControlTypes DEF ParentInv, Control
  <2> QED
    BY <1>1, <1>3, <1>5, <2>1, ControlTypes DEF ParentInv, Control
<1>8. WaitNotLost'
  <2> SUFFICES ASSUME NEW r \in Slot, NEW q \in Slot,
                      state'[r] = "SLEEPING", chan[r] = "wait", parent'[q] = r,
                      state'[q] = "ZOMBIE"
               PROVE  FALSE
    BY <1>1 DEF WaitNotLost
  <2>1. r # p /\ state[r] = "SLEEPING" /\ r \notin woken
    BY <1>5
  <2>2. r \notin Called(p)
    BY <2>1 DEF Woken
  <2>3. q = p \/ state[q] = "ZOMBIE"
    BY <1>5
  <2>4. CASE q \in orphan
    <3>1. r = Initproc /\ parent[q] = p
      BY <1>3, <2>4
    <3>2. q # p
      BY <3>1, <1>2 DEF ParentInv, Control
    <3> QED
      BY <3>1, <3>2, <2>2, <2>3 DEF Called
  <2>5. CASE q \notin orphan
    <3>1. parent[q] = r
      BY <1>3, <2>5
    <3>2. q # p
      BY <3>1, <2>2 DEF Called
    <3> QED
      BY <3>1, <3>2, <2>1, <2>3 DEF WaitNotLost, Control
  <2> QED
    BY <2>4, <2>5
<1> QED
  BY <1>6, <1>7, <1>8 DEF Control

\* Sleepers are woken, by kill() or wakeup(&ticks), and nothing else changes.
LEMMA WakingControl ==
  ASSUME TypeOK, Control,
         \A q \in Slot :
           \/ state'[q] = state[q]
           \/ state[q] = "SLEEPING" /\ state'[q] = "RUNNABLE",
         UNCHANGED <<chan, parent, kpc, np, lock, cur>>,
         \/ spc' = spc
         \/ \E c \in CPU : \/ /\ spc[c] = "run" /\ lock # c
                              /\ spc' = [spc EXCEPT ![c] = "tick"]
                           \/ /\ spc[c] = "tick"
                              /\ spc' = [spc EXCEPT ![c] = "yield"]
  PROVE  Control'
<1>1. CurInv'
  BY ControlTypes DEF CurInv, Control
<1>2. RunInv'
  BY ControlTypes DEF RunInv, CurInv, Control
<1>3. LockInv'
  BY ControlTypes DEF LockInv, Holds, CurInv, Control
<1>4. ForkInv'
  BY DEF ForkInv, Control
<1>5. ParentInv' /\ WaitNotLost'
  BY ControlTypes DEF ParentInv, WaitNotLost, Control
<1> QED
  BY <1>1, <1>2, <1>3, <1>4, <1>5 DEF Control

LEMMA WakeControl ==
  ASSUME TypeOK, Control, NEW c \in CPU,
         Kill(c) \/ Timer(c) \/ TimerIdle(c) \/ TickCheck(c)
  PROVE  Control'
<1>1. CASE Kill(c)
  <2>1. PICK q \in Slot :
          state' = [state EXCEPT ![q] = IF @ = "SLEEPING" THEN "RUNNABLE" ELSE @]
    BY <1>1 DEF Kill
  <2>2. \A r \in Slot : \/ state'[r] = state[r]
                        \/ state[r] = "SLEEPING" /\ state'[r] = "RUNNABLE"
    BY <2>1, ControlTypes
  <2> QED
    BY <1>1, <2>2, WakingControl DEF Kill, call, sched
<1>2. ASSUME WakeTicks(c)
      PROVE  \A q \in Slot : \/ state'[q] = state[q]
                             \/ state[q] = "SLEEPING" /\ state'[q] = "RUNNABLE"
  BY <1>2 DEF WakeTicks, Woken
<1>3. CASE Timer(c)
  BY <1>2, <1>3, WakingControl DEF Timer, call
<1>4. CASE TimerIdle(c)
  BY <1>2, <1>4, WakingControl DEF TimerIdle, call, sched
<1>5. CASE TickCheck(c)
  BY <1>5, WakingControl DEF TickCheck, call
<1> QED
  BY <1>1, <1>3, <1>4, <1>5
------------------------------------------------------------------------------

LEMMA InitIInv == Init => IInv
BY InitType, InitControl DEF IInv

LEMMA StepIInv == IInv /\ [Next]_vars => IInv'
<1> SUFFICES ASSUME TypeOK, Control, [Next]_vars
             PROVE  TypeOK' /\ Control'
  BY DEF IInv
<1>1. TypeOK'
  BY TypeStep DEF Control
<1>2. Control'
  <2>1. CASE UNCHANGED vars
    BY <2>1, SameControl DEF vars, proc, call, sched
  <2>2. ASSUME NEW c \in CPU, Syscall(c)
        PROVE  Control'
    BY <2>2, ForkAllocControl, ForkEndControl, PlaceControl, ExitControl,
       WaitControl, SleepControl, WakeControl DEF Syscall, ForkStep
  <2> QED
    BY <2>1, <2>2, SchedulerControl, WakeControl, YieldControl DEF Next
<1> QED
  BY <1>1, <1>2

\* The inductive invariant holds of every behaviour, whatever fork() lets
\* happen in between and with any number of processes, levels and CPUs.
THEOREM Invariance == Spec => []IInv
BY InitIInv, StepIInv, PTL DEF Spec

\* No variable leaves its type: no level, slice count or table index of
\* scheduler(), trap() and the system calls goes out of range
\* (proc.c:339-476, trap.c:54-132).
THEOREM TypeCorrect == Spec => []TypeOK
<1>1. IInv => TypeOK
  BY DEF IInv
<1> QED
  BY <1>1, Invariance, PTL

\* A process is on one CPU at most, and on one while it is RUNNING, although
\* sleep(), exit() and yield() make it something else before the switch
\* (proc.c:478-520): ptable.lock is held until scheduler() is back.
THEOREM OneCpuHolds == Spec => []OneCpu
<1>1. ASSUME IInv PROVE OneCpu
  <2> SUFFICES ASSUME NEW p \in Slot
               PROVE  /\ Cardinality(OnCpu(p)) <= 1
                      /\ state[p] = "RUNNING" => OnCpu(p) # {}
    BY DEF OneCpu
  <2>1. p # None
    BY ConstantAssumption
  <2>2. OnCpu(p) = {} \/ \E c \in CPU : OnCpu(p) = {c}
    BY <1>1, <2>1 DEF IInv, Control, CurInv, OnCpu
  <2>3. Cardinality(OnCpu(p)) <= 1
    <3>1. CASE OnCpu(p) = {}
      BY <3>1, FS_EmptySet
    <3>2. ASSUME NEW c \in CPU, OnCpu(p) = {c}
          PROVE  Cardinality(OnCpu(p)) <= 1
      <4>1. Cardinality(OnCpu(p)) = 1
        BY <3>2, FS_Singleton
      <4> QED
        BY <4>1
    <3> QED
      BY <2>2, <3>1, <3>2
  <2>4. state[p] = "RUNNING" => OnCpu(p) # {}
    BY <1>1 DEF IInv, Control, RunInv, OnCpu
  <2> QED
    BY <2>3, <2>4
<1> QED
  BY <1>1, Invariance, PTL

\* No parent sleeps in wait() while it has a zombie child, its own or one
\* that exit() left to it as init (proc.c:225-330).
THEOREM WaitNotLostHolds == Spec => []WaitNotLost
<1>1. IInv => WaitNotLost
  BY DEF IInv, Control
<1> QED
  BY <1>1, Invariance, PTL
------------------------------------------------------------------------------
(***************************************************************************)
(* The counters: exact but for what fork() has not counted or has lost.    *)
(***************************************************************************)

\* What is added to and taken from a finite set is added to and taken from
\* its cardinality.
LEMMA AddAndRemove ==
  ASSUME NEW A, IsFiniteSet(A), NEW U, IsFiniteSet(U), NEW D,
         D \subseteq A, A \cap U = {}
  PROVE  Cardinality((A \cup U) \ D) =
           Cardinality(A) + Cardinality(U) - Cardinality(D)
<1>1. /\ Cardinality(A) \in Nat /\ Cardinality(U) \in Nat
      /\ IsFiniteSet(D) /\ Cardinality(D) \in Nat
  BY FS_Subset, FS_CardinalityType
<1>2. Cardinality(A \cap U) = 0
  BY FS_EmptySet
<1>3. /\ IsFiniteSet(A \cup U)
      /\ Cardinality(A \cup U) =
           Cardinality(A) + Cardinality(U) - Cardinality(A \cap U)
  BY FS_Union
<1>4. (A \cup U) \cap D = D
  OBVIOUS
<1>5. Cardinality((A \cup U) \ D) =
        Cardinality(A \cup U) - Cardinality((A \cup U) \cap D)
  BY <1>3, FS_Difference
<1>6. Cardinality((A \cup U) \cap D) = Cardinality(D)
  BY <1>4
<1> QED
  BY <1>1, <1>2, <1>3, <1>5, <1>6

\* A process that is RUNNABLE or RUNNING, which is what is counted.
Counts(p) == state[p] \in {"RUNNABLE", "RUNNING"}

\* A step that counts in whoever starts to count at a level or comes to it,
\* and counts out whoever stops to or leaves it, keeps the counters exact.
LEMMA AccountingKept ==
  ASSUME TypeOK, Accounting, Missing' = Missing,
         NEW up \in SUBSET Slot, NEW down \in SUBSET Slot,
         \A p \in up : ~Counts(p), \A p \in down : Counts(p),
         \A p \in Slot : Counts(p)' <=> p \in up \/ (Counts(p) /\ p \notin down),
         \A p \in Slot : Counts(p)' => level'[p] = level[p],
         ninlevel' = Counted(up, down)
  PROVE  Accounting'
<1> SUFFICES ASSUME NEW l \in Level
             PROVE  ninlevel'[l] + Uncounted(l)' = Cardinality(Active(l)')
  BY DEF Accounting
<1> DEFINE U == {p \in up : level[p] = l}
           D == {p \in down : level[p] = l}
<1>1. Active(l)' = (Active(l) \cup U) \ D
  BY DEF Active, Counts
<1>2. D \subseteq Active(l) /\ Active(l) \cap U = {}
  BY DEF Active, Counts
<1>3. IsFiniteSet(Active(l)) /\ IsFiniteSet(U)
  BY SlotsAreFinite DEF Active
<1>4. ninlevel'[l] = ninlevel[l] + Cardinality(U) - Cardinality(D)
  BY DEF Counted
<1>5. ninlevel[l] + Uncounted(l) = Cardinality(Active(l))
  BY DEF Accounting
<1>6. Uncounted(l)' = Uncounted(l) /\ Uncounted(l) \in Int /\ ninlevel[l] \in Int
  BY MissingType DEF Uncounted
<1>7. /\ Cardinality(Active(l)) \in Nat /\ Cardinality(U) \in Nat
      /\ Cardinality(D) \in Nat
  BY <1>2, <1>3, FS_CardinalityType, FS_Subset
<1>8. Cardinality((Active(l) \cup U) \ D) =
        Cardinality(Active(l)) + Cardinality(U) - Cardinality(D)
  BY <1>2, <1>3, AddAndRemove
<1> HIDE DEF U, D
<1> QED
  BY <1>1, <1>4, <1>5, <1>6, <1>7, <1>8

\* A step after which the same processes count, at the same levels.
LEMMA AccountingSame ==
  ASSUME TypeOK, Accounting, Missing' = Missing, ninlevel' = ninlevel,
         \A p \in Slot : Counts(p)' <=> Counts(p),
         \A p \in Slot : Counts(p)' => level'[p] = level[p]
  PROVE  Accounting'
<1>1. \A l \in Level : Active(l)' = Active(l) /\ Uncounted(l)' = Uncounted(l)
  BY DEF Active, Counts, Uncounted
<1> QED
  BY <1>1 DEF Accounting

LEMMA DispatchAccounting ==
  ASSUME TypeOK, Accounting, Missing' = Missing, NEW c \in CPU, Dispatch(c)
  PROVE  Accounting'
<1> DEFINE p == Min(Ready(c))
           l == level[p]
           over == (used[p][l] + 1) % Slice[l] = 0
           down == over /\ MovesDown(l)
<1>1. p \in Slot /\ l \in Level /\ state[p] = "RUNNABLE"
  BY NextReady DEF Dispatch, TypeOK
<1>2. /\ state' = [state EXCEPT ![p] = "RUNNING"]
      /\ level' = [level EXCEPT ![p] = IF down THEN l + 1 ELSE l]
      /\ ninlevel' = [k \in Level |->
                        ninlevel[k] + (IF down /\ k = l + 1 THEN 1 ELSE 0)
                                    - (IF down /\ k = l THEN 1 ELSE 0)]
  BY DEF Dispatch
<1> HIDE DEF p, l, down
<1>3. \A q \in Slot : Counts(q)' <=> Counts(q)
  BY <1>1, <1>2, ControlTypes DEF Counts
<1>4. CASE ~down
  <2>1. level' = level
    BY <1>1, <1>2, <1>4 DEF l, TypeOK
  <2>2. ninlevel' = ninlevel
    BY <1>1, <1>2, <1>4 DEF TypeOK
  <2> QED
    BY <1>3, <2>1, <2>2, AccountingSame
<1>5. CASE down
  <2>1. l + 1 # l
    BY <1>1, ConstantAssumption DEF Level
  <2>2. /\ \A q \in Slot : level'[q] = IF q = p THEN l + 1 ELSE level[q]
        /\ \A k \in Level : ninlevel'[k] = IF k = l + 1 THEN ninlevel[k] + 1
                                           ELSE IF k = l THEN ninlevel[k] - 1
                                           ELSE ninlevel[k]
    BY <1>1, <1>2, <1>5, <2>1 DEF TypeOK
  <2> SUFFICES ASSUME NEW k \in Level
               PROVE  ninlevel'[k] + Uncounted(k)' = Cardinality(Active(k)')
    BY DEF Accounting
  <2>3. /\ ninlevel[k] + Uncounted(k) = Cardinality(Active(k))
        /\ Cardinality(Active(k)) \in Nat /\ IsFiniteSet(Active(k))
        /\ Uncounted(k)' = Uncounted(k) /\ Uncounted(k) \in Int /\ ninlevel[k] \in Int
    BY SlotsAreFinite, MissingType DEF Accounting, Active, Uncounted
  <2>4. CASE k = l + 1
    <3>1. Active(k)' = Active(k) \cup {p} /\ p \notin Active(k)
      BY <1>1, <1>3, <2>1, <2>2, <2>4 DEF Active, Counts, l
    <3>2. Cardinality(Active(k) \cup {p}) = Cardinality(Active(k)) + 1
      BY <2>3, <3>1, FS_AddElement
    <3>3. ninlevel'[k] = ninlevel[k] + 1
      BY <2>2, <2>4
    <3> QED
      BY <2>3, <3>1, <3>2, <3>3
  <2>5. CASE k = l
    <3>1. Active(k)' = Active(k) \ {p} /\ p \in Active(k)
      BY <1>1, <1>3, <2>1, <2>2, <2>5 DEF Active, Counts, l
    <3>2. Cardinality(Active(k) \ {p}) = Cardinality(Active(k)) - 1
      BY <2>3, <3>1, FS_RemoveElement
    <3>3. ninlevel'[k] = ninlevel[k] - 1
      BY <2>1, <2>2, <2>5
    <3> QED
      BY <2>3, <3>1, <3>2, <3>3
  <2>6. CASE k # l /\ k # l + 1
    <3>1. Active(k)' = Active(k)
      BY <1>1, <1>3, <2>2, <2>6 DEF Active, Counts, l
    <3> QED
      BY <2>2, <2>3, <2>6, <3>1
  <2> QED
    BY <2>4, <2>5, <2>6
<1> QED
  BY <1>4, <1>5

LEMMA BoostAccounting ==
  ASSUME TypeOK, Accounting, Missing' = Missing, Boost, state' = state
  PROVE  Accounting'
<1>1. PICK up \in SUBSET Slot :
        /\ \A p \in up : state[p] = "RUNNABLE" /\ level[p] # 0
        /\ level' = [p \in Slot |-> IF p \in up THEN level[p] - 1 ELSE level[p]]
        /\ ninlevel' = [l \in Level |->
                          ninlevel[l] + Cardinality({p \in up : level'[p] = l})
                                      - Cardinality({p \in up : level[p] = l})]
  <2>1. PICK alike \in SUBSET {p \in Slot : snap[p] = "other"} :
          LET up == Starved(alike)
              lv == [p \in Slot |-> IF p \in up THEN level[p] - 1 ELSE level[p]]
          IN /\ level' = lv
             /\ ninlevel' = [l \in Level |->
                               ninlevel[l] + Cardinality({p \in up : lv[p] = l})
                                           - Cardinality({p \in up : level[p] = l})]
    BY DEF Boost
  <2>2. Starved(alike) \in SUBSET Slot
    BY DEF Starved
  <2>3. \A p \in Starved(alike) : state[p] = "RUNNABLE" /\ level[p] # 0
    BY DEF Starved
  <2> QED
    BY <2>1, <2>2, <2>3
<1> SUFFICES ASSUME NEW l \in Level
             PROVE  ninlevel'[l] + Uncounted(l)' = Cardinality(Active(l)')
  BY DEF Accounting
<1> DEFINE U == {p \in up : level'[p] = l}
           D == {p \in up : level[p] = l}
<1>2. \A p \in Slot : level[p] \in Int
  BY ConstantAssumption DEF TypeOK, Level
<1>3. \A p \in up : p \in Slot /\ level'[p] = level[p] - 1 /\ level'[p] # level[p]
  BY <1>1, <1>2
<1>4. \A p \in Slot \ up : level'[p] = level[p]
  BY <1>1
<1>5. Active(l)' = (Active(l) \cup U) \ D
  <2>1. ASSUME NEW p \in Slot
        PROVE  p \in Active(l)' <=> p \in (Active(l) \cup U) \ D
    BY <1>1, <1>3, <1>4 DEF Active
  <2> QED
    BY <2>1 DEF Active
<1>6. D \subseteq Active(l) /\ Active(l) \cap U = {}
  BY <1>1, <1>3 DEF Active
<1>7. IsFiniteSet(Active(l)) /\ IsFiniteSet(U)
  BY SlotsAreFinite DEF Active
<1>8. ninlevel'[l] = ninlevel[l] + Cardinality(U) - Cardinality(D)
  BY <1>1
<1>9. ninlevel[l] + Uncounted(l) = Cardinality(Active(l))
  BY DEF Accounting
<1>10. Uncounted(l)' = Uncounted(l) /\ Uncounted(l) \in Int /\ ninlevel[l] \in Int
  BY MissingType DEF Uncounted
<1>11. /\ Cardinality(Active(l)) \in Nat /\ Cardinality(U) \in Nat
       /\ Cardinality(D) \in Nat
  BY <1>6, <1>7, FS_CardinalityType, FS_Subset
<1>12. Cardinality((Active(l) \cup U) \ D) =
         Cardinality(Active(l)) + Cardinality(U) - Cardinality(D)
  BY <1>6, <1>7, AddAndRemove
<1> HIDE DEF U, D
<1> QED
  BY <1>5, <1>8, <1>9, <1>10, <1>11, <1>12

\* fork(): the child is counted at level 0, where it is, as it becomes
\* RUNNABLE, or missed there from then on.
LEMMA ForkReadyMissing ==
  ASSUME TypeOK, Control, ForkCounts, NEW c \in CPU, ForkReady(c)
  PROVE  IF ForkWindow
         THEN Missing' = Missing + 1 /\ ninlevel' = ninlevel
         ELSE Missing' = Missing /\ ninlevel' = [ninlevel EXCEPT ![0] = @ + 1]
<1> DEFINE p == cur[c]
           n == np[p]
<1>1. /\ spc[c] = "run" /\ kpc[p] = "copy" /\ drift' = drift
      /\ IF ForkWindow
         THEN /\ kpc' = [kpc EXCEPT ![p] = "count", ![n] = "user"]
              /\ ninlevel' = ninlevel
         ELSE /\ kpc' = [kpc EXCEPT ![p] = "user", ![n] = "user"]
              /\ ninlevel' = [ninlevel EXCEPT ![0] = @ + 1]
  BY DEF ForkReady, Running
<1>2. p \in Slot /\ n \in Slot /\ state[n] = "EMBRYO" /\ state[p] = "RUNNING"
  BY <1>1, OnThisCpu DEF Control, ForkInv
<1>3. n # p /\ kpc[n] = "user" /\ kpc \in [Slot -> {"user", "copy", "count", "store", "sleep", "wait"}]
  BY <1>2, ControlTypes DEF ForkCounts
<1> HIDE DEF p, n
<1>4. CASE ~ForkWindow
  BY <1>1, <1>2, <1>3, <1>4, MissingSame
<1>5. CASE ForkWindow
  <2>1. InFork' = InFork \cup {p} /\ p \notin InFork
    BY <1>1, <1>2, <1>3, <1>5 DEF InFork
  <2>2. IsFiniteSet(InFork) /\ Cardinality(InFork) \in Nat /\ drift \in Int
    BY SlotsAreFinite DEF InFork, TypeOK
  <2>3. Cardinality(InFork \cup {p}) = Cardinality(InFork) + 1
    BY <2>1, <2>2, FS_AddElement
  <2>4. Missing' = Missing + 1
    BY <1>1, <2>1, <2>2, <2>3 DEF Missing
  <2> QED
    BY <1>1, <1>5, <2>4
<1> QED
  BY <1>4, <1>5

LEMMA ForkReadyAccounting ==
  ASSUME TypeOK, Control, ForkCounts, Accounting, NEW c \in CPU, ForkReady(c)
  PROVE  Accounting'
<1> DEFINE n == np[cur[c]]
<1>1. /\ spc[c] = "run" /\ kpc[cur[c]] = "copy"
      /\ state' = [state EXCEPT ![n] = "RUNNABLE"]
      /\ level' = level
  BY DEF ForkReady, Running
<1>2. n \in Slot /\ state[n] = "EMBRYO" /\ level[n] = 0
  BY <1>1, OnThisCpu DEF Control, ForkInv, ForkCounts
<1> HIDE DEF n
<1>3. 0 \in Level
  BY ConstantAssumption DEF Level
<1> SUFFICES ASSUME NEW l \in Level
             PROVE  ninlevel'[l] + Uncounted(l)' = Cardinality(Active(l)')
  BY DEF Accounting
<1>4. /\ ninlevel[l] + Uncounted(l) = Cardinality(Active(l))
      /\ IsFiniteSet(Active(l)) /\ Cardinality(Active(l)) \in Nat
      /\ ninlevel \in [Level -> Int] /\ Missing \in Int
  BY SlotsAreFinite, MissingType DEF Accounting, Active, TypeOK
<1>5. CASE l = 0
  <2>1. Active(l)' = Active(l) \cup {n} /\ n \notin Active(l)
    BY <1>1, <1>2, <1>5, ControlTypes DEF Active
  <2>2. Cardinality(Active(l) \cup {n}) = Cardinality(Active(l)) + 1
    BY <1>4, <2>1, FS_AddElement
  <2>3. Uncounted(l) = Missing /\ Uncounted(l)' = Missing'
    BY <1>5 DEF Uncounted
  <2>4. ninlevel'[l] + Missing' = ninlevel[l] + Missing + 1
    BY <1>3, <1>4, <1>5, ForkReadyMissing
  <2> QED
    BY <1>4, <2>1, <2>2, <2>3, <2>4
<1>6. CASE l # 0
  <2>1. Active(l)' = Active(l)
    BY <1>1, <1>2, <1>6, ControlTypes DEF Active
  <2>2. Uncounted(l) = 0 /\ Uncounted(l)' = 0
    BY <1>6 DEF Uncounted
  <2>3. ninlevel'[l] = ninlevel[l]
    BY <1>4, <1>6, ForkReadyMissing
  <2> QED
    BY <1>4, <2>1, <2>2, <2>3
<1> QED
  BY <1>5, <1>6

\* fork() stores the number it has loaded, plus one for its child, which is
\* missed no longer; what was counted in between is.
LEMMA ForkStoreMissing ==
  ASSUME TypeOK, Control, NEW c \in CPU, ForkStore(c)
  PROVE  ninlevel'[0] + Missing' = ninlevel[0] + Missing
<1> DEFINE p == cur[c]
<1>1. /\ spc[c] = "run" /\ kpc[p] = "store" /\ kpc' = [kpc EXCEPT ![p] = "user"]
      /\ ninlevel' = [ninlevel EXCEPT ![0] = loaded[p] + 1]
      /\ drift' = drift + loaded[p] - ninlevel[0]
  BY DEF ForkStore, Running
<1>2. /\ p \in Slot /\ ninlevel \in [Level -> Int] /\ loaded[p] \in Int
      /\ drift \in Int /\ 0 \in Level /\ ninlevel[0] \in Int
      /\ kpc \in [Slot -> {"user", "copy", "count", "store", "sleep", "wait"}]
  <2>1. p \in Slot
    BY <1>1, OnThisCpu
  <2>2. 0 \in Level
    BY ConstantAssumption DEF Level
  <2> QED
    BY <2>1, <2>2 DEF TypeOK
<1> HIDE DEF p
<1>3. InFork' = InFork \ {p} /\ p \in InFork
  BY <1>1, <1>2 DEF InFork
<1>4. IsFiniteSet(InFork) /\ Cardinality(InFork) \in Nat
  BY SlotsAreFinite DEF InFork
<1>5. Cardinality(InFork \ {p}) = Cardinality(InFork) - 1
  BY <1>3, <1>4, FS_RemoveElement
<1>6. ninlevel'[0] = loaded[p] + 1
  BY <1>1, <1>2
<1> QED
  BY <1>1, <1>2, <1>3, <1>4, <1>5, <1>6 DEF Missing

LEMMA ForkStoreAccounting ==
  ASSUME TypeOK, Control, Accounting, NEW c \in CPU, ForkStore(c)
  PROVE  Accounting'
<1> SUFFICES ASSUME NEW l \in Level
             PROVE  ninlevel'[l] + Uncounted(l)' = Cardinality(Active(l)')
  BY DEF Accounting
<1>1. Active(l)' = Active(l)
  BY DEF ForkStore, proc, Active
<1>2. ninlevel[l] + Uncounted(l) = Cardinality(Active(l))
  BY DEF Accounting
<1>3. CASE l = 0
  BY <1>1, <1>2, <1>3, ForkStoreMissing DEF Uncounted
<1>4. CASE l # 0
  <2>1. ninlevel'[l] = ninlevel[l]
    BY <1>4 DEF ForkStore, TypeOK
  <2> QED
    BY <1>1, <1>2, <1>4, <2>1 DEF Uncounted
<1> QED
  BY <1>3, <1>4

\* No other system call changes what is missed.
LEMMA SyscallMissing ==
  ASSUME TypeOK, Control, ForkCounts, NEW c \in CPU,
         \/ ForkAlloc(c) \/ ForkFails(c) \/ ForkLoad(c) \/ Exit(c)
         \/ WaitScan(c) \/ Sleep(c) \/ SleepReturns(c) \/ Kill(c)
  PROVE  Missing' = Missing
<1> USE DEF Running, Calls
<1>1. CASE Exit(c) \/ Kill(c)
  BY <1>1, MissingSame DEF Exit, Kill, call
<1>2. CASE ForkAlloc(c)
  <2>1. kpc[cur[c]] = "user" /\ kpc' = [kpc EXCEPT ![cur[c]] = "copy"] /\ drift' = drift
    BY <1>2 DEF ForkAlloc
  <2> QED
    BY <2>1, ControlTypes, MissingSame
<1>3. CASE ForkFails(c)
  <2>1. kpc[cur[c]] = "copy" /\ kpc' = [kpc EXCEPT ![cur[c]] = "user"] /\ drift' = drift
    BY <1>3 DEF ForkFails
  <2> QED
    BY <2>1, ControlTypes, MissingSame
<1>4. CASE ForkLoad(c)
  <2>1. kpc[cur[c]] = "count" /\ kpc' = [kpc EXCEPT ![cur[c]] = "store"] /\ drift' = drift
    BY <1>4 DEF ForkLoad
  <2> QED
    BY <2>1, ControlTypes, MissingSame
<1>5. CASE WaitScan(c)
  <2>1. /\ kpc[cur[c]] \in {"user", "wait"} /\ drift' = drift
        /\ \E k \in {"user", "wait"} : kpc' = [kpc EXCEPT ![cur[c]] = k]
    BY <1>5 DEF WaitScan
  <2> QED
    BY <2>1, ControlTypes, MissingSame
<1>6. CASE Sleep(c)
  <2>1. kpc[cur[c]] \in {"user", "sleep"} /\ kpc' = [kpc EXCEPT ![cur[c]] = "sleep"] /\ drift' = drift
    BY <1>6 DEF Sleep
  <2> QED
    BY <2>1, ControlTypes, MissingSame
<1>7. CASE SleepReturns(c)
  <2>1. kpc[cur[c]] = "sleep" /\ kpc' = [kpc EXCEPT ![cur[c]] = "user"] /\ drift' = drift
    BY <1>7 DEF SleepReturns
  <2> QED
    BY <2>1, ControlTypes, MissingSame
<1> QED
  BY <1>1, <1>2, <1>3, <1>4, <1>5, <1>6, <1>7

LEMMA ExitAccounting ==
  ASSUME TypeOK, Control, Accounting, Missing' = Missing, NEW c \in CPU, Exit(c)
  PROVE  Accounting'
<1> DEFINE p == cur[c]
           woken == Woken({q \in Slot : q \in Called(p) /\ chan[q] = "wait"})
<1>1. /\ spc[c] \in {"run", "tick"}
      /\ state' = [q \in Slot |-> CASE q = p -> "ZOMBIE"
                                    [] q \in woken -> "RUNNABLE"
                                    [] OTHER -> state[q]]
      /\ level' = [level EXCEPT ![p] = 0]
      /\ ninlevel' = Counted(woken, {p})
  BY DEF Exit, Running, Enter, Leave
<1>2. p \in Slot /\ state[p] = "RUNNING"
  BY <1>1, OnThisCpu
<1>3. woken \in SUBSET Slot /\ \A q \in woken : state[q] = "SLEEPING"
  BY DEF Woken
<1> HIDE DEF p, woken
<1>4. \A q \in Slot : Counts(q)' <=> q \in woken \/ (Counts(q) /\ q \notin {p})
  BY <1>1, <1>2, <1>3 DEF Counts
<1>5. \A q \in Slot : Counts(q)' => level'[q] = level[q]
  BY <1>1, <1>2, <1>3, <1>4 DEF TypeOK, Counts
<1> QED
  BY <1>1, <1>2, <1>3, <1>4, <1>5, AccountingKept DEF Counts

\* A process that goes to sleep is counted out.
LEMMA BlockAccounting ==
  ASSUME TypeOK, Control, Accounting, Missing' = Missing,
         NEW c \in CPU, spc[c] = "run",
         state' = [state EXCEPT ![cur[c]] = "SLEEPING"], level' = level,
         ninlevel' = Counted({}, Leave({cur[c]}))
  PROVE  Accounting'
<1>1. cur[c] \in Slot /\ state[cur[c]] = "RUNNING"
  BY OnThisCpu
<1>2. \A q \in Slot : Counts(q)' <=> q \in {} \/ (Counts(q) /\ q \notin {cur[c]})
  BY <1>1, ControlTypes DEF Counts
<1> QED
  BY <1>1, <1>2, AccountingKept DEF Counts, Leave

\* Processes that are woken are counted in.
LEMMA WakeAccounting ==
  ASSUME TypeOK, Accounting, Missing' = Missing, NEW S \in SUBSET Slot,
         state' = [q \in Slot |-> IF q \in Woken(S) THEN "RUNNABLE" ELSE state[q]],
         ninlevel' = Counted(Enter(Woken(S)), {}), level' = level
  PROVE  Accounting'
<1>1. Woken(S) \in SUBSET Slot /\ \A q \in Woken(S) : ~Counts(q)
  BY DEF Woken, Counts
<1>2. \A q \in Slot : Counts(q)' <=> q \in Woken(S) \/ (Counts(q) /\ q \notin {})
  BY <1>1 DEF Counts
<1> QED
  BY <1>1, <1>2, AccountingKept DEF Enter

LEMMA WakeTicksAccounting ==
  ASSUME TypeOK, Accounting, Missing' = Missing, NEW c \in CPU, WakeTicks(c),
         level' = level
  PROVE  Accounting'
<1>1. CASE c = 0
  BY <1>1, WakeAccounting DEF WakeTicks
<1>2. CASE c # 0
  BY <1>2, AccountingSame DEF WakeTicks, Counts
<1> QED
  BY <1>1, <1>2

LEMMA SyscallAccounting ==
  ASSUME TypeOK, Control, ForkCounts, Accounting,
         NEW c \in CPU, Syscall(c)
  PROVE  Accounting'
<1>1. CASE ForkAlloc(c)
  <2> DEFINE free == {p \in Slot : state[p] = "UNUSED"}
  <2>1. free \in SUBSET Nat /\ free # {}
    BY <1>1, ConstantAssumption DEF ForkAlloc, Slot
  <2>2. PICK n \in Slot :
          /\ state[n] = "UNUSED"
          /\ state' = [state EXCEPT ![n] = "EMBRYO"]
          /\ level' = [level EXCEPT ![n] = 0]
          /\ ninlevel' = ninlevel
    <3>1. Min(free) \in free
      BY <2>1, MinProperties
    <3> QED
      BY <1>1, <3>1 DEF ForkAlloc
  <2>3. \A q \in Slot : Counts(q)' => q # n
    BY <2>2, ControlTypes DEF Counts
  <2> QED
    BY <1>1, <2>2, <2>3, ControlTypes, SyscallMissing, AccountingSame DEF Counts, TypeOK
<1>2. CASE ForkFails(c)
  <2>1. /\ spc[c] = "run" /\ kpc[cur[c]] = "copy"
        /\ state' = [state EXCEPT ![np[cur[c]]] = "UNUSED"]
        /\ UNCHANGED <<level, ninlevel>>
    BY <1>2 DEF ForkFails, Running
  <2>2. state[np[cur[c]]] = "EMBRYO"
    BY <2>1, OnThisCpu DEF Control, ForkInv
  <2> QED
    BY <1>2, <2>1, <2>2, ControlTypes, SyscallMissing, AccountingSame DEF Counts
<1>3. CASE ForkReady(c)
  BY <1>3, ForkReadyAccounting
<1>4. CASE ForkLoad(c)
  BY <1>4, SyscallMissing, AccountingSame DEF ForkLoad, Counts, proc
<1>10. CASE ForkStore(c)
  BY <1>10, ForkStoreAccounting
<1>5. CASE Exit(c)
  BY <1>5, SyscallMissing, ExitAccounting
<1>6. CASE WaitScan(c)
  <2> DEFINE p == cur[c]
             kids == {q \in Slot : parent[q] = p}
             zombie == {q \in kids : state[q] = "ZOMBIE"}
  <2>1. spc[c] = "run" /\ level' = level
    BY <1>6 DEF WaitScan, Calls, Running
  <2>2. CASE zombie # {}
    <3>1. Min(zombie) \in zombie
      <4>1. zombie \in SUBSET Nat
        BY ConstantAssumption DEF Slot
      <4> QED
        BY <2>2, <4>1, MinProperties
    <3>2. PICK z \in Slot : /\ state[z] = "ZOMBIE" /\ ninlevel' = ninlevel
                            /\ state' = [state EXCEPT ![z] = "UNUSED"]
      BY <1>6, <2>2, <3>1 DEF WaitScan
    <3> QED
      BY <1>6, <2>1, <3>2, ControlTypes, SyscallMissing, AccountingSame DEF Counts
  <2>3. CASE UNCHANGED <<state, ninlevel>>
    BY <1>6, <2>1, <2>3, SyscallMissing, AccountingSame DEF Counts
  <2>4. CASE /\ state' = [state EXCEPT ![p] = "SLEEPING"]
             /\ ninlevel' = Counted({}, Leave({p}))
    BY <1>6, <2>1, <2>4, SyscallMissing, BlockAccounting
  <2> QED
    BY <1>6, <2>2, <2>3, <2>4 DEF WaitScan
<1>7. CASE Sleep(c)
  BY <1>7, SyscallMissing, BlockAccounting DEF Sleep, Calls, Running
<1>8. CASE SleepReturns(c)
  BY <1>8, SyscallMissing, AccountingSame DEF SleepReturns, Counts, proc
<1>9. CASE Kill(c)
  <2>1. PICK q \in Slot :
          /\ state' = [state EXCEPT ![q] = IF @ = "SLEEPING" THEN "RUNNABLE" ELSE @]
          /\ ninlevel' = Counted(Enter(Woken({q})), {})
          /\ level' = level
    BY <1>9 DEF Kill
  <2>2. state' = [r \in Slot |-> IF r \in Woken({q}) THEN "RUNNABLE" ELSE state[r]]
    BY <2>1, ControlTypes DEF Woken
  <2>3. {q} \in SUBSET Slot
    OBVIOUS
  <2> HIDE DEF Kill
  <2> QED
    BY <1>9, <2>1, <2>2, <2>3, SyscallMissing, WakeAccounting
<1> QED
  BY <1>1, <1>2, <1>3, <1>4, <1>5, <1>6, <1>7, <1>8, <1>9, <1>10 DEF Syscall, ForkStep

LEMMA StepAccounting ==
  ASSUME TypeOK, Control, ForkCounts, Accounting, [Next]_vars
  PROVE  Accounting'
<1> USE DEF proc, call, sched
<1>0. UNCHANGED <<kpc, drift>> => Missing' = Missing
  BY MissingSame
<1>1. ASSUME NEW c \in CPU, SchedStep(c) PROVE Accounting'
  <2>0. Missing' = Missing
    BY <1>0, <1>1 DEF SchedStep, Acquire, EndOfTable, Rescan, OtherLevel,
                      Dispatch, Switch
  <2>1. CASE Dispatch(c)
    BY <2>0, <2>1, DispatchAccounting
  <2>2. CASE UNCHANGED <<state, level, ninlevel>>
    BY <2>0, <2>2, AccountingSame DEF Counts
  <2> QED
    BY <1>1, <2>1, <2>2
       DEF SchedStep, Acquire, EndOfTable, Rescan, OtherLevel, Switch
<1>2. ASSUME NEW c \in CPU, Timer(c) \/ TimerIdle(c) PROVE Accounting'
  BY <1>0, <1>2, WakeTicksAccounting DEF Timer, TimerIdle
<1>3. ASSUME NEW c \in CPU, TickCheck(c) PROVE Accounting'
  <2>1. CASE Boost
    BY <1>0, <1>3, <2>1, BoostAccounting DEF TickCheck
  <2>2. CASE UNCHANGED <<level, used, snap, ninlevel>>
    BY <1>0, <1>3, <2>2, AccountingSame DEF TickCheck, Counts
  <2> QED
    BY <1>3, <2>1, <2>2 DEF TickCheck
<1>4. ASSUME NEW c \in CPU, Yield(c) PROVE Accounting'
  <2>1. cur[c] \in Slot /\ state[cur[c]] = "RUNNING"
    BY <1>4, OnThisCpu DEF Yield
  <2> QED
    BY <1>0, <1>4, <2>1, ControlTypes, AccountingSame DEF Yield, Counts
<1>5. CASE UNCHANGED vars
  BY <1>0, <1>5, AccountingSame DEF vars, Counts
<1> QED
  BY <1>1, <1>2, <1>3, <1>4, <1>5, SyscallAccounting DEF Next

LEMMA StepForkCounts ==
  ASSUME TypeOK, Control, ForkCounts, [Next]_vars
  PROVE  ForkCounts'
<1> USE DEF proc, call, sched
<1> DEFINE Lives(p) == state[p] \in {"SLEEPING", "RUNNABLE", "RUNNING"}
           Calling(p) == kpc'[p] # "user" => state'[p] \in {"SLEEPING", "RUNNABLE", "RUNNING"}
           Young(p) == state'[p] = "EMBRYO" =>
                         level'[p] = 0 \/ (state[p] = "EMBRYO" /\ level'[p] = level[p])
<1>1. ASSUME \A p \in Slot : Calling(p), \A p \in Slot : Young(p)
      PROVE  ForkCounts'
  BY <1>1 DEF ForkCounts
<1>0. ASSUME \A p \in Slot : kpc'[p] # "user" => kpc[p] # "user",
             \A p \in Slot : kpc[p] # "user" /\ Lives(p) =>
               state'[p] \in {"SLEEPING", "RUNNABLE", "RUNNING"}
      PROVE  \A p \in Slot : Calling(p)
  BY <1>0 DEF ForkCounts
<1>2. CASE UNCHANGED <<kpc, state, level>>
  BY <1>2 DEF ForkCounts
<1>3. ASSUME NEW c \in CPU, Dispatch(c) PROVE ForkCounts'
  <2>1. PICK p \in Slot : /\ state' = [state EXCEPT ![p] = "RUNNING"]
                          /\ \A q \in Slot \ {p} : level'[q] = level[q]
                          /\ kpc' = kpc
    <3>1. Min(Ready(c)) \in Slot
      BY <1>3, NextReady DEF Dispatch
    <3> QED
      BY <1>3, <3>1 DEF Dispatch, TypeOK
  <2>2. \A q \in Slot : Young(q)
    BY <2>1, ControlTypes
  <2>3. \A q \in Slot : Calling(q)
    BY <1>0, <2>1, ControlTypes
  <2> QED
    BY <1>1, <2>2, <2>3
<1>4. ASSUME NEW c \in CPU, SchedStep(c) PROVE ForkCounts'
  BY <1>2, <1>3, <1>4
     DEF SchedStep, Acquire, EndOfTable, Rescan, OtherLevel, Switch
<1>5. ASSUME NEW c \in CPU, ForkAlloc(c) PROVE ForkCounts'
  <2>1. spc[c] = "run" /\ kpc' = [kpc EXCEPT ![cur[c]] = "copy"]
    BY <1>5 DEF ForkAlloc, Calls, Running
  <2>2. cur[c] \in Slot /\ state[cur[c]] = "RUNNING"
    BY <2>1, OnThisCpu
  <2>3. PICK n \in Slot : /\ state[n] = "UNUSED"
                          /\ state' = [state EXCEPT ![n] = "EMBRYO"]
                          /\ level' = [level EXCEPT ![n] = 0]
    <3> DEFINE free == {p \in Slot : state[p] = "UNUSED"}
    <3>1. free \in SUBSET Nat /\ free # {}
      BY <1>5, ConstantAssumption DEF ForkAlloc, Slot
    <3>2. Min(free) \in free
      BY <3>1, MinProperties
    <3> QED
      BY <1>5, <3>2 DEF ForkAlloc
  <2>4. \A q \in Slot : Young(q)
    BY <2>3, ControlTypes DEF TypeOK
  <2>5. \A q \in Slot : Calling(q)
    BY <2>1, <2>2, <2>3, ControlTypes DEF ForkCounts
  <2> QED
    BY <1>1, <2>4, <2>5
<1>6. ASSUME NEW c \in CPU, ForkFails(c) \/ ForkReady(c) PROVE ForkCounts'
  <2>1. /\ spc[c] = "run" /\ kpc[cur[c]] = "copy" /\ level' = level
        /\ \E k \in {"UNUSED", "RUNNABLE"} : state' = [state EXCEPT ![np[cur[c]]] = k]
    BY <1>6 DEF ForkFails, ForkReady, Running
  <2>2. /\ cur[c] \in Slot /\ state[cur[c]] = "RUNNING"
        /\ np[cur[c]] \in Slot /\ state[np[cur[c]]] = "EMBRYO"
    BY <2>1, OnThisCpu DEF Control, ForkInv
  <2>3. \A q \in Slot \ {cur[c]} : kpc'[q] # "user" => kpc[q] # "user"
    BY <1>6, <2>2, ControlTypes DEF ForkFails, ForkReady
  <2>4. \A q \in Slot : Young(q)
    BY <2>1, <2>2, ControlTypes
  <2>5. \A q \in Slot : Calling(q)
    BY <2>1, <2>2, <2>3, ControlTypes DEF ForkCounts
  <2> QED
    BY <1>1, <2>4, <2>5
<1>7. ASSUME NEW c \in CPU, ForkLoad(c) \/ ForkStore(c) PROVE ForkCounts'
  <2>1. /\ UNCHANGED <<state, level>> /\ kpc[cur[c]] # "user"
        /\ \E k \in {"store", "user"} : kpc' = [kpc EXCEPT ![cur[c]] = k]
    BY <1>7 DEF ForkLoad, ForkStore, Running
  <2> QED
    BY <2>1, ControlTypes DEF ForkCounts
<1>8. ASSUME NEW c \in CPU, Exit(c) PROVE ForkCounts'
  <2> DEFINE p == cur[c]
             woken == Woken({q \in Slot : q \in Called(p) /\ chan[q] = "wait"})
  <2>1. /\ kpc[p] = "user" /\ kpc' = kpc
        /\ state' = [q \in Slot |-> CASE q = p -> "ZOMBIE"
                                      [] q \in woken -> "RUNNABLE"
                                      [] OTHER -> state[q]]
        /\ level' = [level EXCEPT ![p] = 0]
    BY <1>8 DEF Exit, Running
  <2> HIDE DEF p, woken
  <2>2. \A q \in Slot : Young(q)
    BY <2>1 DEF TypeOK
  <2>3. \A q \in Slot : Calling(q)
    BY <2>1 DEF ForkCounts
  <2> QED
    BY <1>1, <2>2, <2>3
<1>9. ASSUME NEW c \in CPU, Sleep(c) \/ SleepReturns(c) PROVE ForkCounts'
  <2>1. /\ spc[c] = "run" /\ level' = level
        /\ \E k \in {"sleep", "user"} : kpc' = [kpc EXCEPT ![cur[c]] = k]
        /\ state' = state \/ state' = [state EXCEPT ![cur[c]] = "SLEEPING"]
    BY <1>9 DEF Sleep, SleepReturns, Calls, Running
  <2>2. cur[c] \in Slot /\ state[cur[c]] = "RUNNING"
    BY <2>1, OnThisCpu
  <2>3. \A q \in Slot : Young(q)
    BY <2>1, ControlTypes
  <2>4. \A q \in Slot : Calling(q)
    BY <2>1, <2>2, ControlTypes DEF ForkCounts
  <2> QED
    BY <1>1, <2>3, <2>4
<1>13. ASSUME NEW c \in CPU, WaitScan(c) PROVE ForkCounts'
  <2> DEFINE p == cur[c]
             kids == {q \in Slot : parent[q] = p}
             zombie == {q \in kids : state[q] = "ZOMBIE"}
  <2>1. /\ spc[c] = "run" /\ level' = level
        /\ \E k \in {"wait", "user"} : kpc' = [kpc EXCEPT ![p] = k]
    BY <1>13 DEF WaitScan, Calls, Running
  <2>2. p \in Slot /\ state[p] = "RUNNING"
    BY <2>1, OnThisCpu
  <2>3. zombie # {} => Min(zombie) \in zombie
    <3>1. zombie \in SUBSET Nat
      BY ConstantAssumption DEF Slot
    <3> QED
      BY <3>1, MinProperties
  <2>4. \/ \E z \in Slot : state[z] = "ZOMBIE" /\ state' = [state EXCEPT ![z] = "UNUSED"]
        \/ state' = state
        \/ state' = [state EXCEPT ![p] = "SLEEPING"]
    BY <1>13, <2>3 DEF WaitScan
  <2> HIDE DEF p, kids, zombie
  <2>5. \A q \in Slot : Young(q)
    BY <2>1, <2>2, <2>4, ControlTypes
  <2>6. \A q \in Slot : Calling(q)
    BY <2>1, <2>2, <2>4, ControlTypes DEF ForkCounts
  <2> QED
    BY <1>1, <2>5, <2>6
<1>10. ASSUME NEW c \in CPU, Kill(c) \/ Timer(c) \/ TimerIdle(c) PROVE ForkCounts'
  <2>1. level' = level /\ kpc' = kpc
    BY <1>10 DEF Kill, Timer, TimerIdle
  <2>2. \A q \in Slot : \/ state'[q] = state[q]
                        \/ state[q] = "SLEEPING" /\ state'[q] = "RUNNABLE"
    BY <1>10, ControlTypes DEF Kill, Timer, TimerIdle, WakeTicks, Woken
  <2> QED
    BY <2>1, <2>2 DEF ForkCounts
<1>11. ASSUME NEW c \in CPU, TickCheck(c) PROVE ForkCounts'
  <2>1. ASSUME Boost
        PROVE  \A q \in Slot : state[q] = "EMBRYO" => level'[q] = level[q]
    BY <2>1 DEF Boost, Starved
  <2> QED
    BY <1>11, <2>1 DEF TickCheck, ForkCounts
<1>12. ASSUME NEW c \in CPU, Yield(c) PROVE ForkCounts'
  BY <1>12, ControlTypes DEF Yield, ForkCounts
<1> QED
  BY <1>2, <1>4, <1>5, <1>6, <1>7, <1>8, <1>9, <1>10, <1>11, <1>12, <1>13
     DEF Next, Syscall, ForkStep, vars

LEMMA InitAccounting == Init => ForkCounts /\ Accounting
<1> SUFFICES ASSUME Init PROVE ForkCounts /\ Accounting
  OBVIOUS
<1>1. Initproc \in Slot
  BY ControlTypes, InitType
<1>2. ForkCounts
  BY DEF Init, ForkCounts
<1>4. ASSUME NEW l \in Level PROVE Uncounted(l) = 0
  <2>1. InFork = {} /\ drift = 0
    BY DEF Init, InFork
  <2> QED
    BY <2>1, FS_EmptySet DEF Uncounted, Missing
<1>3. ASSUME NEW l \in Level PROVE ninlevel[l] = Cardinality(Active(l))
  <2>1. CASE l = 0
    <3>1. Active(l) = {Initproc}
      BY <1>1, <2>1 DEF Init, Active
    <3> QED
      BY <2>1, <3>1, FS_Singleton DEF Init
  <2>2. CASE l # 0
    <3>1. Active(l) = {}
      BY <2>2 DEF Init, Active
    <3> QED
      BY <2>2, <3>1, FS_EmptySet DEF Init
  <2> QED
    BY <2>1, <2>2
<1>5. \A l \in Level : Cardinality(Active(l)) \in Nat
  BY SlotsAreFinite DEF Active
<1> QED
  BY <1>2, <1>3, <1>4, <1>5 DEF Accounting

\* The counters scheduler() trusts differ from the process table, after every
\* step of every CPU, with any number of them, by no more than what fork() has
\* not yet counted or has overwritten at level 0 (proc.c:209-211, which runs
\* without ptable.lock): the demotion, the boost, sleep, both wakeups, kill and
\* exit each adjust them by hand and are right.
THEOREM AccountingHolds == Spec => []Accounting
<1>1. Init => AInv
  BY InitIInv, InitAccounting DEF AInv
<1>2. AInv /\ [Next]_vars => AInv'
  BY StepIInv, StepForkCounts, StepAccounting DEF AInv, IInv
<1>3. AInv => Accounting
  BY DEF AInv
<1> QED
  BY <1>1, <1>2, <1>3, PTL DEF Spec

------------------------------------------------------------------------------
(* What the counters are for. *)

\* scheduler() finds a level that is no lower than any with a count.
LEMMA HighestIsLeast ==
  \A l \in Level : ninlevel[l] # 0 => HighestLevel <= l
<1> DEFINE S == {l \in Level : ninlevel[l] # 0} \cup {NLAYER - 1}
<1>1. S \in SUBSET Nat /\ S # {}
  BY ConstantAssumption DEF Level
<1>2. \A n \in S : Min(S) <= n
  BY <1>1, MinProperties
<1> QED
  BY <1>2 DEF HighestLevel

\* It is no lower than the level of any process that is RUNNABLE or RUNNING,
\* unless all that are at level 0 are missed there.
LEMMA HighestOfAll ==
  ASSUME TypeOK, Accounting, NEW p \in Slot, Counts(p),
         level[p] = 0 => Missing # Cardinality(Active(0))
  PROVE  HighestLevel <= level[p]
<1>1. level[p] \in Level
  BY DEF TypeOK
<1>2. p \in Active(level[p])
  BY DEF Active, Counts
<1>3. IsFiniteSet(Active(level[p])) /\ Cardinality(Active(level[p])) \in Nat
  BY SlotsAreFinite DEF Active
<1>4. Cardinality(Active(level[p])) # 0
  BY <1>2, <1>3, FS_EmptySet
<1>5. /\ ninlevel[level[p]] + Uncounted(level[p]) = Cardinality(Active(level[p]))
      /\ Uncounted(level[p]) \in Int /\ ninlevel[level[p]] \in Int
  BY <1>1, MissingType DEF Accounting
<1>6. Uncounted(level[p]) # Cardinality(Active(level[p]))
  BY <1>4 DEF Uncounted
<1>7. ninlevel[level[p]] # 0
  BY <1>3, <1>5, <1>6
<1> QED
  BY <1>1, <1>7, HighestIsLeast

\* Only scheduler() makes a process RUNNING, the one it has found.
LEMMA StartsRunning ==
  ASSUME TypeOK, Control, Next, NEW p \in Slot,
         state[p] # "RUNNING", state'[p] = "RUNNING"
  PROVE  \E c \in CPU : Dispatch(c) /\ p = Min(Ready(c))
<1> USE DEF proc, call, sched
<1>1. ASSUME NEW c \in CPU, SchedStep(c)
      PROVE  Dispatch(c) /\ p = Min(Ready(c))
  <2>1. Dispatch(c)
    BY <1>1 DEF SchedStep, Acquire, EndOfTable, Rescan, OtherLevel, Switch
  <2> QED
    BY <2>1, ControlTypes DEF Dispatch
<1>2. ASSUME NEW c \in CPU, Exit(c) PROVE FALSE
  BY <1>2 DEF Exit
<1>3. ASSUME NEW c \in CPU,
             ForkAlloc(c) \/ ForkFails(c) \/ ForkReady(c) \/ ForkLoad(c) \/ ForkStore(c)
      PROVE  FALSE
  BY <1>3, ControlTypes
     DEF ForkAlloc, ForkFails, ForkReady, ForkLoad, ForkStore
<1>4. ASSUME NEW c \in CPU, WaitScan(c) \/ Sleep(c) \/ SleepReturns(c) \/ Yield(c)
      PROVE  FALSE
  BY <1>4, ControlTypes DEF WaitScan, Sleep, SleepReturns, Yield
<1>5. ASSUME NEW c \in CPU, Kill(c) \/ Timer(c) \/ TimerIdle(c) \/ TickCheck(c)
      PROVE  FALSE
  BY <1>5, ControlTypes DEF Kill, Timer, TimerIdle, TickCheck, WakeTicks
<1> QED
  BY <1>1, <1>2, <1>3, <1>4, <1>5 DEF Next, Syscall, ForkStep

\* No RUNNABLE process is at a higher level than the one scheduler() switches
\* to (proc.c:360-420), unless fork() has hidden all those of level 0 from it.
THEOREM HighestFirstHolds == Spec => HighestFirst
<1>1. ASSUME AInv, [Next]_vars
      PROVE  [\A p \in Slot :
                state[p] = "RUNNABLE" /\ state'[p] = "RUNNING" =>
                  \A q \in Slot : state[q] = "RUNNABLE" =>
                    \/ level[p] <= level[q]
                    \/ level[q] = 0 /\ Missing = Cardinality(Active(0))]_vars
  <2> SUFFICES ASSUME Next, NEW p \in Slot,
                      state[p] = "RUNNABLE", state'[p] = "RUNNING",
                      NEW q \in Slot, state[q] = "RUNNABLE",
                      level[q] = 0 => Missing # Cardinality(Active(0))
               PROVE  level[p] <= level[q]
    BY <1>1
  <2>1. TypeOK /\ Control /\ Accounting
    BY <1>1 DEF AInv, IInv
  <2>2. PICK c \in CPU : Dispatch(c) /\ p = Min(Ready(c))
    BY <2>1, StartsRunning
  <2>3. level[p] = HighestLevel
    BY <2>2 DEF Dispatch
  <2> QED
    BY <2>1, <2>3, HighestOfAll DEF Counts
<1>2. Init => AInv
  BY InitIInv, InitAccounting DEF AInv
<1>3. AInv /\ [Next]_vars => AInv'
  BY StepIInv, StepForkCounts, StepAccounting DEF AInv, IInv
<1> QED
  BY <1>1, <1>2, <1>3, PTL DEF Spec, HighestFirst

------------------------------------------------------------------------------
(* The process whose slice a CPU has begun. *)

\* HeldInv for one CPU, and what scheduler() knows about it in its pass.
HeldScan(d) ==
  \/ idx[d] = held[d] /\ ii[d] = level[held[d]]
  \/ /\ HighestLevel < level[held[d]]
     /\ idx[d] <= held[d] \/ ii[d] < NLAYER - 1
HeldAt(d) ==
  held[d] # None =>
    \/ /\ spc[d] \in {"run", "tick", "yield", "switch"}
       /\ cur[d] = held[d] /\ idx[d] = held[d] /\ ii[d] = level[held[d]]
       /\ spc[d] = "switch" => state[held[d]] = "RUNNABLE"
    \/ spc[d] = "scan" /\ state[held[d]] = "RUNNABLE" /\ HeldScan(d)

LEMMA HeldEverywhere == HeldInv <=> \A d \in CPU : HeldAt(d)
BY DEF HeldInv, HeldAt, HeldScan

\* What a step of one CPU leaves to the others.
Frame(c) ==
  /\ \A d \in CPU \ {c} : /\ spc'[d] = spc[d] /\ cur'[d] = cur[d]
                          /\ idx'[d] = idx[d] /\ ii'[d] = ii[d]
                          /\ held'[d] = held[d]
  /\ \A p \in Slot : state[p] = "RUNNING" /\ p # cur[c] => level'[p] = level[p]
  /\ \A p \in Slot : lock \notin {None, c} /\ state[p] = "RUNNABLE" =>
       state'[p] = "RUNNABLE" /\ level'[p] = level[p]
  /\ lock \notin {None, c} => HighestLevel' <= HighestLevel

LEMMA FrameKeeps ==
  ASSUME TypeOK, Control, HeldInv, HighestLevel' \in Level, NEW c \in CPU, Frame(c),
         NEW d \in CPU \ {c}
  PROVE  HeldAt(d)'
<1> SUFFICES ASSUME held[d] # None
             PROVE  HeldAt(d)'
  BY DEF HeldAt, Frame
<1>1. HeldAt(d) /\ held[d] \in Slot
  BY HeldEverywhere DEF TypeOK
<1>2. /\ spc'[d] = spc[d] /\ cur'[d] = cur[d] /\ idx'[d] = idx[d]
      /\ ii'[d] = ii[d] /\ held'[d] = held[d]
  BY DEF Frame
<1>3. CASE spc[d] \in {"run", "tick", "yield"}
  <2>1. cur[d] = held[d] /\ state[held[d]] = "RUNNING" /\ held[d] # cur[c]
    BY <1>1, <1>3, OnThisCpu, ControlTypes DEF HeldAt
  <2>2. level'[held[d]] = level[held[d]]
    BY <1>1, <2>1 DEF Frame
  <2> QED
    BY <1>1, <1>2, <1>3, <2>2 DEF HeldAt
<1>4. CASE spc[d] \in {"scan", "switch"}
  <2>1. lock \notin {None, c}
    BY <1>4, ControlTypes DEF Control, LockInv, Holds
  <2>2. state[held[d]] = "RUNNABLE"
    BY <1>1, <1>4 DEF HeldAt
  <2>3. /\ state'[held[d]] = "RUNNABLE" /\ level'[held[d]] = level[held[d]]
        /\ HighestLevel' <= HighestLevel
    BY <1>1, <2>1, <2>2 DEF Frame
  <2>4. CASE spc[d] = "switch"
    BY <1>1, <1>2, <2>3, <2>4 DEF HeldAt
  <2>5. CASE spc[d] = "scan"
    <3>1. /\ HighestLevel \in Int /\ HighestLevel' \in Int
          /\ level[held[d]] \in Int
      BY <1>1, HighestLevelType, ConstantAssumption DEF TypeOK, Level
    <3>2. HeldScan(d)
      BY <1>1, <2>5 DEF HeldAt
    <3>3. HeldScan(d)'
      BY <1>2, <2>3, <3>1, <3>2 DEF HeldScan
    <3> QED
      BY <1>2, <2>3, <2>5, <3>3 DEF HeldAt
  <2> QED
    BY <1>4, <2>4, <2>5
<1> QED
  BY <1>1, <1>3, <1>4 DEF HeldAt

\* A step of the process on the CPU, or of a CPU without one outside the pass.
LEMMA StayingKeeps ==
  ASSUME TypeOK, Control, HeldInv, NEW c \in CPU,
         spc[c] \in {"idle", "run", "tick", "yield"},
         UNCHANGED <<ii, idx, cur>>,
         held'[c] \in {None, held[c]},
         spc[c] # "idle" => spc'[c] \in {"run", "tick", "yield", "switch"},
         held'[c] # None /\ spc[c] # "idle" =>
           /\ level'[cur[c]] = level[cur[c]]
           /\ spc'[c] = "switch" => state'[cur[c]] = "RUNNABLE"
  PROVE  HeldAt(c)'
<1>1. HeldAt(c)
  BY HeldEverywhere
<1> QED
  BY <1>1 DEF HeldAt

LEMMA SchedulerHeld ==
  ASSUME AInv, HeldExact, HeldInv, NEW c \in CPU, SchedStep(c)
  PROVE  HeldAt(c)'
<1> USE DEF proc, call
<1>0. TypeOK /\ Control /\ Accounting
  BY DEF AInv, IInv
<1>1. HeldAt(c)
  BY HeldEverywhere
<1>2. CASE Acquire(c)
  BY <1>1, <1>2 DEF Acquire, HeldAt
<1>3. CASE Switch(c)
  <2>1. /\ spc[c] = "switch" /\ spc'[c] = "scan"
        /\ UNCHANGED <<state, level, ii, idx, held>>
    BY <1>0, <1>3 DEF Switch, TypeOK
  <2> QED
    BY <1>1, <2>1 DEF HeldAt, HeldScan
<1>4. CASE Dispatch(c)
  <2> DEFINE p == Min(Ready(c))
             l == level[p]
             over == (used[p][l] + 1) % Slice[l] = 0
  <2>1. p \in Slot /\ p # None
    BY <1>0, <1>4, NextReady, ControlTypes DEF Dispatch
  <2>2. /\ l = ii[c]
        /\ level' = [level EXCEPT ![p] = IF over /\ MovesDown(l) THEN l + 1 ELSE l]
        /\ idx' = [idx EXCEPT ![c] = NextSlot(p, over)]
        /\ held' = [held EXCEPT ![c] = IF over \/ Missing # 0 THEN None ELSE p]
        /\ cur' = [cur EXCEPT ![c] = p]
        /\ spc' = [spc EXCEPT ![c] = "run"]
        /\ ii' = ii
    BY <1>4 DEF Dispatch
  <2> HIDE DEF p, over
  <2>3. CASE over \/ Missing # 0
    BY <1>0, <2>2, <2>3 DEF HeldAt, TypeOK
  <2>4. CASE ~over /\ Missing = 0
    <3>1. /\ held'[c] = p /\ cur'[c] = p /\ idx'[c] = p /\ spc'[c] = "run"
          /\ ii'[c] = level'[p]
      BY <1>0, <2>1, <2>2, <2>4 DEF NextSlot, TypeOK
    <3> QED
      BY <3>1 DEF HeldAt
  <2> QED
    BY <2>3, <2>4
<1>5. CASE EndOfTable(c) \/ Rescan(c) \/ OtherLevel(c)
  <2>1. /\ spc[c] = "scan"
        /\ UNCHANGED <<state, level, ninlevel, held>>
    BY <1>5 DEF EndOfTable, Rescan, OtherLevel
  <2> SUFFICES ASSUME held[c] # None
               PROVE  HeldAt(c)'
    BY <2>1 DEF HeldAt
  <2>9. Missing = 0
    BY DEF HeldExact
  <2> DEFINE h == held[c]
  <2>2. h \in Slot /\ state[h] = "RUNNABLE" /\ HeldScan(c)
    BY <1>0, <1>1, <2>1 DEF HeldAt, TypeOK
  <2>3. /\ level[h] \in Level /\ HighestLevel \in Level
        /\ idx[c] \in 0 .. NPROC /\ ii[c] \in Level
        /\ HighestLevel <= level[h]
    <3>1. /\ level[h] \in Level /\ HighestLevel \in Level
          /\ idx[c] \in 0 .. NPROC /\ ii[c] \in Level
      BY <1>0, <2>2, HighestLevelType DEF TypeOK
    <3>2. Counts(h)
      BY <2>2 DEF Counts
    <3>3. level[h] = 0 => Missing # Cardinality(Active(0))
      <4>1. level[h] = 0 => h \in Active(0)
        BY <2>2, <3>2 DEF Active, Counts
      <4>2. IsFiniteSet(Active(0))
        BY SlotsAreFinite DEF Active
      <4> QED
        BY <2>9, <4>1, <4>2, FS_EmptySet
    <3> HIDE DEF h
    <3>4. HighestLevel <= level[h]
      BY <1>0, <2>2, <3>2, <3>3, HighestOfAll
    <3> QED
      BY <3>1, <3>4
  <2>4. HighestLevel' = HighestLevel
    BY <2>1 DEF HighestLevel
  <2>5. idx[c] <= h => h \in Ready(c)
    BY <2>2, <2>3, ConstantAssumption DEF Ready, Slot
  <2> HIDE DEF h
  <2>6. CASE EndOfTable(c)
    <3>1. Ready(c) = {}
      BY <2>6 DEF EndOfTable
    <3>2. HighestLevel < level[h] /\ ii[c] < NLAYER - 1
      BY <2>2, <2>3, <2>5, <3>1, ConstantAssumption DEF HeldScan, h, Slot
    <3>3. ii[c] + 1 < NLAYER
      BY <2>3, <3>2, ConstantAssumption DEF Level
    <3>4. spc' = spc /\ idx'[c] = 0
      BY <1>0, <2>6, <3>3 DEF EndOfTable, TypeOK
    <3>5. HeldScan(c)'
      BY <2>1, <2>2, <2>4, <3>2, <3>4, ConstantAssumption DEF HeldScan, h, Slot
    <3> QED
      BY <2>1, <2>2, <3>4, <3>5 DEF HeldAt, h
  <2>7. CASE Rescan(c)
    <3>1. ii[c] # HighestLevel /\ spc' = spc /\ idx'[c] = 0
      BY <1>0, <2>7 DEF Rescan, TypeOK
    <3>2. HighestLevel < level[h]
      BY <2>2, <2>3, <3>1, ConstantAssumption DEF HeldScan, h, Level
    <3>3. HeldScan(c)'
      BY <2>1, <2>2, <2>4, <3>1, <3>2, ConstantAssumption DEF HeldScan, h, Slot
    <3> QED
      BY <2>1, <2>2, <3>1, <3>3 DEF HeldAt, h
  <2>8. CASE OtherLevel(c)
    <3>1. /\ Ready(c) # {} /\ ii[c] = HighestLevel
          /\ level[Min(Ready(c))] # ii[c] /\ spc' = spc /\ ii' = ii
      BY <2>8 DEF OtherLevel
    <3>2. /\ Min(Ready(c)) \in Slot /\ Min(Ready(c)) >= idx[c]
          /\ \A p \in Ready(c) : Min(Ready(c)) <= p
      BY <1>0, <3>1, NextReady
    <3>3. HighestLevel < level[h]
      <4>1. CASE idx[c] = h /\ ii[c] = level[h]
        <5>1. Min(Ready(c)) = h
          BY <2>2, <2>3, <2>5, <3>2, <4>1, ConstantAssumption DEF Slot
        <5> QED
          BY <3>1, <4>1, <5>1
      <4> QED
        BY <2>2, <4>1 DEF HeldScan, h
    <3>4. ii[c] < NLAYER - 1
      BY <2>3, <3>1, <3>3, ConstantAssumption DEF Level
    <3>5. HeldScan(c)'
      BY <2>1, <2>4, <3>1, <3>3, <3>4 DEF HeldScan, h
    <3> QED
      BY <2>1, <2>2, <3>1, <3>5 DEF HeldAt, h
  <2> QED
    BY <1>5, <2>6, <2>7, <2>8
<1> QED
  BY <1>2, <1>3, <1>4, <1>5 DEF SchedStep

\* The level scheduler() finds depends on the counters only.
LEMMA SameHighest == ninlevel' = ninlevel => HighestLevel' = HighestLevel
BY DEF HighestLevel

LEMMA SchedulerFrame ==
  ASSUME TypeOK, Control, NEW c \in CPU, SchedStep(c)
  PROVE  Frame(c)
<1> USE DEF proc, call
<1>1. lock \in {None, c}
  <2>1. spc[c] \in {"scan", "switch"} \/ lock = None
    BY DEF SchedStep, Acquire, EndOfTable, Rescan, OtherLevel, Dispatch,
       Switch, LockFree
  <2> QED
    BY <2>1 DEF Control, LockInv, Holds
<1>2. \A d \in CPU \ {c} : /\ spc'[d] = spc[d] /\ cur'[d] = cur[d]
                           /\ idx'[d] = idx[d] /\ ii'[d] = ii[d]
                           /\ held'[d] = held[d]
  <2>1. CASE Dispatch(c)
    BY <2>1 DEF Dispatch, TypeOK
  <2> QED
    BY <2>1 DEF SchedStep, Acquire, EndOfTable, Rescan, OtherLevel, Switch, TypeOK
<1>3. \A p \in Slot : state[p] = "RUNNING" => level'[p] = level[p]
  <2>1. CASE Dispatch(c)
    <3>1. state[Min(Ready(c))] = "RUNNABLE" /\ Min(Ready(c)) \in Slot
      BY <2>1, NextReady DEF Dispatch
    <3> QED
      BY <2>1, <3>1 DEF Dispatch, TypeOK
  <2> QED
    BY <2>1 DEF SchedStep, Acquire, EndOfTable, Rescan, OtherLevel, Switch
<1> QED
  BY <1>1, <1>2, <1>3 DEF Frame

\* The CPU's own part of a step outside scheduler().
Outside(c) ==
  /\ UNCHANGED <<ii, idx, cur>>
  /\ \A d \in CPU \ {c} : spc'[d] = spc[d] /\ held'[d] = held[d]
  /\ held'[c] \in {None, held[c]}
  /\ spc[c] # "idle" => spc'[c] \in {"run", "tick", "yield", "switch"}

LEMMA LeavesCpu ==
  ASSUME TypeOK, NEW c \in CPU, ToScheduler(c)
  PROVE  /\ Outside(c) /\ spc'[c] = "switch"
         /\ held'[c] # None => state'[cur[c]] = "RUNNABLE"
BY DEF ToScheduler, Outside, TypeOK

LEMMA KeepsCpu ==
  ASSUME TypeOK, NEW c \in CPU, UNCHANGED <<spc, ii, idx, cur, held>>,
         spc[c] \in {"idle", "run", "tick", "yield"}
  PROVE  Outside(c)
BY DEF Outside

\* Both parts together for a step outside scheduler().
LEMMA OutsideHeld ==
  ASSUME TypeOK, Control, HeldInv, HighestLevel' \in Level, NEW c \in CPU,
         spc[c] \in {"idle", "run", "tick", "yield"}, Outside(c),
         \A p \in Slot : state[p] = "RUNNING" /\ p # cur[c] => level'[p] = level[p],
         \A p \in Slot : lock \notin {None, c} /\ state[p] = "RUNNABLE" =>
           state'[p] = "RUNNABLE" /\ level'[p] = level[p],
         lock \notin {None, c} => HighestLevel' <= HighestLevel,
         held'[c] # None /\ spc[c] # "idle" =>
           /\ level'[cur[c]] = level[cur[c]]
           /\ spc'[c] = "switch" => state'[cur[c]] = "RUNNABLE"
  PROVE  \A d \in CPU : HeldAt(d)'
<1>1. Frame(c)
  BY DEF Frame, Outside
<1>2. \A d \in CPU \ {c} : HeldAt(d)'
  BY <1>1, FrameKeeps
<1>3. HeldAt(c)'
  BY StayingKeeps DEF Outside
<1> QED
  BY <1>2, <1>3

LEMMA SyscallHeld ==
  ASSUME AInv, HeldExact, HeldInv, HighestLevel' \in Level, NEW c \in CPU, Syscall(c)
  PROVE  \A d \in CPU : HeldAt(d)'
<1> USE DEF proc, call, sched
<1>0. TypeOK /\ Control /\ ForkCounts /\ Accounting
  BY DEF AInv, IInv
<1>1. spc[c] \in {"run", "tick"}
  BY DEF Syscall, ForkAlloc, ForkFails, ForkStep, ForkReady, ForkLoad,
     ForkStore, Exit, WaitScan, Sleep, SleepReturns, Kill, Calls, Running
<1>2. cur[c] \in Slot /\ state[cur[c]] = "RUNNING"
  BY <1>0, <1>1, OnThisCpu
<1>3. CASE ForkAlloc(c)
  <2> DEFINE free == {p \in Slot : state[p] = "UNUSED"}
  <2>1. Min(free) \in free
    <3>1. free \in SUBSET Nat /\ free # {}
      BY <1>3, ConstantAssumption DEF ForkAlloc, Slot
    <3> QED
      BY <3>1, MinProperties
  <2>2. \A p \in Slot : state[p] = "RUNNING" => level'[p] = level[p]
    BY <1>0, <1>3, <2>1 DEF ForkAlloc, TypeOK
  <2>3. lock = None /\ UNCHANGED <<spc, ii, idx, cur, held>>
    BY <1>3 DEF ForkAlloc, Calls
  <2> QED
    BY <1>0, <1>1, <1>2, <2>2, <2>3, KeepsCpu, OutsideHeld
<1>4. CASE ForkFails(c) \/ (ForkReady(c) /\ ~ForkWindow)
  <2> SUFFICES ASSUME NEW e \in CPU, held[e] # None
               PROVE  \A d \in CPU : HeldAt(d)'
    BY <1>4 DEF ForkFails, ForkReady, HeldAt
  <2> DEFINE n == np[cur[c]]
  <2>1. state[n] = "EMBRYO" /\ n \in Slot
    BY <1>0, <1>2, <1>4 DEF ForkFails, ForkReady, Running, Control, ForkInv
  <2>2. \A p \in Slot : state[p] = "RUNNABLE" => state'[p] = "RUNNABLE"
    BY <1>0, <1>4, <2>1, ControlTypes DEF ForkFails, ForkReady
  <2>3. UNCHANGED <<level, spc, ii, idx, cur, held, lock>>
    BY <1>4 DEF ForkFails, ForkReady
  <2>4. HighestLevel' <= HighestLevel
    <3>1. CASE ForkFails(c)
      BY <3>1, SameHighest, HighestLevelType, ConstantAssumption
         DEF ForkFails, Level
    <3>2. CASE ForkReady(c) /\ ~ForkWindow
      <4>1. 0 \in Level
        BY ConstantAssumption DEF Level
      <4>2. ninlevel[0] \in Nat
        <5>1. Uncounted(0) = 0
          BY DEF HeldExact, Uncounted
        <5>2. ninlevel[0] + 0 = Cardinality(Active(0)) /\ ninlevel[0] \in Int
          BY <1>0, <4>1, <5>1 DEF Accounting, TypeOK
        <5>3. Cardinality(Active(0)) \in Nat
          BY SlotsAreFinite DEF Active
        <5> QED
          BY <5>2, <5>3
      <4>3. ninlevel'[0] = ninlevel[0] + 1
        BY <1>0, <3>2, <4>1 DEF ForkReady, TypeOK
      <4>4. ninlevel'[0] # 0
        BY <4>2, <4>3
      <4>5. (\A l \in Level : ninlevel[l] # 0 => HighestLevel <= l)'
        BY HighestIsLeast, PTL
      <4>6. HighestLevel' <= 0
        BY <4>1, <4>4, <4>5
      <4> QED
        BY <4>6, HighestLevelType, ConstantAssumption DEF Level
    <3> QED
      BY <1>4, <3>1, <3>2
  <2>5. spc[c] = "run"
    BY <1>4 DEF ForkFails, ForkReady, Running
  <2> HIDE DEF n
  <2> QED
    BY <1>0, <1>2, <2>2, <2>3, <2>4, <2>5, KeepsCpu, OutsideHeld
<1>5. CASE (ForkReady(c) /\ ForkWindow) \/ ForkStore(c)
  BY <1>5 DEF ForkReady, ForkStore, HeldAt
<1>6. CASE Exit(c)
  <2>1. ToScheduler(c) /\ lock = None /\ state'[cur[c]] = "ZOMBIE"
    <3>1. ToScheduler(c) /\ lock = None
      BY <1>6 DEF Exit
    <3>2. state'[cur[c]] = "ZOMBIE"
      <4> DEFINE woken == Woken({q \in Slot : q \in Called(cur[c]) /\ chan[q] = "wait"})
      <4>1. state' = [q \in Slot |-> CASE q = cur[c] -> "ZOMBIE"
                                       [] q \in woken -> "RUNNABLE"
                                       [] OTHER -> state[q]]
        BY <1>6 DEF Exit
      <4>2. cur[c] \notin woken
        BY <1>2 DEF Woken
      <4> HIDE DEF woken
      <4> QED
        BY <1>2, <4>1, <4>2
    <3> QED
      BY <3>1, <3>2
  <2>2. Outside(c) /\ held'[c] = None
    BY <1>0, <2>1, LeavesCpu
  <2>3. \A p \in Slot : p # cur[c] => level'[p] = level[p]
    BY <1>0, <1>6 DEF Exit, TypeOK
  <2> QED
    BY <1>0, <1>1, <2>1, <2>2, <2>3, OutsideHeld
<1>7. CASE WaitScan(c) \/ Sleep(c)
  <2>1. /\ spc[c] = "run" /\ level' = level
        /\ lock \in {None, c}
        /\ ToScheduler(c) \/ UNCHANGED <<spc, ii, idx, cur, held>>
    BY <1>7 DEF WaitScan, Sleep, Calls, Running
  <2>2. Outside(c) /\ (held'[c] # None /\ spc'[c] = "switch" => state'[cur[c]] = "RUNNABLE")
    BY <1>0, <2>1, LeavesCpu, KeepsCpu
  <2> QED
    BY <1>0, <2>1, <2>2, OutsideHeld
<1>8. CASE SleepReturns(c) \/ ForkLoad(c)
  <2>1. /\ spc[c] = "run"
        /\ UNCHANGED <<state, level, ninlevel, lock, spc, ii, idx, cur, held>>
    BY <1>8 DEF SleepReturns, ForkLoad, Running
  <2>2. HighestLevel' <= HighestLevel
    BY <2>1, SameHighest, HighestLevelType, ConstantAssumption DEF Level
  <2> QED
    BY <1>0, <2>1, <2>2, KeepsCpu, OutsideHeld
<1>9. CASE Kill(c)
  <2>1. /\ spc[c] = "run" /\ lock = None
        /\ UNCHANGED <<level, spc, ii, idx, cur, held>>
    BY <1>9 DEF Kill, Calls, Running
  <2> QED
    BY <1>0, <2>1, KeepsCpu, OutsideHeld
<1> QED
  BY <1>3, <1>4, <1>5, <1>6, <1>7, <1>8, <1>9 DEF Syscall, ForkStep

LEMMA ClockHeld ==
  ASSUME AInv, HeldInv, HighestLevel' \in Level, NEW c \in CPU,
         Timer(c) \/ TimerIdle(c) \/ TickCheck(c) \/ Yield(c)
  PROVE  \A d \in CPU : HeldAt(d)'
<1> USE DEF proc, call, sched
<1>0. TypeOK /\ Control
  BY DEF AInv, IInv
<1>1. CASE Timer(c) \/ TimerIdle(c)
  <2>1. /\ spc[c] \in {"run", "idle"}
        /\ UNCHANGED <<level, lock, ii, idx, cur, held>>
        /\ spc' = spc \/ (spc[c] = "run" /\ spc' = [spc EXCEPT ![c] = "tick"])
    BY <1>1 DEF Timer, TimerIdle
  <2>2. Outside(c) /\ spc'[c] # "switch"
    BY <1>0, <2>1 DEF Outside, TypeOK
  <2>3. lock = None \/ UNCHANGED <<state, ninlevel>>
    BY <1>1 DEF Timer, TimerIdle, WakeTicks
  <2>4. lock # None => HighestLevel' <= HighestLevel
    BY <2>3, SameHighest, HighestLevelType, ConstantAssumption DEF Level
  <2> QED
    BY <1>0, <2>1, <2>2, <2>3, <2>4, OutsideHeld
<1>2. CASE TickCheck(c)
  <2>1. /\ spc[c] = "tick" /\ spc' = [spc EXCEPT ![c] = "yield"]
        /\ UNCHANGED <<state, lock, ii, idx, cur, held>>
    BY <1>2 DEF TickCheck
  <2>2. Outside(c) /\ spc'[c] # "switch"
    BY <1>0, <2>1 DEF Outside, TypeOK
  <2>3. \/ lock = None /\ Boost
        \/ UNCHANGED <<level, ninlevel>>
    BY <1>2 DEF TickCheck
  <2>4. \A p \in Slot : state[p] # "RUNNABLE" => level'[p] = level[p]
    BY <2>3 DEF Boost, Starved
  <2>5. lock # None => HighestLevel' <= HighestLevel
    BY <2>3, SameHighest, HighestLevelType, ConstantAssumption DEF Level
  <2>6. cur[c] \in Slot /\ state[cur[c]] = "RUNNING"
    BY <1>0, <2>1, OnThisCpu
  <2> QED
    BY <1>0, <2>1, <2>2, <2>3, <2>4, <2>5, <2>6, OutsideHeld
<1>3. CASE Yield(c)
  <2>1. /\ spc[c] = "yield" /\ lock = None /\ level' = level
        /\ ToScheduler(c)
    BY <1>3 DEF Yield
  <2> QED
    BY <1>0, <2>1, LeavesCpu, OutsideHeld
<1> QED
  BY <1>1, <1>2, <1>3

LEMMA StepHeld ==
  ASSUME AInv, HeldExact, HeldInv, [Next]_vars
  PROVE  HeldInv'
<1>1. TypeOK /\ Control
  BY DEF AInv, IInv
<1>2. HighestLevel' \in Level
  <2>1. (HighestLevel \in Level)'
    BY HighestLevelType, PTL
  <2> QED
    BY <2>1
<1>3. (HeldInv <=> \A d \in CPU : HeldAt(d))'
  BY HeldEverywhere, PTL
<1>4. CASE UNCHANGED vars
  BY <1>4 DEF HeldInv, HighestLevel, vars, proc, call, sched
<1>5. ASSUME NEW c \in CPU, SchedStep(c)
      PROVE  \A d \in CPU : HeldAt(d)'
  BY <1>1, <1>2, <1>5, SchedulerHeld, SchedulerFrame, FrameKeeps
<1> QED
  BY <1>2, <1>3, <1>4, <1>5, SyscallHeld, ClockHeld DEF Next

\* A slice is begun and goes on only while nothing is missed.
LEMMA StepHeldExact ==
  ASSUME AInv, HeldExact, [Next]_vars
  PROVE  HeldExact'
<1> USE DEF proc, call, sched
<1>0. TypeOK /\ Control /\ ForkCounts
  BY DEF AInv, IInv
<1>1. ASSUME Missing' = Missing,
             \A d \in CPU : held'[d] # None => held[d] # None \/ Missing = 0
      PROVE  HeldExact'
  BY <1>1 DEF HeldExact
<1>2. UNCHANGED <<kpc, drift>> => Missing' = Missing
  BY MissingSame
<1>3. ASSUME NEW c \in CPU, SchedStep(c) PROVE HeldExact'
  <2>1. CASE Dispatch(c)
    BY <1>0, <1>1, <1>2, <2>1 DEF Dispatch, TypeOK
  <2> QED
    BY <1>1, <1>2, <1>3, <2>1
       DEF SchedStep, Acquire, EndOfTable, Rescan, OtherLevel, Switch
<1>4. ASSUME NEW c \in CPU, ToScheduler(c) \/ held' = held
      PROVE  \A d \in CPU : held'[d] # None => held[d] # None \/ Missing = 0
  BY <1>0, <1>4 DEF ToScheduler, TypeOK
<1>5. ASSUME NEW c \in CPU, Timer(c) \/ TimerIdle(c) \/ TickCheck(c) \/ Yield(c)
      PROVE  HeldExact'
  BY <1>1, <1>2, <1>4, <1>5 DEF Timer, TimerIdle, TickCheck, Yield
<1>6. ASSUME NEW c \in CPU,
             \/ ForkAlloc(c) \/ ForkFails(c) \/ ForkLoad(c) \/ Exit(c)
             \/ WaitScan(c) \/ Sleep(c) \/ SleepReturns(c) \/ Kill(c)
      PROVE  HeldExact'
  <2>1. ToScheduler(c) \/ held' = held
    BY <1>6 DEF ForkAlloc, ForkFails, ForkLoad, Exit, WaitScan, Sleep, SleepReturns, Kill
  <2>2. Missing' = Missing
    BY <1>0, <1>6, SyscallMissing
  <2> QED
    BY <1>1, <1>4, <2>1, <2>2
<1>7. ASSUME NEW c \in CPU, ForkReady(c) PROVE HeldExact'
  <2>1. CASE ForkWindow
    BY <1>7, <2>1 DEF ForkReady, HeldExact
  <2>2. CASE ~ForkWindow
    <3>1. Missing' = Missing
      BY <1>0, <1>7, <2>2, ForkReadyMissing
    <3> QED
      BY <1>1, <1>7, <2>2, <3>1 DEF ForkReady
  <2> QED
    BY <2>1, <2>2
<1>8. ASSUME NEW c \in CPU, ForkStore(c) PROVE HeldExact'
  BY <1>8 DEF ForkStore, HeldExact
<1>9. CASE UNCHANGED vars
  BY <1>1, <1>2, <1>9 DEF vars
<1> QED
  BY <1>3, <1>5, <1>6, <1>7, <1>8, <1>9 DEF Next, Syscall, ForkStep

\* A process preempted inside its slice is the next one its CPU runs, unless
\* one of a higher level has become ready or fork() has miscounted level 0
\* (proc.c:395-460), on any number of CPUs: between the two the CPU keeps
\* ptable.lock, its slot and its level.
THEOREM SliceHeldHolds == Spec => SliceHeld
<1>1. ASSUME SInv, [Next]_vars
      PROVE  [\A c \in CPU :
                cur[c] = None /\ cur'[c] # None /\ held[c] # None =>
                  cur'[c] = held[c] \/ level[cur'[c]] < level[held[c]]]_vars
  <2> SUFFICES ASSUME Next, NEW c \in CPU,
                      cur[c] = None, cur'[c] # None, held[c] # None
               PROVE  cur'[c] = held[c] \/ level[cur'[c]] < level[held[c]]
    BY <1>1
  <2>0. AInv /\ HeldInv /\ TypeOK /\ Control /\ Accounting
    BY <1>1 DEF SInv, AInv, IInv
  <2>1. Dispatch(c)
    <3>1. ASSUME NEW d \in CPU, SchedStep(d) PROVE Dispatch(c)
      <4>1. cur \in [CPU -> Slot \cup {None}]
        BY <2>0 DEF TypeOK
      <4>2. CASE Dispatch(d)
        BY <4>1, <4>2 DEF Dispatch
      <4>3. CASE Switch(d)
        BY <4>1, <4>3 DEF Switch
      <4>4. CASE Acquire(d) \/ EndOfTable(d) \/ Rescan(d) \/ OtherLevel(d)
        BY <4>4 DEF Acquire, EndOfTable, Rescan, OtherLevel
      <4> QED
        BY <3>1, <4>2, <4>3, <4>4 DEF SchedStep
    <3>2. ASSUME NEW d \in CPU, Syscall(d) PROVE FALSE
      BY <3>2 DEF Syscall, ForkAlloc, ForkFails, ForkStep, ForkReady, ForkLoad,
         ForkStore, Exit, WaitScan, Sleep, SleepReturns, Kill, ToScheduler, sched
    <3>3. ASSUME NEW d \in CPU,
                 Timer(d) \/ TimerIdle(d) \/ TickCheck(d) \/ Yield(d)
          PROVE  FALSE
      BY <3>3 DEF Timer, TimerIdle, TickCheck, Yield, ToScheduler, sched
    <3> QED
      BY <3>1, <3>2, <3>3 DEF Next
  <2> DEFINE p == Min(Ready(c))
  <2>2. /\ Ready(c) # {} /\ spc[c] = "scan" /\ cur'[c] = p
        /\ ii[c] = HighestLevel /\ level[p] = HighestLevel
    BY <2>0, <2>1 DEF Dispatch, TypeOK
  <2>3. p \in Slot /\ p >= idx[c] /\ \A q \in Ready(c) : p <= q
    BY <2>0, <2>2, NextReady
  <2>4. HeldScan(c) /\ state[held[c]] = "RUNNABLE" /\ held[c] \in Slot
    BY <2>0, <2>2, HeldEverywhere DEF HeldAt, TypeOK
  <2> HIDE DEF p
  <2>5. CASE idx[c] = held[c]
    <3>1. held[c] \in Ready(c)
      BY <2>4, <2>5, ConstantAssumption DEF Ready, Slot
    <3>2. p = held[c]
      BY <2>3, <2>4, <2>5, <3>1, ConstantAssumption DEF Slot
    <3> QED
      BY <2>2, <3>2
  <2>6. CASE HighestLevel < level[held[c]]
    BY <2>2, <2>6
  <2> QED
    BY <2>4, <2>5, <2>6 DEF HeldScan
<1>2. Init => SInv
  BY InitIInv, InitAccounting DEF SInv, AInv, HeldInv, HeldExact, Init
<1>3. SInv /\ [Next]_vars => SInv'
  BY StepIInv, StepForkCounts, StepAccounting, StepHeld, StepHeldExact DEF SInv, AInv, IInv
<1> QED
  BY <1>1, <1>2, <1>3, PTL DEF Spec, SliceHeld
=============================================================================
