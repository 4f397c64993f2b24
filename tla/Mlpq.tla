-------------------------------- MODULE Mlpq --------------------------------
(***************************************************************************)
(* The multi-level priority queue scheduler of projects/p2/p2b/xv6/xv6:    *)
(* the process table of kernel/proc.c, the per-level counters ninlevel     *)
(* that scheduler() trusts to find the highest non-empty level, the clock  *)
(* interrupt of kernel/trap.c with its starvation check, and the system    *)
(* calls that move a process between states (fork, exit, wait, sleep,      *)
(* kill).                                                                  *)
(*                                                                         *)
(* ptable.lock is held by a CPU over several steps only inside scheduler() *)
(* (and in wait() after a wakeup), so a system call's critical section is  *)
(* one step taken when the lock is free.  What a CPU does is in spc:       *)
(*   "idle"   between release and acquire in scheduler (proc.c:341, 344)   *)
(*   "scan"   holds the lock, at the inner loop with p = idx and level ii  *)
(*   "run"    a process runs, in user or kernel mode                       *)
(*   "tick"   in trap() on a clock interrupt, before the starvation check  *)
(*   "yield"  in trap(), about to call yield() (trap.c:130)                *)
(*   "switch" in sched(), lock held, still on the stack of the process     *)
(*            whose state is already RUNNABLE, SLEEPING or ZOMBIE          *)
(* and where a process is in its system call, also while it is off the     *)
(* CPU, is in kpc:                                                         *)
(*   "user"   in user mode                                                 *)
(*   "copy"   in fork(), the child allocated and not yet RUNNABLE          *)
(*   "count"  in fork(), the child RUNNABLE, before ninlevel[0]++ (211)    *)
(*   "store"  in fork(), ninlevel[0] loaded and not yet stored             *)
(*   "sleep"  in sys_sleep(), back from or inside sleep(&ticks)            *)
(*   "wait"   in wait(), back from or inside sleep(proc)                   *)
(*                                                                         *)
(* timeticks[l] only matters modulo the slice of level l, which is used,   *)
(* and in the comparison with laststate, which is snap: "same" while level *)
(* and ticks are those recorded; "moved" once the process has had a tick,  *)
(* for its level is then no smaller and its ticks larger than recorded     *)
(* until the next record (and from the start when level 0 was recorded: it *)
(* takes a tick to leave it); and "other" when the slot was given to a new *)
(* process since: the record is the old one's and may or may not be equal. *)
(***************************************************************************)
EXTENDS Integers, FiniteSets, FiniteSetsExt

CONSTANTS
  NPROC,       \* slots of the process table
  NLAYER,      \* levels, 0 the highest priority
  Slice,       \* mlpq_timeticks: clock ticks of a slice at each level
  Period,      \* clock ticks between two starvation checks (100, trap.c:121)
  CPU,         \* the CPUs, 0 the one that counts ticks
  ForkWindow,  \* may anything happen between the three accesses of
               \* fork()'s proc.c:209-211: the store of RUNNABLE, and the
               \* load and store that gcc -O0 makes of ninlevel[0]++ ?
  MaxDrift,    \* bound: fork() is not called once lost updates have taken
               \* ninlevel[0] further than this from the truth
  None         \* no process or no CPU

Slot  == 0 .. NPROC - 1
Level == 0 .. NLAYER - 1
Initproc == 0

ASSUME ConstantAssumption ==
  /\ NPROC \in Nat \ {0} /\ NLAYER \in Nat \ {0}
  /\ Slice \in [Level -> Nat \ {0}] /\ Period \in Nat \ {0}
  /\ 0 \in CPU /\ IsFiniteSet(CPU)
  /\ ForkWindow \in BOOLEAN /\ MaxDrift \in Nat
  /\ None \notin Slot \cup CPU

VARIABLES
  state, level, used, chan, killed, parent,  \* struct proc
  kpc, np, loaded,     \* a process's place in its system call and its locals
  snap,                \* laststate, compared with the process
  ninlevel,            \* the number of processes the code counts per level
  starve_clock,        \* trap.c's tick counter
  lock,                \* the CPU holding ptable.lock
  spc, ii, idx, cur,   \* each CPU: place, scheduler()'s ii and p, proc
  held,                \* (history) the process whose slice the CPU has begun
                       \* and not finished, as long as it has not blocked
                       \* and ninlevel[0] misses no process
  drift                \* (history) what the stores of fork() have added to
                       \* ninlevel[0] beyond their own 1: the updates lost

proc  == <<state, level, used, chan, killed, parent>>
call  == <<kpc, np, loaded, drift>>
sched == <<lock, spc, ii, idx, cur, held>>
vars  == <<proc, call, snap, ninlevel, starve_clock, sched>>
------------------------------------------------------------------------------
\* userinit() has made the first process; every CPU is about to scan.
Init ==
  /\ state = [p \in Slot |-> IF p = Initproc THEN "RUNNABLE" ELSE "UNUSED"]
  /\ level = [p \in Slot |-> 0]
  /\ used = [p \in Slot |-> [l \in Level |-> 0]]
  /\ chan = [p \in Slot |-> "none"]
  /\ killed = [p \in Slot |-> FALSE]
  /\ parent = [p \in Slot |-> None]
  /\ kpc = [p \in Slot |-> "user"]
  /\ np = [p \in Slot |-> None]
  /\ loaded = [p \in Slot |-> 0]
  /\ snap = [p \in Slot |-> IF p = Initproc THEN "moved" ELSE "other"]
  /\ ninlevel = [l \in Level |-> IF l = 0 THEN 1 ELSE 0]
  /\ starve_clock = 0
  /\ lock = None
  /\ spc = [c \in CPU |-> "idle"]
  /\ ii = [c \in CPU |-> 0]
  /\ idx = [c \in CPU |-> 0]
  /\ cur = [c \in CPU |-> None]
  /\ held = [c \in CPU |-> None]
  /\ drift = 0

\* ninlevel once the processes of `up` have been counted in at their level
\* and those of `down` counted out.
Counted(up, down) ==
  [l \in Level |-> ninlevel[l] + Cardinality({p \in up : level[p] = l})
                               - Cardinality({p \in down : level[p] = l})]

\* wakeup1: the sleepers of `S` become RUNNABLE ...
Woken(S) == {p \in S : state[p] = "SLEEPING"}
\* ... and are counted in; a process that blocks or exits is counted out.
EnterNoCount(S) == {}
Enter(S) == S
LeaveNoCount(S) == {}
Leave(S) == S

\* ninlevel scan of scheduler(): the first level that is not 0, else the last.
HighestLevel ==
  Min({l \in Level : ninlevel[l] # 0} \cup {NLAYER - 1})

\* The children fork() has made RUNNABLE and not counted, one for each process
\* inside it, and how many processes of level 0 its counter misses for that
\* and because updates were lost (or, below 0, counts though they are gone).
InFork == {p \in Slot : kpc[p] \in {"count", "store"}}
Missing == Cardinality(InFork) - drift

\* The next RUNNABLE slot of the inner loop.
Ready(c) == {p \in Slot : p >= idx[c] /\ state[p] = "RUNNABLE"}

\* scheduler() examines that slot next: the same one again while its slice
\* lasts (p--), and the one after it once the slice is used up.
NextSlotRoundRobin(p, over) == p + 1
NextSlot(p, over) == IF over THEN p + 1 ELSE p

\* Only the bottom level has nowhere to go down to.
MovesDownAlways(l) == TRUE
MovesDown(l) == l # NLAYER - 1
------------------------------------------------------------------------------
(* scheduler(), proc.c:339-476. *)

LockFreeAlways == TRUE
LockFree == lock = None

Acquire(c) ==
  /\ spc[c] = "idle" /\ LockFree
  /\ lock' = c
  /\ spc' = [spc EXCEPT ![c] = "scan"]
  /\ UNCHANGED <<proc, call, snap, ninlevel, starve_clock, ii, idx, cur, held>>

\* The inner loop ran off the table: next level, or release after the last
\* (and the next pass begins at the first level and slot).
EndOfTable(c) ==
  /\ spc[c] = "scan" /\ Ready(c) = {}
  /\ IF ii[c] + 1 < NLAYER
     THEN /\ ii' = [ii EXCEPT ![c] = ii[c] + 1]
          /\ idx' = [idx EXCEPT ![c] = 0]
          /\ UNCHANGED <<lock, spc>>
     ELSE /\ lock' = None
          /\ spc' = [spc EXCEPT ![c] = "idle"]
          /\ ii' = [ii EXCEPT ![c] = 0] /\ idx' = [idx EXCEPT ![c] = 0]
  /\ UNCHANGED <<proc, call, snap, ninlevel, starve_clock, cur, held>>

\* `ii != highestlevel`: start over at the highest level.
Rescan(c) ==
  /\ spc[c] = "scan" /\ Ready(c) # {}
  /\ ii[c] # HighestLevel
  /\ ii' = [ii EXCEPT ![c] = HighestLevel]
  /\ idx' = [idx EXCEPT ![c] = 0]
  /\ UNCHANGED <<proc, call, snap, ninlevel, starve_clock, lock, spc, cur, held>>

\* `p->level != ii`
OtherLevel(c) ==
  /\ spc[c] = "scan" /\ Ready(c) # {}
  /\ ii[c] = HighestLevel
  /\ level[Min(Ready(c))] # ii[c]
  /\ idx' = [idx EXCEPT ![c] = Min(Ready(c)) + 1]
  /\ UNCHANGED <<proc, call, snap, ninlevel, starve_clock, lock, spc, ii, cur,
                 held>>

\* Charge the process a tick, move it down if that ends its slice, switch to
\* it.  It releases the lock -- unless it is inside wait(), which goes on
\* under it.
Dispatch(c) ==
  /\ spc[c] = "scan" /\ Ready(c) # {}
  /\ LET p    == Min(Ready(c))
         l    == level[p]
         tick == (used[p][l] + 1) % Slice[l]
         over == tick = 0
         down == over /\ MovesDown(l)
     IN /\ ii[c] = HighestLevel /\ l = ii[c]
        /\ state' = [state EXCEPT ![p] = "RUNNING"]
        /\ used' = [used EXCEPT ![p][l] = tick]
        /\ snap' = [snap EXCEPT ![p] =
                      IF @ = "same" THEN "moved" ELSE @]
        /\ level' = [level EXCEPT ![p] = IF down THEN l + 1 ELSE l]
        /\ ninlevel' = [k \in Level |->
                          ninlevel[k] + (IF down /\ k = l + 1 THEN 1 ELSE 0)
                                      - (IF down /\ k = l THEN 1 ELSE 0)]
        /\ idx' = [idx EXCEPT ![c] = NextSlot(p, over)]
        /\ held' = [held EXCEPT ![c] = IF over \/ Missing # 0 THEN None ELSE p]
        /\ lock' = IF kpc[p] = "wait" THEN c ELSE None
        /\ cur' = [cur EXCEPT ![c] = p]
        /\ chan' = [chan EXCEPT ![p] = "none"]
        /\ spc' = [spc EXCEPT ![c] = "run"]
  /\ UNCHANGED <<killed, parent, call, starve_clock, ii>>

\* swtch() back into scheduler(): proc = 0.
Switch(c) ==
  /\ spc[c] = "switch"
  /\ spc' = [spc EXCEPT ![c] = "scan"]
  /\ cur' = [cur EXCEPT ![c] = None]
  /\ UNCHANGED <<proc, call, snap, ninlevel, starve_clock, lock, ii, idx, held>>

SchedStep(c) ==
  Acquire(c) \/ EndOfTable(c) \/ Rescan(c) \/ OtherLevel(c) \/ Dispatch(c)
    \/ Switch(c)
------------------------------------------------------------------------------
(* What the process running on CPU c does. *)

Running(c, k) == spc[c] = "run" /\ kpc[cur[c]] = k

\* User mode, about to make a system call: trap() would exit if killed.
Calls(c) == Running(c, "user") /\ ~killed[cur[c]] /\ lock = None

\* The process gives the CPU up holding the lock: sched().
ToScheduler(c) ==
  /\ lock' = c
  /\ spc' = [spc EXCEPT ![c] = "switch"]
  /\ held' = [held EXCEPT ![c] = IF state'[cur[c]] = "RUNNABLE" THEN @ ELSE None]
  /\ UNCHANGED <<ii, idx, cur>>

\* fork(): allocproc() takes the first UNUSED slot.
ForkAlloc(c) ==
  /\ Calls(c)
  /\ drift \in -MaxDrift .. MaxDrift
  /\ LET free == {p \in Slot : state[p] = "UNUSED"} IN
       /\ free # {}
       /\ np' = [np EXCEPT ![cur[c]] = Min(free)]
       /\ state' = [state EXCEPT ![Min(free)] = "EMBRYO"]
       /\ level' = [level EXCEPT ![Min(free)] = 0]
       /\ used' = [used EXCEPT ![Min(free)] = [l \in Level |-> 0]]
  /\ kpc' = [kpc EXCEPT ![cur[c]] = "copy"]
  /\ UNCHANGED <<chan, killed, parent, loaded, drift, snap, ninlevel, starve_clock,
                 sched>>

\* kalloc() or copyuvm() finds no memory.
ForkFails(c) ==
  /\ Running(c, "copy")
  /\ state' = [state EXCEPT ![np[cur[c]]] = "UNUSED"]
  /\ kpc' = [kpc EXCEPT ![cur[c]] = "user"]
  /\ np' = [np EXCEPT ![cur[c]] = None]
  /\ UNCHANGED <<level, used, chan, killed, parent, loaded, drift, snap, ninlevel,
                 starve_clock, sched>>

\* proc.c:197-211, without ptable.lock.
ForkReady(c) ==
  /\ Running(c, "copy")
  /\ LET p == cur[c]
         n == np[p]
     IN /\ parent' = [parent EXCEPT ![n] = p]
        /\ state' = [state EXCEPT ![n] = "RUNNABLE"]
        /\ IF ForkWindow
           THEN /\ kpc' = [kpc EXCEPT ![p] = "count", ![n] = "user"]
                /\ held' = [d \in CPU |-> None]
                /\ UNCHANGED <<ninlevel, np>>
           ELSE /\ kpc' = [kpc EXCEPT ![p] = "user", ![n] = "user"]
                /\ ninlevel' = [ninlevel EXCEPT ![0] = @ + 1]
                /\ np' = [np EXCEPT ![p] = None]
                /\ UNCHANGED held
  /\ UNCHANGED <<level, used, chan, killed, loaded, drift, snap, starve_clock,
                 lock, spc, ii, idx, cur>>

ForkLoad(c) ==
  /\ Running(c, "count")
  /\ loaded' = [loaded EXCEPT ![cur[c]] = ninlevel[0]]
  /\ kpc' = [kpc EXCEPT ![cur[c]] = "store"]
  /\ UNCHANGED <<proc, np, drift, snap, ninlevel, starve_clock, sched>>

ForkStore(c) ==
  /\ Running(c, "store")
  /\ ninlevel' = [ninlevel EXCEPT ![0] = loaded[cur[c]] + 1]
  /\ kpc' = [kpc EXCEPT ![cur[c]] = "user"]
  /\ np' = [np EXCEPT ![cur[c]] = None]
  /\ loaded' = [loaded EXCEPT ![cur[c]] = 0]
  /\ drift' = drift + loaded[cur[c]] - ninlevel[0]
  /\ held' = [d \in CPU |-> None]
  /\ UNCHANGED <<proc, snap, starve_clock, lock, spc, ii, idx, cur>>

\* The processes exit() wakes: the parent, and init when it inherits a zombie.
CalledNoParent(p) == {}
Called(p) ==
  {parent[p]} \cup
    (IF \E q \in Slot : parent[q] = p /\ state[q] = "ZOMBIE" THEN {Initproc} ELSE {})

\* exit(), by the system call or because trap() finds the process killed (in
\* a clock interrupt too, before the yield).  initproc would panic.  Nothing
\* reads a zombie's level and ticks, and allocproc() resets them: they are
\* reset here.
Exit(c) ==
  /\ \/ Running(c, "user")
     \/ spc[c] = "tick" /\ kpc[cur[c]] = "user" /\ killed[cur[c]]
  /\ lock = None /\ cur[c] # Initproc
  /\ LET p      == cur[c]
         orphan == {q \in Slot : parent[q] = p}
         woken  == Woken({q \in Slot : q \in Called(p) /\ chan[q] = "wait"})
     IN /\ state' = [q \in Slot |-> CASE q = p -> "ZOMBIE"
                                      [] q \in woken -> "RUNNABLE"
                                      [] OTHER -> state[q]]
        /\ parent' = [q \in Slot |-> IF q \in orphan THEN Initproc ELSE parent[q]]
        /\ ninlevel' = Counted(Enter(woken), Leave({p}))
        /\ level' = [level EXCEPT ![p] = 0]
        /\ used' = [used EXCEPT ![p] = [l \in Level |-> 0]]
        /\ snap' = [snap EXCEPT ![p] = "other"]
        /\ ToScheduler(c)
  /\ UNCHANGED <<chan, killed, call, starve_clock>>

\* wait(), from the start or back from its sleep.
WaitScan(c) ==
  /\ Calls(c) \/ (Running(c, "wait") /\ lock = c)
  /\ LET p      == cur[c]
         kids   == {q \in Slot : parent[q] = p}
         zombie == {q \in kids : state[q] = "ZOMBIE"}
     IN \/ /\ zombie # {}
           /\ state' = [state EXCEPT ![Min(zombie)] = "UNUSED"]
           /\ parent' = [parent EXCEPT ![Min(zombie)] = None]
           /\ killed' = [killed EXCEPT ![Min(zombie)] = FALSE]
           /\ kpc' = [kpc EXCEPT ![p] = "user"]
           /\ lock' = None
           /\ UNCHANGED <<chan, ninlevel, spc, ii, idx, cur, held>>
        \/ /\ zombie = {} /\ (kids = {} \/ killed[p])
           /\ kpc' = [kpc EXCEPT ![p] = "user"]
           /\ lock' = None
           /\ UNCHANGED <<state, chan, killed, parent, ninlevel, spc, ii, idx,
                          cur, held>>
        \/ /\ zombie = {} /\ kids # {} /\ ~killed[p]
           /\ state' = [state EXCEPT ![p] = "SLEEPING"]
           /\ chan' = [chan EXCEPT ![p] = "wait"]
           /\ ninlevel' = Counted({}, Leave({p}))
           /\ kpc' = [kpc EXCEPT ![p] = "wait"]
           /\ ToScheduler(c)
           /\ UNCHANGED <<killed, parent>>
  /\ UNCHANGED <<level, used, np, loaded, drift, snap, starve_clock>>

\* sys_sleep(): (again) too early, and sleep(&ticks).
Sleep(c) ==
  /\ Calls(c) \/ (Running(c, "sleep") /\ ~killed[cur[c]] /\ lock = None)
  /\ state' = [state EXCEPT ![cur[c]] = "SLEEPING"]
  /\ chan' = [chan EXCEPT ![cur[c]] = "ticks"]
  /\ ninlevel' = Counted({}, Leave({cur[c]}))
  /\ kpc' = [kpc EXCEPT ![cur[c]] = "sleep"]
  /\ ToScheduler(c)
  /\ UNCHANGED <<level, used, killed, parent, np, loaded, drift, snap, starve_clock>>

\* sys_sleep(): the time has come, or killed.
SleepReturns(c) ==
  /\ Running(c, "sleep")
  /\ kpc' = [kpc EXCEPT ![cur[c]] = "user"]
  /\ UNCHANGED <<proc, np, loaded, drift, snap, ninlevel, starve_clock, sched>>

\* kill() of a process other than init.  (On a zombie it has no effect: wait()
\* clears the flag.)
Kill(c) ==
  /\ Calls(c)
  /\ \E q \in Slot \ {Initproc} :
       /\ state[q] \notin {"UNUSED", "ZOMBIE"}
       /\ killed' = [killed EXCEPT ![q] = TRUE]
       /\ state' = [state EXCEPT ![q] = IF @ = "SLEEPING" THEN "RUNNABLE" ELSE @]
       /\ ninlevel' = Counted(Enter(Woken({q})), {})
  /\ UNCHANGED <<level, used, chan, parent, call, snap, starve_clock, sched>>

ForkStep(c) == ForkReady(c) \/ ForkLoad(c) \/ ForkStore(c)
Syscall(c) ==
  ForkAlloc(c) \/ ForkFails(c) \/ ForkStep(c) \/ Exit(c) \/ WaitScan(c)
    \/ Sleep(c) \/ SleepReturns(c) \/ Kill(c)
------------------------------------------------------------------------------
(* The clock interrupt, trap.c:54-62, 103-132. *)

\* wakeup(&ticks), by the CPU that counts.
WakeTicks(c) ==
  LET woken == Woken({q \in Slot : chan[q] = "ticks"}) IN
    IF c = 0
    THEN /\ lock = None
         /\ state' = [q \in Slot |-> IF q \in woken THEN "RUNNABLE" ELSE state[q]]
         /\ ninlevel' = Counted(Enter(woken), {})
    ELSE UNCHANGED <<state, ninlevel>>

\* Interrupts are off while the CPU holds the lock, so not inside wait().
Timer(c) ==
  /\ spc[c] = "run" /\ lock # c
  /\ WakeTicks(c)
  /\ spc' = [spc EXCEPT ![c] = "tick"]
  /\ UNCHANGED <<level, used, chan, killed, parent, call, snap, starve_clock,
                 lock, ii, idx, cur, held>>

\* With no process on the CPU the interrupt only wakes sleepers.
TimerIdle(c) ==
  /\ spc[c] = "idle" /\ c = 0
  /\ \E q \in Slot : state[q] = "SLEEPING" /\ chan[q] = "ticks"
  /\ WakeTicks(c)
  /\ UNCHANGED <<level, used, chan, killed, parent, call, snap, starve_clock,
                 sched>>

\* check_starve_and_boost: a RUNNABLE process below level 0 whose level and
\* ticks are those of the last check moves up one level.  `alike` are the
\* slots whose former process left a record equal to the new one's.
StarvedNever(alike) == {}
Starved(alike) ==
  {p \in Slot : /\ state[p] = "RUNNABLE" /\ level[p] # 0
                /\ snap[p] = "same" \/ p \in alike}

Boost ==
  \E alike \in SUBSET {p \in Slot : snap[p] = "other"} :
    LET up    == Starved(alike)
        ready == {p \in Slot : state[p] = "RUNNABLE"}
        lv    == [p \in Slot |-> IF p \in up THEN level[p] - 1 ELSE level[p]]
    IN /\ level' = lv
       /\ used' = [p \in Slot |-> IF p \in up
                                  THEN [used[p] EXCEPT ![lv[p]] = 0] ELSE used[p]]
       /\ ninlevel' = [l \in Level |->
                         ninlevel[l] + Cardinality({p \in up : lv[p] = l})
                                     - Cardinality({p \in up : level[p] = l})]
       /\ snap' = [p \in Slot |-> IF p \notin ready THEN snap[p]
                                  ELSE IF lv[p] = 0 THEN "moved" ELSE "same"]

TickCheck(c) ==
  /\ spc[c] = "tick"
  /\ ~(killed[cur[c]] /\ kpc[cur[c]] = "user")
  /\ starve_clock' = (starve_clock + 1) % Period
  /\ IF starve_clock + 1 = Period
     THEN lock = None /\ Boost
     ELSE UNCHANGED <<level, used, snap, ninlevel>>
  /\ spc' = [spc EXCEPT ![c] = "yield"]
  /\ UNCHANGED <<state, chan, killed, parent, call, lock, ii, idx, cur, held>>

Yield(c) ==
  /\ spc[c] = "yield" /\ lock = None
  /\ state' = [state EXCEPT ![cur[c]] = "RUNNABLE"]
  /\ ToScheduler(c)
  /\ UNCHANGED <<level, used, chan, killed, parent, call, snap, ninlevel,
                 starve_clock>>

Next ==
  \E c \in CPU :
    SchedStep(c) \/ Syscall(c) \/ Timer(c) \/ TimerIdle(c) \/ TickCheck(c)
      \/ Yield(c)

Spec == Init /\ [][Next]_vars

(***************************************************************************)
(* The kernel's own code makes progress, and the clock, which knows nothing *)
(* of the processes, strikes one that is not on its way out again and      *)
(* again.  (A tick that finds a killed process in user mode makes it exit  *)
(* before trap() counts the tick for the starvation check.)                *)
(***************************************************************************)
Fairness ==
  \A c \in CPU :
    /\ WF_vars(SchedStep(c))
    /\ WF_vars(TickCheck(c)) /\ WF_vars(Yield(c))
    /\ SF_vars(ForkFails(c) \/ ForkStep(c)) /\ WF_vars(SleepReturns(c))
    /\ WF_vars(Exit(c) /\ killed[cur[c]])
    /\ WF_vars(WaitScan(c) /\ kpc[cur[c]] = "wait")
    /\ SF_vars(Timer(c) /\ ~killed[cur[c]])

FairSpec == Spec /\ Fairness
------------------------------------------------------------------------------
(***************************************************************************)
(* Properties.                                                             *)
(***************************************************************************)
\* Type correctness; no level, slice or index leaves its range.
TypeOK ==
  /\ state \in [Slot -> {"UNUSED", "EMBRYO", "SLEEPING", "RUNNABLE",
                         "RUNNING", "ZOMBIE"}]
  /\ level \in [Slot -> Level]
  /\ used \in [Slot -> [Level -> Nat]]
  /\ \A p \in Slot, l \in Level : used[p][l] < Slice[l]
  /\ chan \in [Slot -> {"none", "ticks", "wait"}]
  /\ killed \in [Slot -> BOOLEAN]
  /\ parent \in [Slot -> Slot \cup {None}]
  /\ kpc \in [Slot -> {"user", "copy", "count", "store", "sleep", "wait"}]
  /\ np \in [Slot -> Slot \cup {None}]
  /\ loaded \in [Slot -> Int]
  /\ snap \in [Slot -> {"same", "moved", "other"}]
  /\ ninlevel \in [Level -> Int]
  /\ starve_clock \in 0 .. Period - 1
  /\ lock \in CPU \cup {None}
  /\ spc \in [CPU -> {"idle", "scan", "run", "tick", "yield", "switch"}]
  /\ ii \in [CPU -> Level]
  /\ idx \in [CPU -> 0 .. NPROC]
  /\ cur \in [CPU -> Slot \cup {None}]
  /\ held \in [CPU -> Slot \cup {None}]
  /\ drift \in Int

\* ninlevel counts exactly the processes that are RUNNABLE or RUNNING at each
\* level, but for level 0 while and because fork() counts its child without
\* ptable.lock: there it misses the children of the forks under way and is off
\* by the updates their stores have overwritten, and by nothing else.  It is
\* updated by hand in eight places -- fork, exit, sleep, both wakeups, the
\* demotion and the boost -- and scheduler() never looks at a level whose
\* count it believes to be 0.
Active(l) == {p \in Slot : state[p] \in {"RUNNABLE", "RUNNING"} /\ level[p] = l}
Uncounted(l) == IF l = 0 THEN Missing ELSE 0
Accounting ==
  \A l \in Level : ninlevel[l] + Uncounted(l) = Cardinality(Active(l))

\* A process is on one CPU at most, and on one while it is RUNNING: no CPU
\* picks up a process another one has not switched away from, though sleep,
\* exit and yield change its state before the switch.
OnCpu(p) == {c \in CPU : cur[c] = p}
OneCpu ==
  \A p \in Slot :
    /\ Cardinality(OnCpu(p)) <= 1
    /\ state[p] = "RUNNING" => OnCpu(p) # {}

\* exit() and wait() never miss each other: no parent sleeps in wait() while
\* it has a zombie child, its own or one it inherited as init.
WaitNotLost ==
  \A p, q \in Slot :
    state[p] = "SLEEPING" /\ chan[p] = "wait" /\ parent[q] = p =>
      state[q] # "ZOMBIE"

\* "At any given point in time, the highest-priority ready process should be
\* run" (p2b.html): no RUNNABLE process is at a higher level than the one
\* scheduler() switches to, unless it is at level 0 and fork()'s counting
\* without the lock has hidden every process there from the counter.
HighestFirst ==
  [][\A p \in Slot :
       state[p] = "RUNNABLE" /\ state'[p] = "RUNNING" =>
         \A q \in Slot : state[q] = "RUNNABLE" =>
           \/ level[p] <= level[q]
           \/ level[q] = 0 /\ Missing = Cardinality(Active(0))]_vars

\* A process preempted by the clock before its slice is used up is the next
\* one its CPU runs, unless a process of a higher level has become ready, or
\* fork() has left level 0 miscounted when the process was last switched to or
\* since.
SliceHeld ==
  [][\A c \in CPU :
       cur[c] = None /\ cur'[c] # None /\ held[c] # None =>
         cur'[c] = held[c] \/ level[cur'[c]] < level[held[c]]]_vars

\* fork()'s counting misleads scheduler(): an update of ninlevel[0] was lost, or
\* it scans while ninlevel[0] is 0 or less because a child is not yet counted.
Misled ==
  \/ drift # 0
  \/ InFork # {} /\ ninlevel[0] <= 0 /\ \E c \in CPU : spc[c] = "scan"

\* scheduler() never spins with ptable.lock held, unless fork() misleads it.
LockReleased == []<>(lock = None \/ Misled)

\* No process starves, whatever its level and whatever the others do, and none
\* is kept from running by a CPU that spins with ptable.lock held, unless
\* fork() misleads scheduler().
NoStarvation ==
  \A p \in Slot :
    state[p] = "RUNNABLE" ~> (state[p] = "RUNNING" /\ lock = None) \/ Misled
==============================================================================
