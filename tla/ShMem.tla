-------------------------------- MODULE ShMem --------------------------------
(***************************************************************************)
(* Shared memory regions in projects/p3/p3b/xv6: the reference counts of   *)
(* kernel/vm.c (shmgetat, shm_increase_count, shm_decrease_count) and the  *)
(* calls that create, copy and tear down address spaces around them: fork, *)
(* exec, exit, wait, sbrk.                                                 *)
(*                                                                         *)
(* Addresses and sizes are in pages: a process's image and heap are at     *)
(* 0 .. sz-1 and its regions at shmtop .. UserTop-1, the last attached     *)
(* lowest.  A page table maps an address to a frame: 1 .. Frames, 0 the    *)
(* frame a null shmem_paddr names, or None.  Page tables and kernel stacks *)
(* take frames of the same allocator and are left out, so a call may run   *)
(* out of memory at any time.                                              *)
(*                                                                         *)
(* On one CPU a system call runs to its end unless the clock preempts it   *)
(* in the kernel, which trap() allows (trap.c:102-103).  With Preempt this *)
(* can happen where it matters: to shmgetat, between its look at the count *)
(* and the rest, and to shmgetat, fork and exec between the load and the   *)
(* store of shmem_count[key]++ or --.  (wait() holds ptable.lock, with     *)
(* interrupts off.)  The rest of such a call is one step, after that       *)
(* point: others would see a difference only while they change the counts  *)
(* the call has loaded, or while the region it works on is made or torn    *)
(* down, and the history variable `stale` is set when they do.             *)
(***************************************************************************)
EXTENDS Integers, FiniteSets, FiniteSetsExt

CONSTANTS
  NPROC,      \* slots of the process table; slot 0 is init
  Key,        \* SHMEM_REGIONS
  MaxPages,   \* SHMEM_MAX_PAGES
  UserTop,    \* USERTOP, in pages
  Frames,     \* physical pages
  MaxSize,    \* bound: the largest image and heap of a program, in pages
  MaxCount,   \* bound: fork() does not fail while a count is this large
  Preempt,    \* may shmgetat, fork and exec be preempted?
  None        \* no process, page or call

ASSUME ConstantAssumption ==
  /\ NPROC \in Nat \ {0} /\ MaxPages \in Nat \ {0} /\ MaxSize \in Nat \ {0}
  /\ IsFiniteSet(Key) /\ UserTop \in Nat /\ Frames \in Nat \ {0} /\ MaxSize <= UserTop
  /\ MaxCount \in Nat /\ Preempt \in BOOLEAN
  /\ None \notin Int

Proc  == 0 .. NPROC - 1
Va    == 0 .. UserTop - 1
Frame == 1 .. Frames
Index == 0 .. MaxPages - 1
Initproc == 0

VARIABLES
  state, parent, sz, pgdir, shmtop, shmem_vaddr,  \* struct proc
  shmem_count, shmem_pages, shmem_paddr,          \* vm.c's regions
  freelist,    \* kalloc.c's free frames
  call,        \* a process inside shmgetat: its key, num_pages, new_allocate
  loaded,      \* a process about to store a count: its key, the value it loaded
  stale,       \* (history) has a call acted on a count, or a number of pages,
               \* that another process had changed since it read it, or has a
               \* region been made or torn down under a call at work on it?
  overran,     \* (history) has wait() gone by the size of a parent larger than
               \* the addresses below its child's regions?
  phase        \* "up"; "panicked"; or "corrupt", a frame being twice on the
               \* free list: nothing is said of what follows

space  == <<sz, pgdir, shmtop, shmem_vaddr>>
region == <<shmem_count, shmem_pages, shmem_paddr>>
kernel == <<call, loaded, stale>>
vars == <<state, parent, space, region, freelist, kernel, overran, phase>>
------------------------------------------------------------------------------
Unmapped == [a \in Va |-> None]

\* The n lowest free frames, and the i-th of a set of frames, from 0.
Nth(S, i) == CHOOSE f \in S : Cardinality({g \in S : g < f}) = i
Lowest(n) == {f \in freelist : Cardinality({g \in freelist : g < f}) < n}

\* A page table with the n frames of Lowest(n) mapped from address a up.
Filled(pd, a, n) ==
  [v \in Va |-> IF v \in a .. a + n - 1 THEN Nth(Lowest(n), v - a) ELSE pd[v]]

\* The frames a page table maps below address n.
Below(pd, n) == {pd[a] : a \in {b \in Va : b < n /\ pd[b] # None}}

\* freevm(pgdir): deallocuvm(pgdir, proc->sz, 0), where proc is the caller.
FreevmUserTop(pd, size) == Below(pd, UserTop)
Freevm(pd, size) == Below(pd, size)

\* The count a process updates: what is there, or what it loaded before it was
\* preempted -- and then it may undo what others did in between.
Count(p, k) ==
  IF loaded[p] # None /\ loaded[p].key = k THEN loaded[p].count ELSE shmem_count[k]
Overwrites(p) ==
  loaded[p] # None /\ loaded[p].count # shmem_count[loaded[p].key]

\* A process other than p is in shmgetat for one of the regions K.
AtWork(K, p) == \E q \in Proc \ {p} : call[q] # None /\ call[q].key \in K

\* The regions a process is attached to, those it leaves empty, their frames.
Attached(p) == {k \in Key : shmem_vaddr[p][k] # None}
LastOut(p) == {k \in Attached(p) : Count(p, k) = 1}
FramesOf(K) ==
  UNION {{shmem_paddr[k][i] : i \in 0 .. shmem_pages[k] - 1} : k \in K}

\* shm_decrease_count for every region p is attached to.
Decrease(p) ==
  /\ shmem_count' = [k \in Key |-> IF k \in Attached(p) THEN Count(p, k) - 1
                                   ELSE shmem_count[k]]
  /\ shmem_paddr' = [k \in Key |->
                       [i \in Index |->
                          IF k \in LastOut(p) /\ i < shmem_pages[k] THEN 0
                          ELSE shmem_paddr[k][i]]]

\* fork() counts the child in.
IncreaseNone(k, p) == shmem_count[k]
Increase(k, p) == IF k \in Attached(p) THEN Count(p, k) + 1 ELSE shmem_count[k]

\* kfree of the frames of `first`, then of those of `second`.
Kfree(base, first, second) ==
  /\ freelist' = base \cup ((first \cup second) \ {0})
  /\ phase' = IF 0 \in first \cup second THEN "panicked"
              ELSE IF first \cap second = {} /\ base \cap (first \cup second) = {}
                   THEN "up" ELSE "corrupt"

\* A process in user mode, or past the load of a count that fork() or exec() is
\* to update; one that is not preempted in the kernel has the CPU until its
\* call ends.
Ready(p) ==
  /\ phase = "up" /\ state[p] = "RUNNABLE" /\ call[p] = None
  /\ Preempt \/ \A q \in Proc : call[q] = None
User(p) == Ready(p) /\ loaded[p] = None

\* fork() or exec() stores the counts; the regions in gone are torn down.
Stores(p, gone) ==
  /\ stale' = (stale \/ Overwrites(p) \/ AtWork(gone, p))
  /\ loaded' = [loaded EXCEPT ![p] = None]
  /\ UNCHANGED call

Init ==
  /\ state = [p \in Proc |-> IF p = Initproc THEN "RUNNABLE" ELSE "UNUSED"]
  /\ parent = [p \in Proc |-> None]
  /\ sz = [p \in Proc |-> IF p = Initproc THEN 1 ELSE 0]
  /\ pgdir = [p \in Proc |-> IF p = Initproc THEN [Unmapped EXCEPT ![0] = 1]
                             ELSE Unmapped]
  /\ shmtop = [p \in Proc |-> UserTop]
  /\ shmem_vaddr = [p \in Proc |-> [k \in Key |-> None]]
  /\ shmem_count = [k \in Key |-> 0]
  /\ shmem_pages = [k \in Key |-> 0]
  /\ shmem_paddr = [k \in Key |-> [i \in Index |-> 0]]
  /\ freelist = Frame \ {1}
  /\ call = [p \in Proc |-> None]
  /\ loaded = [p \in Proc |-> None]
  /\ stale = FALSE /\ overran = FALSE
  /\ phase = "up"
------------------------------------------------------------------------------
\* shmgetat, vm.c:453-493: how many pages, and do they fit below shmtop?
\* (Its early returns change nothing.)
NumPagesStored(k, n) == shmem_pages[k]
NumPages(k, n) == IF shmem_count[k] = 0 THEN n ELSE shmem_pages[k]

ShmCheck(p) ==
  /\ User(p) /\ p # Initproc
  /\ \E k \in Key \ Attached(p), n \in 1 .. MaxPages :
       /\ shmtop[p] - NumPages(k, n) >= sz[p]
       /\ call' = [call EXCEPT ![p] = [key |-> k, num |-> NumPages(k, n),
                                       new |-> shmem_count[k] = 0]]
  /\ UNCHANGED <<state, parent, space, region, freelist, loaded, stale, overran,
                 phase>>

\* A process is preempted having loaded the count that it goes on to update, in
\* shmgetat, fork or exec.  (Bound: not again once an update has been lost.)
LoadCount(p) ==
  /\ Preempt /\ ~stale /\ phase = "up" /\ p # Initproc
  /\ state[p] = "RUNNABLE" /\ loaded[p] = None
  /\ \E k \in IF call[p] # None THEN {call[p].key} ELSE Attached(p) :
       loaded' = [loaded EXCEPT ![p] = [key |-> k, count |-> shmem_count[k]]]
  /\ UNCHANGED <<state, parent, space, region, freelist, call, stale, overran,
                 phase>>

\* vm.c:495-513: allocate if new, map downwards, count.
AllocatedAgain(k, n, new) ==
  [i \in Index |-> IF i < Cardinality(Lowest(n)) THEN Nth(Lowest(n), i)
                   ELSE shmem_paddr[k][i]]
Allocated(k, n, new) ==
  [i \in Index |-> IF new /\ i < n THEN Nth(Lowest(n), i) ELSE shmem_paddr[k][i]]
MappedDown(pd, top, n, pa) ==
  [a \in Va |-> IF a \in top - n .. top - 1 THEN pa[top - 1 - a] ELSE pd[a]]

ShmAttach(p) ==
  /\ phase = "up" /\ call[p] # None
  /\ LET k   == call[p].key
         n   == call[p].num
         top == shmtop[p]
         new == call[p].new
         got == Lowest(n)
         pa  == Allocated(k, n, new)
     IN IF new /\ Cardinality(got) < n
        THEN /\ phase' = "panicked"
             /\ UNCHANGED <<space, region, freelist, kernel>>
        ELSE /\ freelist' = IF new THEN freelist \ got ELSE freelist
             /\ shmem_paddr' = [shmem_paddr EXCEPT ![k] = pa]
             /\ pgdir' = [pgdir EXCEPT ![p] = MappedDown(@, top, n, pa)]
             /\ shmem_count' = [shmem_count EXCEPT ![k] = Count(p, k) + 1]
             /\ shmem_pages' = [shmem_pages EXCEPT ![k] = n]
             /\ shmem_vaddr' = [shmem_vaddr EXCEPT ![p][k] = top - n]
             /\ shmtop' = [shmtop EXCEPT ![p] = top - n]
             /\ call' = [call EXCEPT ![p] = None]
             /\ loaded' = [loaded EXCEPT ![p] = None]
             /\ stale' = \/ stale \/ Overwrites(p)
                         \/ new /\ AtWork({k}, p)
                         \/ ~(new <=> shmem_count[k] = 0)
                         \/ ~new /\ n # shmem_pages[k]
             /\ UNCHANGED <<sz, phase>>
  /\ UNCHANGED <<state, parent, overran>>

\* fork(): the first UNUSED slot gets the regions and a copy of the rest.
Fork(p) ==
  /\ Ready(p) /\ Stores(p, {})
  /\ sz[p] <= Cardinality(freelist)
  /\ LET free == {q \in Proc : state[q] = "UNUSED"}
         np   == Min(free)
     IN /\ free # {}
        /\ shmem_count' = [k \in Key |-> Increase(k, p)]
        /\ shmem_vaddr' = [shmem_vaddr EXCEPT ![np] = shmem_vaddr[p]]
        /\ shmtop' = [shmtop EXCEPT ![np] = shmtop[p]]
        /\ pgdir' = [pgdir EXCEPT ![np] = Filled(pgdir[p], 0, sz[p])]
        /\ freelist' = freelist \ Lowest(sz[p])
        /\ sz' = [sz EXCEPT ![np] = sz[p]]
        /\ parent' = [parent EXCEPT ![np] = p]
        /\ state' = [state EXCEPT ![np] = "RUNNABLE"]
  /\ UNCHANGED <<shmem_pages, shmem_paddr, overran, phase>>

\* copyuvm() runs out of memory: what it allocated is freed, the counts stay.
ForkFails(p) ==
  /\ Ready(p) /\ Stores(p, {}) /\ Attached(p) # {}
  /\ \E q \in Proc : state[q] = "UNUSED"
  /\ \A k \in Attached(p) : shmem_count[k] < MaxCount
  /\ shmem_count' = [k \in Key |-> Increase(k, p)]
  /\ UNCHANGED <<state, parent, space, shmem_pages, shmem_paddr, freelist,
                 overran, phase>>

\* exec() of a program of n pages: its memory is allocated, the process
\* leaves its regions, and the old page table goes -- by the new size.
Exec(p) ==
  /\ Ready(p) /\ Stores(p, LastOut(p)) /\ p # Initproc
  /\ \E n \in 1 .. MaxSize :
       /\ n <= shmtop[p] /\ n <= Cardinality(freelist)
       /\ Decrease(p)
       /\ shmem_vaddr' = [shmem_vaddr EXCEPT ![p] = [k \in Key |-> None]]
       /\ shmtop' = [shmtop EXCEPT ![p] = UserTop]
       /\ pgdir' = [pgdir EXCEPT ![p] = Filled(Unmapped, 0, n)]
       /\ sz' = [sz EXCEPT ![p] = n]
       /\ Kfree(freelist \ Lowest(n), FramesOf(LastOut(p)), Freevm(pgdir[p], n))
  /\ UNCHANGED <<state, parent, shmem_pages, overran>>

\* exec() fails once it has allocated n pages, and frees them by the size of
\* the old image.
ExecFails(p) ==
  /\ User(p) /\ p # Initproc
  /\ \E n \in 1 .. MaxSize :
       /\ n <= shmtop[p] /\ n <= Cardinality(freelist)
       /\ LET d == Filled(Unmapped, 0, n) IN
            Kfree(freelist \ Lowest(n), Freevm(d, sz[p]), {})
  /\ UNCHANGED <<state, parent, space, region, kernel, overran>>

\* sbrk() of a page up or down.
Grow(p) ==
  /\ User(p) /\ p # Initproc
  /\ sz[p] < MaxSize /\ sz[p] + 1 <= shmtop[p] /\ freelist # {}
  /\ pgdir' = [pgdir EXCEPT ![p] = Filled(@, sz[p], 1)]
  /\ freelist' = freelist \ Lowest(1)
  /\ sz' = [sz EXCEPT ![p] = @ + 1]
  /\ UNCHANGED <<state, parent, shmtop, shmem_vaddr, region, kernel, overran, phase>>

Shrink(p) ==
  /\ User(p) /\ p # Initproc
  /\ sz[p] > 1
  /\ Kfree(freelist, {pgdir[p][sz[p] - 1]}, {})
  /\ pgdir' = [pgdir EXCEPT ![p][sz[p] - 1] = None]
  /\ sz' = [sz EXCEPT ![p] = @ - 1]
  /\ UNCHANGED <<state, parent, shmtop, shmem_vaddr, region, kernel, overran>>

\* exit(): children go to init; the address space stays until wait().
Exit(p) ==
  /\ User(p) /\ p # Initproc
  /\ state' = [state EXCEPT ![p] = "ZOMBIE"]
  /\ parent' = [q \in Proc |-> IF parent[q] = p THEN Initproc ELSE parent[q]]
  /\ UNCHANGED <<space, region, freelist, kernel, overran, phase>>

\* wait(): the first zombie child's page table goes -- by the size of the
\* parent -- and the child leaves its regions.
Wait(p) ==
  /\ User(p)
  /\ LET zombie == {q \in Proc : parent[q] = p /\ state[q] = "ZOMBIE"}
         q      == Min(zombie)
     IN /\ zombie # {}
        /\ Kfree(freelist, Freevm(pgdir[q], sz[p]), FramesOf(LastOut(q)))
        /\ Decrease(q)
        /\ overran' = (overran \/ sz[p] > shmtop[q])
        /\ stale' = (stale \/ AtWork(LastOut(q), q))
        /\ state' = [state EXCEPT ![q] = "UNUSED"]
        /\ parent' = [parent EXCEPT ![q] = None]
        \* dead until allocproc() and fork() set them again
        /\ sz' = [sz EXCEPT ![q] = 0]
        /\ pgdir' = [pgdir EXCEPT ![q] = Unmapped]
        /\ shmtop' = [shmtop EXCEPT ![q] = UserTop]
        /\ shmem_vaddr' = [shmem_vaddr EXCEPT ![q] = [k \in Key |-> None]]
  /\ UNCHANGED <<shmem_pages, call, loaded>>

Next ==
  \E p \in Proc :
    \/ ShmCheck(p) \/ LoadCount(p) \/ ShmAttach(p)
    \/ Fork(p) \/ ForkFails(p) \/ Exec(p) \/ ExecFails(p)
    \/ Grow(p) \/ Shrink(p) \/ Exit(p) \/ Wait(p)

Spec == Init /\ [][Next]_vars
------------------------------------------------------------------------------
(***************************************************************************)
(* Properties.                                                             *)
(***************************************************************************)
Live(p) == state[p] # "UNUSED"
Users(k) == {p \in Proc : Live(p) /\ k \in Attached(p)}

\* Type correctness.
TypeOK ==
  /\ state \in [Proc -> {"UNUSED", "RUNNABLE", "ZOMBIE"}]
  /\ parent \in [Proc -> Proc \cup {None}]
  /\ sz \in [Proc -> 0 .. MaxSize]
  /\ pgdir \in [Proc -> [Va -> Frame \cup {0, None}]]
  /\ shmtop \in [Proc -> 0 .. UserTop]
  /\ shmem_vaddr \in [Proc -> [Key -> Va \cup {None}]]
  /\ shmem_count \in [Key -> Int]
  /\ shmem_pages \in [Key -> 0 .. MaxPages]
  /\ shmem_paddr \in [Key -> [Index -> Frame \cup {0}]]
  /\ freelist \subseteq Frame
  /\ call \in [Proc -> {None} \cup
                         [key : Key, num : 1 .. MaxPages, new : BOOLEAN]]
  /\ loaded \in [Proc -> {None} \cup [key : Key, count : Int]]
  /\ stale \in BOOLEAN /\ overran \in BOOLEAN
  /\ phase \in {"up", "panicked", "corrupt"}

\* A region is never torn down under a process that uses it: its count is at
\* least the number of processes attached to it, zombies included, along any
\* sequence of shmgetat, fork, exec, exit and wait, interrupted or not, until a
\* call has acted on a count that had changed under it.  (Not equal: a fork()
\* that fails leaves the count too high.)
RefCount ==
  ~stale /\ phase = "up" =>
    \A k \in Key : Cardinality(Users(k)) <= shmem_count[k]

\* All processes attached to a key see the same frames in the same order,
\* fork and exec included, and a process's regions fill its addresses from
\* shmtop to UserTop exactly, which is what shmgetat and copyuvm rely on --
\* again until a call has acted on a count that had changed under it.
Extent(p, k) == shmem_vaddr[p][k] .. shmem_vaddr[p][k] + shmem_pages[k] - 1
SharedAlike ==
  ~stale /\ phase = "up" =>
    \A p \in Proc : Live(p) =>
      /\ shmtop[p] .. UserTop - 1 = UNION {Extent(p, k) : k \in Attached(p)}
      /\ \A j, k \in Attached(p) :
           j # k => Extent(p, j) \cap Extent(p, k) = {}
      /\ \A k \in Attached(p) : \A i \in 0 .. shmem_pages[k] - 1 :
           pgdir[p][shmem_vaddr[p][k] + shmem_pages[k] - 1 - i]
             = shmem_paddr[k][i]

\* No process can reach memory that is not its own: a frame mapped in a live
\* page table is not free, a frame of an image or heap is mapped once and in
\* no region, and no frame is freed twice.
Private(p) == Below(pgdir[p], sz[p])
Isolated ==
  /\ phase # "corrupt"
  /\ phase = "up" =>
       \A p \in Proc : Live(p) =>
         /\ Below(pgdir[p], UserTop) \cap (freelist \cup {0}) = {}
         /\ Cardinality(Private(p)) = sz[p]
         /\ \A q \in Proc \ {p} : Live(q) =>
              Private(p) \cap Below(pgdir[q], UserTop) = {}

\* Two things can break it, and no other: a count that changed under a call, and
\* a parent larger than the room below its child's regions.
IsolatedElse == stale \/ overran \/ Isolated
==============================================================================
