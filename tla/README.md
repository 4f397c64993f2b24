# CS537 projects: a verification development

TLA+ models of the concurrent parts of this repository's course projects (CS537, Fall 2016), the TLC
runs that check them, and TLAPS proofs about them. The C sources under `src/projects` are the
reference; line numbers in the modules refer to them. `PROJECT.json` maps every definition to the
lines it stands for.

## 1. The system and its parts

The repository holds independent programs, not one system. Its own logic is in the web server (p4a),
the shared-memory statistics (p3a), the shell (p2a), and in three modified copies of the xv6 kernel:
p1b (a system call counter), p2b (a multi-level scheduler) and p3b (shared memory regions).

| part | state it keeps | operations | interacts through | hard because |
|---|---|---|---|---|
| p4a server pool (`server.c`) | ring `buff`, `count`, two indices, mutex `m`, condition variables `fill`, `empty` | `main`'s accept loop, `workerthread`, `exit_handler` | shared memory under `m`; signals; `requestHandle` | condition variables, a full or empty ring, SIGINT in any thread, wrappers that exit |
| p4a requests (`request.c`, `cs537.c`) | per request buffers, CGI children | `requestHandle`, static and dynamic service | sockets, `fork`/`wait` | threads that reap each other's children, clients that leave |
| p2b scheduler (`proc.c`, `trap.c`, `sysproc.c`) | process table, `ninlevel`, `laststate`, `starve_clock` | `scheduler`, `fork`, `exit`, `wait`, `sleep`, `wakeup`, `kill`, `yield`, `check_starve_and_boost` | `ptable.lock`, clock interrupts | several CPUs, preemption in the kernel, counters kept by hand |
| p3b shared memory (`vm.c`, `proc.c`, `exec.c`) | `shmem_count/pages/paddr`, each process's page table, `shmtop`, `shmem_vaddr` | `shmgetat`, `fork`, `exec`, `exit`, `wait`, `sbrk` | reference counts, frame allocator | several owners of a frame, partial failure, preemption |
| p3a statistics (`stats*.c`) | a page of slots with valid bits, a semaphore | `stats_init`, `stats_unlink`, the client's loop, SIGINT handler, the server's loop | System V shared memory, named semaphore, signals | signals inside critical sections, killed clients |
| p2a shell (`mysh.c`) | job list | `execute`, `j`, `myw` | `fork`, `waitpid` | list and kernel disagree, pid reuse |
| xv6 pipes (`pipe.c`, `file.c`) | per pipe a ring with two wrapping counters and two open flags; counted open files; descriptors | `pipe`, `dup`, `read`, `write`, `close`, `fork`, `exit`, `kill` | `sleep`/`wakeup` on the two counters | two channels over one lock, ends that close with a process, `kill` without the lock |
| xv6 buffer cache and disk (`bio.c`, `ide.c`) | buffers with flags, LRU list, request queue, the drive | `bread`, `bwrite`, `brelse`, `iderw`, `ideintr` | `sleep`/`wakeup`, the interrupt, the drive | conditions re-checked after sleeping, requests in flight, power failure, a limit that panics |
| xv6 inodes and directories (`fs.c`, `sysfile.c`) | inodes on disk and in the cache (link and reference counts, I_BUSY), directory entries, current directories, open files | `open`, `mkdir`, `link`, `unlink`, `chdir`, `close`, `namex`, `iput` | inode locks held while sleeping for another | two locks at once, freeing while others look up, undo on failure |
| xv6 base, rest | spinlocks, the free list of pages | `acquire`, `kalloc` | interrupts | only as the atomicity of the others' critical sections |
| p1a varsort, p1b counter, user programs, drivers, examples | — | — | — | sequential or hardware; not modelled |

What makes each part correct, in words, is stated above each property in the modules; the list of
what can go wrong, with the properties aimed at it, is "hazards" in `PROJECT.json`.

## 2. Modules

| module | models | state and actions |
|---|---|---|
| `ConnQueue` | what the pool promises (abstract) | connections numbered by arrival; `Arrive`, `Assign`, `Finish` |
| `ServerPool` | `p4/p4a/server.c` with the wrappers of `cs537.c` it calls | one variable per global of `server.c`; a thread's `pc` is its place between two shared accesses; one action per critical section half |
| `Mlpq`, `MCMlpq` | `p2/p2b/xv6/xv6/kernel`: `proc.c`, `trap.c`, `sys_sleep` | `struct proc`, `ninlevel`, `ptable.lock`, and per CPU the place in `scheduler()` or `trap()`; one action per loop step of `scheduler()`, per system call, per part of the clock interrupt |
| `MlpqProofs` | theorems about `Mlpq` | |
| `ShMem`, `MCShMem` | `p3/p3b/xv6/kernel`: `vm.c`, `proc.c`, `exec.c`, `kalloc.c` | page tables as functions from page addresses to frames, the region tables, the free list; one action per system call, and one for a preemption between the load and the store of a count |
| `ShMemProofs` | theorems about `ShMem` | |
| `Stats` | `p3/p3a/stats.c`, `stats_client.c` | the page's slots, the semaphore, each client's place also inside its signal handler |
| `StatsProofs` | theorems about `Stats` | |
| `Requests` | `p4/p4a/request.c` with the wrappers of `cs537.c` it calls | per worker the place in `requestHandle`, what its client has sent, the CGI children of the process; one action per blocking call |
| `ServerProofs` | theorems about `ServerPool` and `Requests` | |
| `Mysh` | `p2/p2a/mysh.c` | the job list, the kernel's table of pids; one action per command and per call of `waitpid` |
| `MyshProofs` | theorems about `Mysh` | |
| `Streams` | what pipes promise (abstract) | bounded byte streams with two ends |
| `Pipe` | `p3/p3b/xv6/kernel`: `pipe.c`, the counts of `file.c`, their callers in `sysfile.c` and `proc.c` | descriptors, counted files, pipes; one action per critical section |
| `PipeProofs` | theorems about `Pipe` | |
| `SectorStore` | what the cache promises (abstract) | registers with a lock that survive a crash |
| `Disk` | `p3/p3b/xv6/kernel`: `bio.c`, `ide.c` | buffers, LRU list, queue, drive, platter; one action per critical section, the drive's work and the interrupt |
| `DiskProofs` | theorems about `Disk` | |
| `Inodes`, `MCInodes` | `p3/p3b/xv6/kernel`: `fs.c` from `ialloc` to `namex`, `sysfile.c` | inodes, entries, counts, locks; one action per stretch between two waits for an inode lock, and the parts of `iput` |
| `InodesProofs` | theorems about `Inodes` | |

### ServerPool

The mutex is a variable naming its owner; `pthread_cond_wait` is two steps (release and sleep, then
own the mutex again), with spurious wakeups, which POSIX allows. `Interrupt` is SIGINT in any
thread: `exit_handler` frees the ring and the other threads run on with the freed memory until
`Exit` (`Fetched` is then nondeterministic, and a store into the ring is lost). A second SIGINT in another
thread frees the ring again, which may abort the process at once. `UnixError` is a
wrapper that fails, which ends the process. `requestHandle` is opaque: it may take for ever.

### Mlpq

A system call's critical section under `ptable.lock` is one step, taken when no CPU holds the lock;
`scheduler()` itself is cut into its loop steps, because it holds the lock while it loops and hands
it over to the process it switches to. `fork()` makes the child RUNNABLE without the lock: with
`ForkWindow` its three accesses to shared memory are three steps. What this does to the counter of level 0
is followed exactly: `InFork` are the children not yet counted, `drift` (a history variable) what lost
updates have added, and `Missing` what the counter is short by. A child that exits or sleeps before it is
counted takes the counter to 0 or below while its parent is RUNNABLE at level 0; `scheduler()` then never
looks at that level again, and the parent never runs (`Misled`). `timeticks` is kept modulo the
slice, and `laststate` by its comparison with the process (`snap`), so that the state is finite.
Slices and the starvation period are constants: the code has 5, 5, 10, 20 ticks and 100.

### ShMem

Addresses and sizes are in pages. `freevm` frees *the caller's* size of a page table, as the code
does. A frame freed twice makes the free list a cycle; the model stops there (`phase` is
"corrupt"), and also where the kernel panics.

With `Preempt`, which is what the kernel does (trap.c:102-103), `shmgetat` is cut between its look at the
count and the rest (`ShmCheck`, `ShmAttach`), and `shmgetat`, `fork` and `exec` between the load and the store of
`shmem_count[key]++` or `--` (`LoadCount`); other processes run in between. A call works with what it has read, also when
that has changed meanwhile: counts then go wrong, frames are freed in use, processes of one key see different
frames. The history variable `stale` becomes TRUE when a call acts on a count or a number of pages that
another process has changed, or when a region is made or torn down while another process is in `shmgetat` for it;
the properties are about everything that happens up to then. `overran` is TRUE once `wait()` has gone by
a size that reaches into the child's regions. The rest of a preempted call is one step: it picks the slot and
the frames it finds free at its end, which only names them differently, and the regions of an `exec` or
`fork` other than the loaded one are counted with it.

### Stats

A client's handler runs on top of whatever it interrupted and never returns to it. `holds` and
`lost` are history variables: who has taken the semaphore and not posted it. SIGTERM, which
`killclients.sh` sends, has no handler and is `Kill`, like SIGKILL. The server is assumed to have
initialised the page before the first client; its reads change nothing and are left out.

### Requests

A worker that is idle may be given a connection at any time; which one is `ServerPool`'s matter. A
child started by one thread is a child of the process, so children are counted for the process and `Wait` takes any. What a client sends
is one of: nothing, the request line, everything; and it reads, reads no more ("deaf"), or has left.
A write to a deaf client may block for ever: such a worker's `Respond` or `ServeDynamic` may happen (the rest fits
in the socket's buffer) but need not. A CGI program may run, be done, or never end (`stuck`). After an end of file before the empty line the
loop of `requestReadhdrs` goes on for ever ("spin"), unless its uninitialised buffer happens to hold the
empty line. Any wrapper that fails ends the process.

### Mysh

A pid is free, a child (running or zombie), or somebody else's, and may be reused as soon as it is
free. `waitpid` on a pid that is not a child returns at once. The list keeps foreground jobs after they were
waited for. When such a pid comes back as another job's, `removeStoppedJobs` and `myw` take the
entry for that job; `JobList` says that nothing worse happens: no child is forgotten, and only jobs already
waited for are mixed up. `ComesBack`: the prompt comes back. A line that is too long is read to its end (`SkipLine`);
when the input ends before the line does, `readcommands` loops for ever, printing (`pc` = "spin").

### Pipe

A read or write that finds its condition false goes to sleep in the same step (`sleep` gives up the
lock only then). `kill` takes no pipe lock, so it may fall between the test of `killed` and the sleep
(`late` in `AsleepAt`): the sleeper is then killed but asleep. `fork` and `exit` are modelled as far as
descriptors go: `exit` closes one each time round its loop, and others may open and close in between. A
process has at most two files in hand (`hand`): the two of `pipe`, or the one it is closing. Bytes are the running number of the write they came from (modulo `UintMod`), so that a lost
or repeated one is seen.

### Disk

Each process holds one buffer, or a second one inside an indirect block's (`Outer`), as in `bmap` and
`itrunc`. `Crash` may come at any step and keeps only the platter; a sector is written whole. The drive never
reports a failed read. A `bget` with every buffer busy panics, and the machine stops until it is booted again.

### Inodes

What a process does while it holds inode flags is seen by nobody, so a step runs from one wait for a
flag to the next; `iput`, which frees an inode in several steps with the flag set, is cut there. A process's record has the
variables of its call (`cur`, `path`, `ip`) and what it has still to drop: `put` is the inode whose last
reference it is dropping, `later` one more to follow, `freeing` how far `iput` has got. Contents,
`"."`, `mknod`, `fork`, `exit` and the limit of the inode cache are left out. An empty list of names stands for `/`. Freeing an inode
that the `".."` of a removed directory still names, or that somebody has just come to through such a `".."`,
sets the history variable `dangling`, and the model goes on: whoever comes to the inode finds it free, and
`ilock` panics ("ilock: no type"), or it finds what was allocated there since. `RefExact` and the first part of `InUse`
are checked in these states as well; the other properties are about everything up to them.

## 3. Runs

| run | bounds | checks | result |
|---|---|---|---|
| `server_pool` | 2 workers, ring of 2, 4 connections, 1 spurious wakeup | `TypeOK`, `RingIsFifo`, `NoLostWakeup`, `Ownership`, `Dispatched`, `Implements` | hold |
| `mlpq_1cpu` | 3 processes, 2 levels of 2 ticks and 1, 1 CPU, `fork` preempted | `TypeOK`, `Accounting`, `HighestFirst`, `SliceHeld`, `NoStarvation` | hold |
| `mlpq_cpus` | 3 processes, 1 level of 2 ticks, 2 CPUs, `fork` preempted | `OneCpu`, `WaitNotLost` | hold |
| `mlpq_2cpu` | 2 processes, 2 levels, 2 CPUs | `LockReleased` | violated |
| `shmem` | 3 processes of up to 3 pages, 2 regions of up to 2 pages, 5 frames, a USERTOP of 5 pages, calls preempted | `TypeOK`, `RefCount`, `SharedAlike`, `IsolatedElse` | hold |
| `shmem_wait` | a program may be as large as USERTOP | `Isolated` | violated |
| `stats` | 2 clients, 2 slots, SIGINT anywhere, 2 SIGKILLs | `TypeOK`, `Exclusive`, `OwnData`, `Registered` | hold |
| `disk` | 2 processes, 2 buffers, 3 sectors, 2 values | `TypeOK`, `Coherent`, `NoLostWakeup`, `Answered`, `Implements` | hold |
| `pipe` | 2 processes with 2 descriptors, 2 files, a pipe of 2 bytes, counters modulo 4, calls of 1 and 3 bytes | `TypeOK`, `RefExact`, `NoLostWakeup`, `EndsSeen`, `Implements` | hold |
| `inodes` | 2 processes, 3 inodes, 2 names, 2 links to a file, the paths of `MCInodes` | `RefExact` (types included), `LinkExact`, `InUse`, `NoDeadlock` | hold |
| `requests` | 2 workers | `WaitCovered`, `Served` | hold |
| `mysh` | 2 pids, 4 jobs | `JobList`, `ComesBack` | hold |

**Why the bounds are enough.** `server_pool`: with four connections over two slots both indices wrap
twice, the ring fills up while both workers are busy, and drains while the master still accepts.
`mlpq_*`: three processes are init, a parent and a child (or two competitors and a sleeper); two
levels are the top, where the boost ends, and the bottom, where the demotion ends; a slice of two
ticks can be interrupted in the middle. The record that starvation is judged by spans two periods, and the clock may
strike between any two instructions, so that periods of one tick are of any length in steps; a period of three ticks was
checked once and held as well. `MaxDrift` = 0: `fork()` is not called again once an update of `ninlevel[0]` has been lost. In `mlpq_cpus` one level is enough, since
its properties do not depend on which process is chosen, and with more levels two CPUs hang
(`mlpq_2cpu`); with one level nothing depends on the counters, so the run's VIEW leaves them out
and `MaxDrift` is set out of reach. `shmem`: three processes are init, which adopts orphans, and two that share; five frames
are fewer than two programs and both regions need, so allocation fails in every place, and a program of three
pages with a region of two fills an address space. States after `stale` are not explored (`NotStale`): three of the
properties hold there by their form, and `TypeOK` is proved. `shmem_wait` has more frames, so that programs
grow up to the addresses where a child has its region. `stats`: a killed client's name is used again by a new process, so more than two
processes take part; two leaked slots fill the page. `disk`: three sectors compete for two
buffers, so that every read may recycle, wait for a busy buffer or find none; two processes queue two
requests at most (three processes with three buffers were run to 800 thousand states, safety
properties only, without a violation, not to the end). `pipe`: calls of three bytes do not fit in a pipe of two and sleep in the middle; counters
modulo 4 wrap twice as fast as the ring; two descriptors are one for each end. With two files, of
`pipealloc`'s failures only that of `filealloc` is reached. `inodes`: three inodes are the root, a directory
and one more, which run out, are freed and allocated again; paths go down two names and up through
`".."`, also from a directory that is being removed (`/a/b/..`). Four inodes were run to 11 million states without a violation, not to the end. `requests`:
a worker, and another one that takes its child; three workers (151,847 states) were checked once
and held as well. `mysh`: a pid comes back as another job's and as somebody else's, and four jobs
let a third one meet both; three pids (393,192 states) were checked once and held as well.

**The violated properties** are disagreements between the code and what its own documents say. Two have a
run and an entry in `PROJECT.json` "findings", with the lines: the scheduler hangs as soon as two CPUs schedule (it counts
RUNNING processes as work for a level, and rescans for it with the lock held), and `wait()` frees pages by
the parent's size. The others are stated in the modules, and a configuration shows each:

| property | configuration | why the code violates it |
|---|---|---|
| `Isolated` (`ShMem`) | `shmem.cfg` with this invariant alone, without the CONSTRAINT | `shmgetat` looks at the count, another process tears the region down, and `shmgetat` maps what is left of it |
| `InterruptedLeaves` (`Stats`) | `stats.cfg` with `MaxKill = 0` and this property | SIGINT in a critical section: the handler waits for its own process |
| `KilledExits` (`Pipe`) | `pipe.cfg` with this property | `kill()` between the test of `killed` and `sleep()` is not seen until the next wakeup |
| `ErasedFirst` (`Inodes`) | `inodes.cfg` with this invariant | the `".."` of a removed directory in use outlives its parent |
| `FreedUnused` (`Inodes`) | `inodes.cfg` with this invariant | `open("/a/b/..")` while `/a/b` and then `/a` are removed takes a reference to `/a` after `iput` has found its own to be the last |
| `Survives` (`Inodes`) | `inodes.cfg` with this invariant | the same process then locks `/a`, which is free: `ilock` panics |

**Fairness.** `ServerPool`: each thread's next step is weakly fair, because the host schedules every
runnable thread; acquiring the mutex is only weakly fair too. Nothing makes a client connect or a handler return, so
`Dispatched` excuses the case that all workers are stuck. `Mlpq`: the kernel's own steps are weakly
fair, the three instructions of `fork()` strongly (the clock does not strike every single time before them), and the
clock strikes again and again (strongly fair) a process that is not being killed. User
programs need not do anything. `Stats`: every client's steps are strongly fair, which includes the
semaphore: POSIX does not promise it, but clients compute and sleep between two uses. `Disk`: runnable
processes are scheduled in turn and the drive answers (weak); what holds a buffer releases it again
and again (strong for `Brelse`, since every routine of `fs.c` does). No property of it waits for a process that
wants an outer block, since the lock of such a block may always be taken by the other. `Pipe`: the
kernel's part of every process (weak); programs need not read, write or close. `Requests`: threads
run, a write ends while the client reads and when it has left, and CGI programs that are not stuck end (all weak),
and the host's `wait()` does not prefer the same threads for ever (strong); clients need neither send nor read. So
`Served` excuses a worker whose own client reads no more, and one that waits while every child left is stuck. `Mysh`: the shell runs and programs end (weak); nobody need
type anything. `Inodes` has no liveness property.

## 4. Proofs

TLAPS checks the theorems in the `*Proofs` modules for every value of the constants that satisfies the
assumptions named. Each is shown from an inductive invariant, one lemma for each action or group of
actions; the parts that the stated property lacks are what the argument is about.

*ServerPool* (`ServerProofs`), from `ThreadAssumption` (the threads are distinct, the workers finitely
many) and `BoundAssumption` (the ring has a slot, as `getargs` demands):
- `TypeCorrect`, `FifoHolds` — the inductive invariant `IInv` says, besides the type invariant, that the
  write index is `count` slots after the read index, that the thread named by `m` is the one inside
  the critical section (so nobody else changes the ring), and that the connections in the ring are
  the consecutive ones after `taken`. `RingIsFifo` alone is not inductive: without the relation
  between the indices a put could overwrite an occupied slot.
- `OwnershipHolds` adds that what a worker holds is at most `taken`, distinct, and not closed.
- `NoLostWakeupHolds` counts the workers on their way to the check (finite-set cardinalities).
- `PoolImplements` maps every step to a step or a stutter of `ConnQueue`.

*Stats* (`StatsProofs`), from `ConstantAssumption` (there is a slot, and `None` is neither a slot nor a
client), for any number of clients, slots and SIGKILLs:
- `TypeCorrect`, `ExclusiveHolds`, `OwnDataHolds` — the inductive invariant adds to the properties that
  whoever is between `sem_wait` and `sem_post`, also in its handler, is the only one and the semaphore
  is then 0 (`SemInv`, without which a post could raise it to 2), that `validbitaddr` is set exactly
  from `Found` on (`AddrInv`), and that a slot's counter is its owner's or cleared from `Wipe` on
  (`DataInv`; `OwnData` alone says nothing of a client between `Wipe` and its loop).

*Requests* (`ServerProofs`; its variable is `at` where `ServerPool` has `pc`), for any finite set of workers:
- `WaitCoveredHolds` — `WaitCovered` is inductive as it stands. The proof counts the workers in `wait()`:
  a fork adds a waiter and a child, a wait takes one of each, whoever's child it was.

*Mysh* (`MyshProofs`), for any pids and any number of jobs:
- `JobListHolds` — `IInv` adds where the loops of `removeStoppedJobs` and `myw` stand (`PlaceInv`), that
  exactly the shell's children have a jid, none above `maxjid` (`JidInv`), and that a child is the
  newest job listed under its pid (`Newest`): only then is the entry that a loop takes for another job
  an older one, which was waited for.

*Disk* (`DiskProofs`), from finitely many buffers and a `None` that is no process, sector, value or command:
- `TypeCorrect`, `CoherentHolds`, `NoLostWakeupHolds` — `IInv` adds that a busy buffer is held once
  (`HeldInv`), that no two buffers have one sector (`SectorInv`), what a process at each place wants, holds and
  sleeps on (`PlaceInv`), that the queue has each buffer once and each for a process in `iderw`
  (`QueueInv`), that the drive works for the head and has its data (`DriveInv`), and that a buffer with
  nothing outstanding agrees with the platter (`DataInv`). The steps that need most of it are `bget`'s
  recycling, which must not take a buffer in the queue, and the interrupt.
- `CacheImplements` maps every step to a step or a stutter of `SectorStore`. A write takes effect when the
  drive has done it, before the interrupt; a crash then loses nothing that was reported.

*Mlpq* (`MlpqProofs`), for any number of CPUs, slots and levels and any slices:
- `TypeCorrect`, `OneCpuHolds`, `WaitNotLostHolds` — whatever happens inside `fork()`. `Control` is the argument:
  which CPU has a process at which place (`CurInv`, `RunInv`), that exactly the CPU named by `lock` is
  in `scheduler()`'s loop or on its way to the switch (`LockInv`), that `fork()`s under way own different EMBRYOs
  (`ForkInv`), and that init lives and nobody is its own parent (`ParentInv`). `OneCpu` rests on the lock: a
  process is RUNNABLE before it has left its CPU.
- `AccountingHolds`, `HighestFirstHolds`, `SliceHeldHolds` — whatever happens inside `fork()` as well. `Missing` makes the
  count exact: every step changes the counter, the processes of the level, the children not yet counted and
  `drift` by amounts that cancel. A process that `scheduler()` picks is then of the highest level with a
  counted process, and only level 0 can have uncounted ones. `SliceHeld` needs who may have
  begun a slice and where the scan stands (`HeldInv`); `held` is given up when `fork()` miscounts.

*Pipe* (`PipeProofs`), for finitely many processes, any number of files and pages, any ring whose size divides
the range of the counters (a power of two does; 512 in the code), and calls of any sizes:
- `TypeCorrect`, `RefExactHolds`, `NoLostWakeupHolds` — `IInv` has five parts beyond the properties. A process has
  files in hand only inside `pipe` or a close (`HandInv`). A file that nobody counts stands for no end, and one
  that `pipe` has just allocated is its alone (`FileInv`). No two files, or processes in `pipeclose`, stand for
  one end (`OneEach`): without it a second close of an end would free a page in use. Who is inside `read` or
  `write` still has a descriptor of that end (`HolderInv`), so the page is not freed under a sleeper. The
  distance of the counters is at most `PIPESIZE` (`Bound`), of which `Full` in `NoLostWakeup` is the limit case.
  The counts are cardinalities of sets of cells (`Cells`); the lemmas `NamedChange` and `InHandChange` say what
  one assignment does to them, so that every action is a sum of such changes.
- `PipesImplement` maps every step to a step or a stutter of `Streams`. Slots are taken modulo `PIPESIZE` from
  counters modulo `UintMod`; that these agree after a wrap is where the divisibility is used.

*ShMem* (`ShMemProofs`), for any number of processes, regions, pages and frames, with `Preempt` or without:
- `TypeCorrect`, `RefCountHolds` — `IInv` adds that images are mapped and end below the regions
  (`Image`), that what `shmgetat` has checked of its own process still holds when it goes on (`CallInv`), that only a
  process that runs is about to store a count (`LoadInv`), and that a counted or attached region has pages
  (`Sized`). While `stale` is FALSE, a call that stores a count stores the right one (`Exact`).
- `SharedAlikeHolds` — `AInv` adds `Alike`, the property without its phase. `shmgetat` maps the frames of
  the region as it is when it goes on; that they are those it has looked at is `~stale`.
- `IsolatedElseHolds` — for programs of any size. `FInv` adds, while neither `stale` nor `overran`, that
  nothing is mapped between heap and regions (`Gap`) and that images, heaps and regions own their
  frames (`PrivateInv`, `RegionInv`); frames change hands only through the free list (`Handover`). The
  theorem says that the two history variables name the only ways out: run `shmem_wait` shows one of
  them, and the table above the other.

*Inodes* (`InodesProofs`), for finitely many processes and names, any number of inodes, any paths, and any
bound on links:
- `IInvHolds`, `RefExactHolds`, `LinkExactHolds`, `InUseHolds` — no two of these can be proved apart: an inode is freed when
  its counts are 0, so they must be exact for what is in use to stay, and the counts stay exact only while
  what the processes refer to stays what it was. `IInv` adds what a process has in hand at each
  place (`PlaceOK`, `DirOK`: the directory it has locked still lacks, or still has, the name it looked up), that what anybody refers to
  has a type (`RefTyped`), whose flag is set where (`BusyInv`), that nobody else knows an inode between `ialloc` and its
  first entry (`FreshInv`), and that while an inode is truncated others can only be on their way to it
  (`FreeInv`). Only directories have entries (`TreeInv`).
  References and links are cardinalities of sets of places and entries; a step moves one process's share
  (`HoldersChange`, `LinkingChange`, `ErasingChange`) and at most one cell of one directory (`CellMove`), but for `itrunc`,
  which clears a row (`RowCounts`, `ItruncLinks`).
- `NoDeadlockHolds` — directories form no cycle: every set of inodes has one without an entry for another of the
  set (`Acyclic`; a new entry keeps this, since what it names has no entries itself: a new inode or a
  file). Whoever holds a flag and waits for another is at `unlink`'s second
  `ilock` with the entry still there, so a group that waits for itself would be such a set.
- All are proved for the states before `dangling` (`LinkExact` and `NoDeadlock` say so themselves; the theorems about
  `RefExact` and `InUse` have it as a hypothesis, `[](~dangling => ...)`): `IInv` needs that what a process names has a type. That
  `RefExact` and the first part of `InUse` hold afterwards as well is only model-checked.

**Only model-checked.** Liveness (`Dispatched`, `NoStarvation`, `Registered`,
`Answered`, `EndsSeen`, `Served`, `ComesBack`). Every invariant that a passing run checks is proved, in `Inodes` up to `dangling`. Liveness under fairness and ENABLED, induction over data, and RECURSIVE
operators are out of this prover's reach; the modules declare no RECURSIVE operator.

## 5. Not modelled, and the plan

In order:
1. `mknod`, `fork` and `exit` in `Inodes`, the limit of its cache, blocks and contents of files over `Disk`.
2. Start-up and restart of the statistics server (it clears a page that clients can already see).

The map covers a small share of the repository's lines, and cannot cover most of them: the
repository has five copies of xv6 with the same `usertests.c`, drivers, boot code, C library and file system,
of which the modules name the one that each project changed, and test programs. 

Left out for good: device drivers and boot code (hardware registers), the layout of the disk and
user programs (sequential data), `varsort` (a call of `qsort`), the system call counter
(one increment), p4b (only an archive), and the copies the projects started from.
