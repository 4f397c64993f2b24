-------------------------------- MODULE Disk --------------------------------
(***************************************************************************)
(* The buffer cache and the disk driver of xv6 (p3b/xv6/kernel/bio.c and   *)
(* ide.c; all xv6 copies of this repository have the same two files).      *)
(*                                                                         *)
(* A process in the file system code calls bread, bwrite and brelse.  What *)
(* happens under bcache.lock or idelock is one step: both are spinlocks    *)
(* with interrupts off, and sleep() gives them up only once the process is *)
(* on its channel.  The drive carries out what idestart() has programmed   *)
(* and then interrupts.  The machine may stop at any time.                 *)
(***************************************************************************)
EXTENDS Integers, Sequences, FiniteSets, SequencesExt

CONSTANTS Procs, Bufs, Sectors, Values, None,
          Outer      \* the sectors fs.c holds while it asks for another one: indirect blocks

ASSUME ConstantAssumption == /\ IsFiniteSet(Bufs) /\ Outer \subseteq Sectors
                             /\ None \notin Procs \cup Bufs \cup Sectors \cup Values

VARIABLES
  buf,      \* struct buf: sector, busy, valid, dirty, data
  lru,      \* the list of buffers, most recently used first
  queue,    \* idequeue
  drive,    \* what the drive was told to do: sector, write, data, done; or None
  disk,     \* the sectors on the platter
  proc,     \* per process: pc, held (buffers, outermost first), want (sector), chan
  up        \* FALSE after a panic

vars == <<buf, lru, queue, drive, disk, proc, up>>
-----------------------------------------------------------------------------
Buffer == [sector : Sectors \cup {None}, busy : BOOLEAN, valid : BOOLEAN,
           dirty : BOOLEAN, data : Values \cup {None}]
Command == [sector : Sectors, write : BOOLEAN, data : Values \cup {None}, done : BOOLEAN]
ASSUME CommandAssumption == None \notin Command
Places == {"run",      \* in the file system code
           "bget",     \* at the label loop of bget
           "bsleep",   \* asleep in bget on the buffer chan
           "got",      \* bget has returned the last buffer of held
           "iderw",    \* in the while loop of iderw, awake
           "iosleep"}  \* asleep in iderw

Process == [pc : Places, held : Seq(Bufs), want : Sectors \cup {None}, chan : Bufs \cup {None}]

(* The initial buffers belong to device -1 and are empty. *)
EmptyBuf == [sector |-> None, busy |-> FALSE, valid |-> FALSE, dirty |-> FALSE, data |-> None]
Idle     == [pc |-> "run", held |-> <<>>, want |-> None, chan |-> None]

BootOrder == SetToSeq(Bufs)

Boot(bs, list, q, d, ps, on) == /\ bs = [b \in Bufs |-> EmptyBuf]
                                /\ list = BootOrder
                                /\ q = <<>>
                                /\ d = None
                                /\ ps = [p \in Procs |-> Idle]
                                /\ on = TRUE

Init == Boot(buf, lru, queue, drive, proc, up) /\ disk \in [Sectors -> Values]
-----------------------------------------------------------------------------
At(p, pc) == up /\ proc[p].pc = pc
Top(p) == Last(proc[p].held)
Goto(p, pc) == proc' = [proc EXCEPT ![p].pc = pc]

(* wakeup(b): whoever sleeps on b runs again, in bget or in iderw. *)
Awake == [bsleep |-> "bget", iosleep |-> "iderw"]
WakeupDiskOnly(procs, b) ==
  [p \in Procs |-> IF procs[p].chan = b /\ procs[p].pc = "iosleep"
                   THEN [procs[p] EXCEPT !.pc = "iderw", !.chan = None] ELSE procs[p]]
Wakeup(procs, b) ==
  [p \in Procs |-> IF procs[p].chan = b
                   THEN [procs[p] EXCEPT !.pc = Awake[procs[p].pc], !.chan = None]
                   ELSE procs[p]]

(* The file system code holds one buffer, or asks for one more while it    *)
(* holds an indirect block.                                                *)
MayRead(p, s) == \/ proc[p].held = <<>>
                 \/ /\ Len(proc[p].held) = 1
                    /\ buf[Top(p)].sector \in Outer
                    /\ s \notin Outer

Bread(p, s) == /\ At(p, "run")
               /\ MayRead(p, s)
               /\ proc' = [proc EXCEPT ![p].pc = "bget", ![p].want = s]
               /\ UNCHANGED <<buf, lru, queue, drive, disk, up>>

Cached(s) == {b \in Bufs : buf[b].sector = s}
Free(b) == ~buf[b].busy

(* bget scans the list from its tail for a buffer to recycle. *)
RecyclableLast(b) == b = Last(lru)
Recyclable(b) == \E i \in DOMAIN lru : /\ lru[i] = b
                                       /\ Free(b)
                                       /\ \A j \in i+1..Len(lru) : ~Free(lru[j])

Got(p, b) == [proc EXCEPT ![p].pc = "got", ![p].held = Append(@, b), ![p].want = None]

BgetHit(p) == /\ At(p, "bget")
              /\ \E b \in Cached(proc[p].want) :
                   /\ Free(b)
                   /\ buf' = [buf EXCEPT ![b].busy = TRUE]
                   /\ proc' = Got(p, b)
              /\ UNCHANGED <<lru, queue, drive, disk, up>>

BgetSleep(p) == /\ At(p, "bget")
                /\ \E b \in Cached(proc[p].want) :
                     /\ ~Free(b)
                     /\ proc' = [proc EXCEPT ![p].pc = "bsleep", ![p].chan = b]
                /\ UNCHANGED <<buf, lru, queue, drive, disk, up>>

(* The flags are set afresh; the old contents stay in the buffer's data. *)
RecycledFlagsKept(b, s) == [buf[b] EXCEPT !.sector = s, !.busy = TRUE]
Recycled(b, s) == [EmptyBuf EXCEPT !.sector = s, !.busy = TRUE, !.data = buf[b].data]

BgetRecycle(p) == /\ At(p, "bget")
                  /\ Cached(proc[p].want) = {}
                  /\ \E b \in Bufs :
                       /\ Recyclable(b)
                       /\ buf' = [buf EXCEPT ![b] = Recycled(b, proc[p].want)]
                       /\ proc' = Got(p, b)
                  /\ UNCHANGED <<lru, queue, drive, disk, up>>

BgetPanic(p) == /\ At(p, "bget")
                /\ Cached(proc[p].want) = {}
                /\ \A b \in Bufs : ~Free(b)
                /\ up' = FALSE
                /\ UNCHANGED <<buf, lru, queue, drive, disk, proc>>
-----------------------------------------------------------------------------
(* idestart: a write's data goes to the drive at once. *)
Started(q, bs) == IF q = <<>> THEN None
                  ELSE LET b == bs[Head(q)]
                       IN [sector |-> b.sector, write |-> b.dirty, done |-> FALSE,
                           data |-> IF b.dirty THEN b.data ELSE None]

(* idestart of the next request, at the end of ideintr. *)
StartNextNever(q, bs) == None
StartNext(q, bs) == Started(q, bs)

(* iderw starts the drive unless it is at work. *)
StartAlways(b, bs) == Started(<<b>>, bs)
StartIfIdle(b, bs) == IF queue = <<>> THEN Started(<<b>>, bs) ELSE drive

(* The part of iderw before the while loop. *)
Enqueue(p, b, bs) == /\ buf' = bs
                     /\ queue' = Append(queue, b)
                     /\ drive' = StartIfIdle(b, bs)
                     /\ Goto(p, "iderw")

BreadValid(p) == /\ At(p, "got")
                 /\ buf[Top(p)].valid
                 /\ Goto(p, "run")
                 /\ UNCHANGED <<buf, lru, queue, drive, disk, up>>

BreadMiss(p) == /\ At(p, "got")
                /\ ~buf[Top(p)].valid
                /\ Enqueue(p, Top(p), buf)
                /\ UNCHANGED <<lru, disk, up>>

(* The caller changes the data and calls bwrite. *)
Bwrite(p, v) == /\ At(p, "run")
                /\ proc[p].held # <<>>
                /\ Enqueue(p, Top(p), [buf EXCEPT ![Top(p)] = [@ EXCEPT !.data = v, !.dirty = TRUE]])
                /\ UNCHANGED <<lru, disk, up>>

Finished(b) == buf[b].valid /\ ~buf[b].dirty

IderwSleep(p) == /\ At(p, "iderw")
                 /\ ~Finished(Top(p))
                 /\ proc' = [proc EXCEPT ![p].pc = "iosleep", ![p].chan = Top(p)]
                 /\ UNCHANGED <<buf, lru, queue, drive, disk, up>>

IderwReturns(p) == /\ At(p, "iderw")
                   /\ Finished(Top(p))
                   /\ Goto(p, "run")
                   /\ UNCHANGED <<buf, lru, queue, drive, disk, up>>

ToFrontTwice(b) == <<b>> \o lru
ToFront(b) == LET place == CHOOSE i \in DOMAIN lru : lru[i] = b
              IN [i \in DOMAIN lru |-> IF i = 1 THEN b 
                                       ELSE IF i <= place THEN lru[i-1] ELSE lru[i]]

Brelse(p) == /\ At(p, "run")
             /\ proc[p].held # <<>>
             /\ LET b == Top(p)
                IN /\ lru' = ToFront(b)
                   /\ buf' = [buf EXCEPT ![b].busy = FALSE]
                   /\ proc' = Wakeup([proc EXCEPT ![p].held = Front(@)], b)
             /\ UNCHANGED <<queue, drive, disk, up>>

(* kill() makes a sleeping process run; both loops look again. *)
Kill(p) == /\ up
           /\ proc[p].chan # None
           /\ proc' = [proc EXCEPT ![p].pc = Awake[@], ![p].chan = None]
           /\ UNCHANGED <<buf, lru, queue, drive, disk, up>>
-----------------------------------------------------------------------------
(* The drive carries out its command; a sector is written whole. *)
DriveWorks == /\ up
              /\ drive # None
              /\ ~drive.done
              /\ IF drive.write
                 THEN /\ disk' = [disk EXCEPT ![drive.sector] = drive.data]
                      /\ drive' = [drive EXCEPT !.done = TRUE]
                 ELSE /\ drive' = [drive EXCEPT !.done = TRUE, !.data = disk[drive.sector]]
                      /\ UNCHANGED disk
              /\ UNCHANGED <<buf, lru, queue, proc, up>>

(* ideintr: the first buffer of the queue is the one served. *)
Served(b) == [buf EXCEPT ![b] = [@ EXCEPT !.valid = TRUE, !.dirty = FALSE,
                                          !.data = IF buf[b].dirty THEN buf[b].data ELSE drive.data]]

Ideintr == /\ up
           /\ drive # None
           /\ drive.done
           /\ LET b == Head(queue)
              IN /\ buf' = Served(b)
                 /\ queue' = Tail(queue)
                 /\ proc' = Wakeup(proc, b)
                 /\ drive' = StartNext(queue', buf')
           /\ UNCHANGED <<lru, disk, up>>

(* Power off, or a reboot after a panic: only the platter stays. *)
Crash == Boot(buf', lru', queue', drive', proc', up') /\ UNCHANGED disk

Bget(p) == BgetHit(p) \/ BgetSleep(p) \/ BgetRecycle(p) \/ BgetPanic(p)
Kernel(p) == Bget(p) \/ BreadValid(p) \/ BreadMiss(p) \/ IderwSleep(p) \/ IderwReturns(p)

Next == \/ \E p \in Procs : \/ Kernel(p) \/ Brelse(p) \/ Kill(p)
                            \/ \E s \in Sectors : Bread(p, s)
                            \/ \E v \in Values : Bwrite(p, v)
        \/ DriveWorks
        \/ Ideintr
        \/ Crash

(* Runnable processes are scheduled in turn, the drive answers, and every  *)
(* routine of fs.c releases the buffers it has read.                       *)
Fairness == /\ \A p \in Procs : WF_vars(Kernel(p)) /\ SF_vars(Brelse(p))
            /\ WF_vars(DriveWorks)
            /\ WF_vars(Ideintr)

Spec == Init /\ [][Next]_vars /\ Fairness
-----------------------------------------------------------------------------
TypeOK == /\ buf \in [Bufs -> Buffer]
          /\ lru \in SetToSeqs(Bufs)
          /\ queue \in Seq(Bufs)
          /\ drive \in Command \cup {None}
          /\ disk \in [Sectors -> Values]
          /\ proc \in [Procs -> Process]
          /\ up \in BOOLEAN

(* A sector is cached in at most one buffer, although bget's search and    *)
(* its choice of a victim may be repeated after a sleep in which buffers   *)
(* were recycled; a busy buffer is held by exactly one process.  The cache *)
(* writes through: a valid buffer that is not being written has the        *)
(* contents of its sector, and the drive works for the head of idequeue,   *)
(* with that buffer's sector, command and data.                            *)
OneBuffer == /\ \A b, c \in Bufs : (buf[b].sector = buf[c].sector /\ buf[b].sector # None) => b = c
             /\ \A b \in Bufs : buf[b].busy <=>
                  \E p \in Procs : b \in ToSet(proc[p].held) /\ 
                     \A q \in Procs \ {p} : b \notin ToSet(proc[q].held)
Coherent == /\ OneBuffer
            /\ \A b \in Bufs : Finished(b) => buf[b].data = disk[buf[b].sector]
            /\ (queue = <<>>) <=> (drive = None)
            /\ queue # <<>> =>
                 LET b == buf[Head(queue)]
                 IN /\ drive.sector = b.sector /\ drive.write = b.dirty
                    /\ b.dirty => drive.data = b.data

(* Nobody sleeps in bget on a buffer that nobody will release, or that by  *)
(* now belongs to another sector; nobody sleeps in iderw on a buffer that  *)
(* is not in the drive's queue.                                            *)
NoLostWakeup == \A p \in Procs :
  /\ proc[p].pc = "bsleep" => buf[proc[p].chan].busy /\ buf[proc[p].chan].sector = proc[p].want
  /\ proc[p].pc = "iosleep" => proc[p].chan = Top(p) /\ Top(p) \in ToSet(queue)

(* A disk request is finished, and a process that sleeps for a block other *)
(* than an indirect one is woken: nobody waits for what is never released. *)
Waiting(p) == proc[p].pc = "iosleep" \/ (proc[p].pc = "bsleep" /\ proc[p].want \notin Outer)
Answered == \A p \in Procs : Waiting(p) ~> ~(up /\ Waiting(p))

(* The cache with its queue and its drive implements locked registers: the *)
(* holder of a buffer reads what the last writer left on the disk, also    *)
(* after a crash, and lets go only of what the disk has.                   *)
Holds(p, s) == /\ up
               /\ \E i \in DOMAIN proc[p].held :
                    /\ buf[proc[p].held[i]].sector = s
                    /\ buf[proc[p].held[i]].valid
HolderOf(s) == IF \E p \in Procs : Holds(p, s) THEN CHOOSE p \in Procs : Holds(p, s) ELSE None
ViewOf(s) == IF HolderOf(s) = None THEN None ELSE buf[CHOOSE b \in Cached(s) : TRUE].data
Store == INSTANCE SectorStore WITH value <- disk, owner <- [s \in Sectors |-> HolderOf(s)],
                                   view <- [s \in Sectors |-> ViewOf(s)]
Implements == Store!Spec
=============================================================================
