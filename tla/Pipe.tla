-------------------------------- MODULE Pipe --------------------------------
(***************************************************************************)
(* Pipes of xv6 with the open files that refer to them: p3b/xv6/kernel/    *)
(* pipe.c, the reference counts of file.c, and pipe, dup, close, fork and  *)
(* exit as far as they touch them (sysfile.c, proc.c).  The other xv6      *)
(* copies of the repository have the same code.                            *)
(*                                                                         *)
(* What happens under ftable.lock or under a pipe's lock is one step.      *)
(* kill() takes neither: it may come between the test of proc->killed and  *)
(* sleep(), and the process then goes to sleep all the same.               *)
(***************************************************************************)
EXTENDS Integers, Sequences, FiniteSets

CONSTANTS Procs, First,    \* process slots, and the one running at the start
          NFILE,           \* entries of ftable
  Pages,           \* the pages kalloc has for pipes
          None,
          NOFILE,          \* descriptors per process
          PIPESIZE,
          UintMod,         \* 2^32 in the code: nread and nwrite wrap around
          Counts           \* the n of the reads and writes considered

ASSUME SizeAssumption == /\ NOFILE \in Nat \ {0} /\ NFILE \in Nat \ {0}
                         /\ PIPESIZE \in Nat \ {0} /\ Counts \subseteq Nat \ {0}
                         /\ UintMod \in Nat /\ UintMod % PIPESIZE = 0 /\ UintMod > PIPESIZE
ASSUME NameAssumption == /\ First \in Procs /\ IsFiniteSet(Procs)
                         /\ None \notin Procs \cup Pages \cup 1..NFILE

VARIABLES
  fds,        \* proc->ofile
  ref, file,  \* struct file: the count, and the pipe and end it stands for
  pipe,       \* struct pipe, and whether its page is allocated
  proc,       \* per process: pc, exiting, killed, hand, end, file, left
  cut         \* history: a killed writer left the pipe full and woke nobody

vars == <<fds, ref, file, pipe, proc, cut>>
-----------------------------------------------------------------------------
Fd == 0..NOFILE-1
Files == 1..NFILE
Byte == 0..UintMod-1
Places == {"none",     \* unused slot
           "user",     \* in user space
           "alloc",    \* in sys_pipe
           "close",    \* about to call fileclose on the files of hand, first [1]
           "pipeclose",\* in pipeclose
           "read", "readsleeps",     \* in piperead
           "write", "writesleeps"}   \* in pipewrite
NoFiles == [i \in 1..2 |-> None]
NoPipe == [page |-> None, writable |-> FALSE]
Closed == [nread |-> 0, nwrite |-> 0, data |-> [i \in 0..PIPESIZE-1 |-> None],
           used |-> FALSE, readopen |-> FALSE, writeopen |-> FALSE]
Unused == [pc |-> "none", exiting |-> FALSE, killed |-> FALSE, hand |-> NoFiles,
           end |-> NoPipe, page |-> None, left |-> 0]

Init == /\ fds = [p \in Procs |-> [d \in Fd |-> None]]
        /\ ref = [f \in Files |-> 0]
        /\ file = [f \in Files |-> NoPipe]
        /\ pipe = [g \in Pages |-> Closed]
        /\ proc = [p \in Procs |-> IF p = First THEN [Unused EXCEPT !.pc = "user"] ELSE Unused]
        /\ cut = [g \in Pages |-> FALSE]
-----------------------------------------------------------------------------
At(p, pc) == proc[p].pc = pc
(* trap(): a killed process does not come back to user space, it exits. *)
Calls(p) == At(p, "user") /\ ~proc[p].killed
Goto(p, pc) == [proc EXCEPT ![p].pc = pc]
Hold(p, pc, i, f) == [proc EXCEPT ![p].pc = pc, ![p].hand[i] = f]
OpenFds(p) == {d \in Fd : fds[p][d] # None}
FreeFds(p) == Fd \ OpenFds(p)
IsLeast(d, set) == d \in set /\ \A e \in set : d <= e

(* wakeup(chan), with chan the address of nread or of nwrite. *)
WakeReaders(procs, g) ==
  [p \in Procs |-> IF procs[p].pc = "readsleeps" /\ procs[p].page = g
                   THEN [procs[p] EXCEPT !.pc = "read"] ELSE procs[p]]
WakeWriters(procs, g) ==
  [p \in Procs |-> IF procs[p].pc = "writesleeps" /\ procs[p].page = g
                   THEN [procs[p] EXCEPT !.pc = "write"] ELSE procs[p]]

-----------------------------------------------------------------------------
(* sys_pipe: filealloc twice, kalloc, then two descriptors.  Whatever      *)
(* fails, the files in hand are closed again.                              *)
Filealloc(p) ==
  /\ \E i \in 1..2, f \in Files :
       /\ IF i = 1 THEN Calls(p) ELSE At(p, "alloc") /\ proc[p].hand[2] = None
       /\ IsLeast(f, {h \in Files : ref[h] = 0})
       /\ ref' = [ref EXCEPT ![f] = 1]
       /\ proc' = Hold(p, "alloc", i, f)
  /\ UNCHANGED <<fds, file, pipe, cut>>

PipeFails(p) ==
  /\ At(p, "alloc")
  /\ IF proc[p].hand[2] = None THEN \A f \in Files : ref[f] > 0
                               ELSE \A g \in Pages : pipe[g].used
  /\ proc' = Goto(p, "close")
  /\ UNCHANGED <<fds, ref, file, pipe, cut>>

Opened(hand, g) == [file EXCEPT ![hand[1]] = [page |-> g, writable |-> FALSE],
                                ![hand[2]] = [page |-> g, writable |-> TRUE]]

SysPipe(p) ==
  /\ At(p, "alloc")
  /\ proc[p].hand[2] # None
  /\ LET hand == proc[p].hand
     IN \E g \in Pages :
          /\ ~pipe[g].used
          /\ pipe' = [pipe EXCEPT ![g] = [Closed EXCEPT !.used = TRUE, !.readopen = TRUE, !.writeopen = TRUE]]
          /\ file' = Opened(hand, g)
          /\ IF Cardinality(FreeFds(p)) >= 2
             THEN \E r, w \in Fd : 
                    /\ IsLeast(r, FreeFds(p)) /\ IsLeast(w, FreeFds(p) \ {r})
                    /\ fds' = [fds EXCEPT ![p] = [@ EXCEPT ![r] = hand[1], ![w] = hand[2]]]
                    /\ proc' = [proc EXCEPT ![p].pc = "user", ![p].hand = NoFiles]
             ELSE /\ proc' = Goto(p, "close")
                  /\ UNCHANGED fds
          /\ cut' = [cut EXCEPT ![g] = FALSE]
  /\ UNCHANGED ref

DuppedNot(f) == ref
Dupped(f) == [ref EXCEPT ![f] = @ + 1]

Dup(p) == /\ Calls(p)
          /\ \E d \in OpenFds(p), e \in FreeFds(p) :
               /\ IsLeast(e, FreeFds(p))
               /\ fds' = [fds EXCEPT ![p][e] = fds[p][d]]
               /\ ref' = Dupped(fds[p][d])
          /\ UNCHANGED <<file, pipe, proc, cut>>

Close(p) == /\ Calls(p)
            /\ \E d \in OpenFds(p) :
                 /\ fds' = [fds EXCEPT ![p][d] = None]
                 /\ proc' = Hold(p, "close", 1, fds[p][d])
            /\ UNCHANGED <<ref, file, pipe, cut>>

(* The parent holds a reference to each file while it makes the child's. *)
Copies(p, f) == Cardinality({d \in Fd : fds[p][d] = f})
Fork(p) == /\ Calls(p)
           /\ \E q \in Procs :
                /\ At(q, "none")
                /\ proc' = [proc EXCEPT ![q] = [Unused EXCEPT !.pc = "user"]]
                /\ fds' = [fds EXCEPT ![q] = fds[p]]
           /\ ref' = [f \in Files |-> ref[f] + Copies(p, f)]
           /\ UNCHANGED <<file, pipe, cut>>

(* exit() closes its descriptors in order, one each time round its loop,   *)
(* and is then gone.  Nobody else looks at the descriptors, so it does not *)
(* matter that it clears one only after fileclose().                       *)
Exiting(p) == At(p, "close") /\ proc[p].exiting /\ proc[p].hand = NoFiles

Exit(p) ==
  /\ At(p, "user") \/ Exiting(p)
  /\ \/ \E d \in OpenFds(p) :
          /\ IsLeast(d, OpenFds(p))
          /\ fds' = [fds EXCEPT ![p][d] = None]
          /\ proc' = [Hold(p, "close", 1, fds[p][d]) EXCEPT ![p].exiting = TRUE]
     \/ /\ OpenFds(p) = {}
        /\ proc' = [proc EXCEPT ![p] = Unused]
        /\ UNCHANGED fds
  /\ UNCHANGED <<ref, file, pipe, cut>>

Killed(p, pc) == [proc EXCEPT ![p].killed = TRUE, ![p].pc = pc]

(* kill(), by anybody.  Outside of the two loops that look at proc->killed *)
(* it does what Exit does, when the process comes back to user space.      *)
Kill(p) == /\ ~proc[p].killed
           /\ \/ At(p, "read") /\ proc' = Killed(p, "read")
              \/ At(p, "write") /\ proc' = Killed(p, "write")
              \/ At(p, "readsleeps") /\ proc' = Killed(p, "read")
              \/ At(p, "writesleeps") /\ proc' = Killed(p, "write")
           /\ UNCHANGED <<fds, ref, file, pipe, cut>>
-----------------------------------------------------------------------------
(* fileclose: the last reference empties the entry first, and closes the   *)
(* end of the pipe afterwards, without ftable.lock.                        *)
LastRef(f) == ref[f] = 1

Fileclose(p) ==
  /\ At(p, "close")
  /\ \E i \in 1..2 : \E f \in Files :
        /\ proc[p].hand[i] = f /\ (i = 2 => proc[p].hand[1] = None)
        /\ ref' = [ref EXCEPT ![f] = @ - 1]
        /\ IF LastRef(f)
           THEN /\ file' = [file EXCEPT ![f] = NoPipe]
                /\ proc' = [Hold(p, IF file[f] = NoPipe THEN "close" ELSE "pipeclose", i, None)
                           EXCEPT ![p].end = file[f]]
           ELSE /\ proc' = Hold(p, "close", i, None)
                /\ UNCHANGED file
  /\ UNCHANGED <<fds, pipe, cut>>

(* The last end to be closed frees the page (kfree overwrites it). *)
ShutEarly(g, writable) == Closed
Shut(g, writable) ==
  LET rest == IF writable THEN [pipe[g] EXCEPT !.writeopen = FALSE]
                          ELSE [pipe[g] EXCEPT !.readopen = FALSE]
  IN IF rest.readopen \/ rest.writeopen THEN rest ELSE Closed

WakeSame(procs, g, writable) == IF writable THEN WakeWriters(procs, g) ELSE WakeReaders(procs, g)
WakeNobody(procs, g, writable) == procs
WakeOther(procs, g, writable) == IF writable THEN WakeReaders(procs, g) ELSE WakeWriters(procs, g)

Pipeclose(p) ==
  /\ At(p, "pipeclose")
  /\ LET e == proc[p].end
     IN /\ pipe' = [pipe EXCEPT ![e.page] = Shut(e.page, e.writable)]
        /\ proc' = WakeOther([proc EXCEPT ![p].pc = "close", ![p].end = NoPipe], e.page, e.writable)
  /\ UNCHANGED <<fds, ref, file, cut>>

CloseReturns(p) == /\ At(p, "close") /\ proc[p].hand = NoFiles /\ ~proc[p].exiting
                   /\ proc' = Goto(p, "user")
                   /\ UNCHANGED <<fds, ref, file, pipe, cut>>
-----------------------------------------------------------------------------
Available(g) == (pipe[g].nwrite - pipe[g].nread) % UintMod
RoomOneMore(g) == PIPESIZE + 1 - Available(g)
Room(g) == PIPESIZE - Available(g)
Empty(g) == pipe[g].nread = pipe[g].nwrite
Full(g) == pipe[g].nwrite = (pipe[g].nread + PIPESIZE) % UintMod
Smaller(a, b) == IF a <= b THEN a ELSE b

Copied(g, k) == [i \in 1..k |-> pipe[g].data[(pipe[g].nread + i - 1) % PIPESIZE]]
Took(g, k) == [pipe EXCEPT ![g].nread = (@ + k) % UintMod]
(* The data: the n-th byte written to a pipe is n.  The kernel only copies  *)
(* bytes, and bytes that could be confused are never in a pipe together.   *)
Serials(g, k) == [i \in 1..k |-> (pipe[g].nwrite + i - 1) % UintMod]
Stored(g, s) == [pipe EXCEPT
  ![g].nwrite = (@ + Len(s)) % UintMod,
  ![g].data = [j \in 0..PIPESIZE-1 |-> LET i == ((j - pipe[g].nwrite) % PIPESIZE) + 1
                                       IN IF i <= Len(s) THEN s[i] ELSE pipe[g].data[j]]]

(* The n of a read matters only when the bytes are copied, see Piperead.   *)
Enter(p, writable, pc, n) ==
  /\ Calls(p)
  /\ \E d \in OpenFds(p) :
       /\ file[fds[p][d]].writable = writable
       /\ proc' = [proc EXCEPT ![p].pc = pc, ![p].page = file[fds[p][d]].page, ![p].left = n]
  /\ UNCHANGED <<fds, ref, file, pipe, cut>>
Read(p) == Enter(p, FALSE, "read", 0)
Write(p) == \E n \in Counts : Enter(p, TRUE, "write", n)

Return(p) == [proc EXCEPT ![p].pc = "user", ![p].page = None, ![p].left = 0]

(* A process that has just found itself not killed goes to sleep; late     *)
(* says whether a kill() has come in between.                              *)
AsleepAt(p, pc, n, late) == [proc EXCEPT ![p] = [@ EXCEPT !.pc = pc, !.left = n, !.killed = late]]

PipereadWaits(p) ==
  /\ At(p, "read")
  /\ Empty(proc[p].page) /\ pipe[proc[p].page].writeopen
  /\ ~proc[p].killed
  /\ \E late \in BOOLEAN : proc' = AsleepAt(p, "readsleeps", proc[p].left, late)
  /\ UNCHANGED <<fds, ref, file, pipe, cut>>

PipereadGivesUp(p) ==
  /\ At(p, "read")
  /\ Empty(proc[p].page) /\ pipe[proc[p].page].writeopen
  /\ proc[p].killed
  /\ proc' = Return(p)
  /\ UNCHANGED <<fds, ref, file, pipe, cut>>

Piperead(p) ==
  /\ At(p, "read")
  /\ LET g == proc[p].page
     IN /\ ~(Empty(g) /\ pipe[g].writeopen)
        /\ \E n \in Counts :
             LET k == Smaller(n, Available(g))
             IN /\ pipe' = Took(g, k)
                /\ cut' = [cut EXCEPT ![g] = @ /\ Available(g) > k]
        /\ proc' = WakeWriters(Return(p), g)
  /\ UNCHANGED <<fds, ref, file>>

(* Bytes go in until all are written or the pipe is full.                  *)
Fits(p) == proc[p].left <= Room(proc[p].page)
FillPipe(p) == LET g == proc[p].page
               IN pipe' = Stored(g, Serials(g, Smaller(proc[p].left, Room(g))))

Pipewrite(p) ==
  /\ At(p, "write")
  /\ Fits(p)
  /\ FillPipe(p)
  /\ proc' = WakeReaders(Return(p), proc[p].page)
  /\ cut' = [cut EXCEPT ![proc[p].page] = FALSE]
  /\ UNCHANGED <<fds, ref, file>>

PipewriteWaits(p) ==
  /\ At(p, "write")
  /\ ~Fits(p)
  /\ pipe[proc[p].page].readopen /\ ~proc[p].killed
  /\ FillPipe(p)
  /\ \E late \in BOOLEAN :
       proc' = WakeReaders(AsleepAt(p, "writesleeps", proc[p].left - Room(proc[p].page), late), proc[p].page)
  /\ cut' = [cut EXCEPT ![proc[p].page] = FALSE]
  /\ UNCHANGED <<fds, ref, file>>

(* The way out when nobody can read, or when killed, wakes nobody.         *)
PipewriteGivesUp(p) ==
  /\ At(p, "write")
  /\ ~Fits(p)
  /\ ~pipe[proc[p].page].readopen \/ proc[p].killed
  /\ FillPipe(p)
  /\ proc' = Return(p)
  /\ cut' = [cut EXCEPT ![proc[p].page] = @ \/ Room(proc[p].page) > 0]
  /\ UNCHANGED <<fds, ref, file>>
-----------------------------------------------------------------------------
(* What the kernel does for p without p's asking. *)
Kernel(p) == \/ At(p, "alloc") /\ Filealloc(p)
             \/ PipeFails(p) \/ SysPipe(p)
             \/ Fileclose(p) \/ Pipeclose(p) \/ CloseReturns(p)
             \/ Piperead(p) \/ PipereadWaits(p) \/ PipereadGivesUp(p)
             \/ Pipewrite(p) \/ PipewriteWaits(p) \/ PipewriteGivesUp(p)
             \/ (proc[p].killed \/ proc[p].exiting) /\ Exit(p)

Next == \E p \in Procs : \/ Kernel(p) \/ Filealloc(p) \/ Dup(p) \/ Close(p) \/ Fork(p) \/ Exit(p) \/ Kill(p)
                         \/ Read(p) \/ Write(p)

(* The scheduler runs every runnable process again and again.              *)
Spec == Init /\ [][Next]_vars /\ \A p \in Procs : WF_vars(Kernel(p))
-----------------------------------------------------------------------------
(* A pipe never holds more than PIPESIZE bytes, also when nwrite and nread *)
(* have wrapped around.                                                    *)
Process == [pc : Places, exiting : BOOLEAN, killed : BOOLEAN, 
            hand : [1..2 -> Files \cup {None}], end : [page : Pages \cup {None}, writable : BOOLEAN],
            page : Pages \cup {None}, left : Nat]
TypeOK == /\ fds \in [Procs -> [Fd -> Files \cup {None}]]
          /\ ref \in [Files -> Nat]
          /\ file \in [Files -> [page : Pages \cup {None}, writable : BOOLEAN]]
          /\ pipe \in [Pages -> [nread : 0..UintMod-1, nwrite : 0..UintMod-1, 
                                 data : [0..PIPESIZE-1 -> Byte \cup {None}],
                                 used : BOOLEAN, readopen : BOOLEAN, writeopen : BOOLEAN]]
          /\ proc \in [Procs -> Process]
          /\ cut \in [Pages -> BOOLEAN]
          /\ \A g \in Pages : Available(g) <= PIPESIZE

(* An open file is counted once for each descriptor of any process and     *)
(* for each process about to close it, and a pipe's end is open exactly as *)
(* long as some file or some process inside pipeclose stands for it: no    *)
(* entry and no page is reused while somebody can name it, and none leaks, *)
(* whatever pipe() fails at and whoever is killed.                         *)
Named(f) == Cardinality({x \in Procs \X Fd : fds[x[1]][x[2]] = f})
InHand(f) == Cardinality({x \in Procs \X (1..2) : proc[x[1]].hand[x[2]] = f})
StoodFor(e) == \/ \E f \in Files : file[f] = e
               \/ \E p \in Procs : At(p, "pipeclose") /\ proc[p].end = e
RefExact == 
  /\ \A f \in Files : ref[f] = Named(f) + InHand(f)
  /\ \A g \in Pages : 
       /\ pipe[g].readopen  <=> StoodFor([page |-> g, writable |-> FALSE])
       /\ pipe[g].writeopen <=> StoodFor([page |-> g, writable |-> TRUE])
       /\ pipe[g].used <=> pipe[g].readopen \/ pipe[g].writeopen

(* A reader sleeps only on an empty pipe that can still be written, a      *)
(* writer only on a full one that can still be read.  The exception is a   *)
(* killed writer that filled the pipe and left without waking the readers. *)
NoLostWakeup == \A p \in Procs : 
  LET g == proc[p].page
  IN /\ At(p, "readsleeps")  => pipe[g].writeopen /\ (Empty(g) \/ cut[g])
     /\ At(p, "writesleeps") => pipe[g].readopen /\ Full(g)

(* When the last descriptor of one end is gone, whether closed or lost     *)
(* with a process, everybody at the other end comes back from the call.    *)
HasFd(g, writable) == \E q \in Procs : \E d \in OpenFds(q) : file[fds[q][d]] = [page |-> g, writable |-> writable]
Deserted(p) == \/ proc[p].pc \in {"read", "readsleeps"} /\ ~HasFd(proc[p].page, TRUE)
               \/ proc[p].pc \in {"write", "writesleeps"} /\ ~HasFd(proc[p].page, FALSE)
EndsSeen == \A p \in Procs : []<>~Deserted(p)

(* A killed process exits, for kill() "wakes it from sleep if necessary"   *)
(* (proc.c).  Not so when kill() comes between the test and the sleep.     *)
KilledExits == \A p \in Procs : proc[p].killed ~> ~proc[p].killed

(* The buffer with its wrapping counters implements a byte stream.         *)
Items(g) == IF pipe[g].used THEN Copied(g, Available(g)) ELSE <<>>
OpenEnds(g) == (IF pipe[g].readopen THEN {"r"} ELSE {}) \cup (IF pipe[g].writeopen THEN {"w"} ELSE {})
Stream == INSTANCE Streams WITH Bytes <- Byte, Capacity <- PIPESIZE, items <- [g \in Pages |-> Items(g)],
                                ends <- [g \in Pages |-> OpenEnds(g)]
Implements == Stream!Spec
=============================================================================
