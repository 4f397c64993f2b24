----------------------------- MODULE PipeProofs -----------------------------
(* Theorems about Pipe: for any number of processes, files and pipes of    *)
(* any size every open file and every end is counted exactly, nobody       *)
(* sleeps past a wakeup, and the ring with its wrapping counters           *)
(* implements Streams.                                                     *)
EXTENDS Pipe, FiniteSetTheorems, SequenceTheorems, TLAPS

\* The places that name file f, among descriptors or among files in hand.
Cells(m, D, f) == {x \in Procs \X D : m[x[1]][x[2]] = f}
Hands == [p \in Procs |-> proc[p].hand]
Slots == 1..2

Counted == \A f \in Files : ref[f] = Named(f) + InHand(f)

\* What a process at each place has in hand.
HandInv == \A p \in Procs :
  /\ At(p, "none") => proc[p] = Unused /\ OpenFds(p) = {}
  /\ proc[p].hand # NoFiles => proc[p].pc \in {"alloc", "close", "pipeclose"}
  /\ At(p, "alloc") => proc[p].hand[1] # None
  /\ At(p, "pipeclose") => proc[p].end.page # None

\* Which files stand for a pipe.
FileInv ==
  /\ \A f \in Files : ref[f] = 0 => file[f].page = None
  /\ \A f \in Files : file[f].page = None => file[f] = NoPipe
  /\ \A p \in Procs, d \in Fd : fds[p][d] # None => file[fds[p][d]].page # None
  /\ \A p \in Procs, i \in Slots :
       At(p, "alloc") /\ proc[p].hand[i] # None =>
         ref[proc[p].hand[i]] = 1 /\ file[proc[p].hand[i]].page = None

Types ==
  /\ fds \in [Procs -> [Fd -> Files \cup {None}]]
  /\ ref \in [Files -> Nat]
  /\ file \in [Files -> [page : Pages \cup {None}, writable : BOOLEAN]]
  /\ pipe \in [Pages -> [nread : 0..UintMod-1, nwrite : 0..UintMod-1, 
                         data : [0..PIPESIZE-1 -> Byte \cup {None}],
                         used : BOOLEAN, readopen : BOOLEAN, writeopen : BOOLEAN]]
  /\ proc \in [Procs -> Process]
  /\ cut \in [Pages -> BOOLEAN]
-----------------------------------------------------------------------------
LEMMA Constants ==
  /\ NOFILE \in Nat /\ NOFILE > 0 /\ NFILE \in Nat /\ NFILE > 0
  /\ PIPESIZE \in Nat /\ PIPESIZE > 0 /\ UintMod \in Nat /\ UintMod > PIPESIZE
  /\ Counts \subseteq Nat \ {0}
  /\ None \notin Procs /\ None \notin Pages /\ None \notin Files
  /\ First \in Procs /\ IsFiniteSet(Procs) /\ IsFiniteSet(Fd) /\ IsFiniteSet(Slots)
<1>1. NOFILE - 1 \in Int /\ 0 \in Int /\ 1 \in Int /\ 2 \in Int
  BY SizeAssumption
<1>2. IsFiniteSet(0..NOFILE-1) /\ IsFiniteSet(1..2)
  BY <1>1, FS_Interval
<1> QED
  BY <1>2, SizeAssumption, NameAssumption DEF Files, Fd, Slots

LEMMA CellsFinite ==
  ASSUME NEW D, IsFiniteSet(D), NEW m, NEW f
  PROVE  IsFiniteSet(Cells(m, D, f)) /\ Cardinality(Cells(m, D, f)) \in Nat
<1>1. IsFiniteSet(Procs \X D)
  BY FS_Product, Constants
<1>2. Cells(m, D, f) \in SUBSET (Procs \X D)
  BY DEF Cells
<1>3. IsFiniteSet(Cells(m, D, f))
  BY <1>1, <1>2, FS_Subset
<1> QED
  BY <1>3, FS_CardinalityType

\* m becomes n by putting v at one place.
Sets(m, n, D, p, d, v) ==
  /\ p \in Procs /\ d \in D
  /\ n[p][d] = v
  /\ \A q \in Procs, e \in D : q # p \/ e # d => n[q][e] = m[q][e]

Change(old, new, f) == IF old = f /\ new # f THEN -1
                       ELSE IF old # f /\ new = f THEN 1 ELSE 0

LEMMA CellsSet ==
  ASSUME NEW D, IsFiniteSet(D), NEW m, NEW n, NEW p, NEW d, NEW v, NEW f,
         Sets(m, n, D, p, d, v)
  PROVE  Cardinality(Cells(n, D, f)) = Cardinality(Cells(m, D, f)) + Change(m[p][d], v, f)
<1>0. IsFiniteSet(Cells(m, D, f)) /\ Cardinality(Cells(m, D, f)) \in Nat
  BY CellsFinite
<1>1. CASE m[p][d] = f /\ v # f
  <2>1. Cells(n, D, f) = Cells(m, D, f) \ {<<p, d>>} /\ <<p, d>> \in Cells(m, D, f)
    BY <1>1 DEF Cells, Sets
  <2>2. Cardinality(Cells(m, D, f) \ {<<p, d>>}) = Cardinality(Cells(m, D, f)) - 1
    BY <2>1, <1>0, FS_RemoveElement
  <2> QED
    BY <1>0, <1>1, <2>1, <2>2 DEF Change
<1>2. CASE m[p][d] # f /\ v = f
  <2>1. Cells(n, D, f) = Cells(m, D, f) \cup {<<p, d>>} /\ <<p, d>> \notin Cells(m, D, f)
    BY <1>2 DEF Cells, Sets
  <2>2. Cardinality(Cells(m, D, f) \cup {<<p, d>>}) = Cardinality(Cells(m, D, f)) + 1
    BY <2>1, <1>0, FS_AddElement
  <2> QED
    BY <1>0, <1>2, <2>1, <2>2 DEF Change
<1>3. CASE m[p][d] = f <=> v = f
  <2>1. Cells(n, D, f) = Cells(m, D, f)
    BY <1>3 DEF Cells, Sets
  <2> QED
    BY <1>0, <2>1, <1>3 DEF Change
<1> QED
  BY <1>1, <1>2, <1>3

\* One place is counted, and two different ones are counted twice.
LEMMA CellsCount ==
  ASSUME NEW D, IsFiniteSet(D), NEW m, NEW f,
         NEW p \in Procs, NEW d \in D, m[p][d] = f
  PROVE  /\ Cardinality(Cells(m, D, f)) >= 1
         /\ \A q \in Procs, e \in D :
              m[q][e] = f /\ (q # p \/ e # d) => Cardinality(Cells(m, D, f)) >= 2
<1>0. IsFiniteSet(Cells(m, D, f)) /\ Cardinality(Cells(m, D, f)) \in Nat
  BY CellsFinite
<1>1. <<p, d>> \in Cells(m, D, f)
  BY DEF Cells
<1>2. Cardinality(Cells(m, D, f)) # 0
  BY <1>0, <1>1, FS_EmptySet
<1>3. ASSUME NEW q \in Procs, NEW e \in D, m[q][e] = f, q # p \/ e # d
      PROVE  Cardinality(Cells(m, D, f)) # 1
  <2>1. <<q, e>> \in Cells(m, D, f) /\ <<q, e>> # <<p, d>>
    BY <1>3 DEF Cells
  <2> QED
    BY <1>0, <1>1, <2>1, FS_Singleton
<1> QED
  BY <1>0, <1>2, <1>3
-----------------------------------------------------------------------------
(* The counts of RefExact as sizes of Cells, and how they change. *)

LEMMA CountsAre ==
  \A f : /\ Named(f) = Cardinality(Cells(fds, Fd, f)) /\ Named(f) \in Nat
         /\ InHand(f) = Cardinality(Cells(Hands, Slots, f)) /\ InHand(f) \in Nat
<1> TAKE f
<1>1. Named(f) = Cardinality(Cells(fds, Fd, f))
  BY DEF Named, Cells
<1>2. {x \in Procs \X (1..2) : proc[x[1]].hand[x[2]] = f} = Cells(Hands, Slots, f)
  BY DEF Cells, Hands, Slots
<1>3. InHand(f) = Cardinality(Cells(Hands, Slots, f))
  BY <1>2 DEF InHand
<1> QED
  BY <1>1, <1>3, CellsFinite, Constants

LEMMA CountsAreNext ==
  \A f : /\ Named(f)' = Cardinality(Cells(fds', Fd, f))
         /\ InHand(f)' = Cardinality(Cells(Hands', Slots, f))
<1>1. (\A f : /\ Named(f) = Cardinality(Cells(fds, Fd, f))
              /\ InHand(f) = Cardinality(Cells(Hands, Slots, f)))'
  <2>1. \A f : /\ Named(f) = Cardinality(Cells(fds, Fd, f))
               /\ InHand(f) = Cardinality(Cells(Hands, Slots, f))
    BY CountsAre
  <2> QED
    BY <2>1, PTL
<1> QED
  BY <1>1 DEF Cells

LEMMA NamedChange ==
  ASSUME NEW p \in Procs, NEW d \in Fd, NEW v, Sets(fds, fds', Fd, p, d, v)
  PROVE  \A f : Named(f)' = Named(f) + Change(fds[p][d], v, f)
  BY CountsAre, CountsAreNext, CellsSet, Constants

LEMMA InHandChange ==
  ASSUME NEW p \in Procs, NEW i \in Slots, NEW v, Sets(Hands, Hands', Slots, p, i, v)
  PROVE  \A f : InHand(f)' = InHand(f) + Change(proc[p].hand[i], v, f)
<1>1. Hands[p][i] = proc[p].hand[i]
  BY DEF Hands
<1> QED
  BY <1>1, CountsAre, CountsAreNext, CellsSet, Constants

LEMMA NamedSame ==
  ASSUME fds' = fds
  PROVE  \A f : Named(f)' = Named(f)
  BY CountsAre, CountsAreNext

LEMMA InHandSame ==
  ASSUME \A p \in Procs : proc'[p].hand = proc[p].hand
  PROVE  \A f : InHand(f)' = InHand(f)
<1>1. \A f : Cells(Hands', Slots, f) = Cells(Hands, Slots, f)
  BY DEF Cells, Hands
<1> QED
  BY <1>1, CountsAre, CountsAreNext

\* Who else can name a file that a process has a descriptor of, or in hand.
LEMMA Alone ==
  ASSUME Types, Counted
  PROVE  /\ \A p \in Procs, d \in Fd : fds[p][d] # None =>
              fds[p][d] \in Files /\ ref[fds[p][d]] >= 1
         /\ \A p \in Procs, i \in Slots : proc[p].hand[i] # None =>
              proc[p].hand[i] \in Files /\ ref[proc[p].hand[i]] >= 1
         /\ \A p, q \in Procs, i \in Slots, d \in Fd :
              proc[p].hand[i] # None /\ fds[q][d] = proc[p].hand[i] =>
                ref[proc[p].hand[i]] >= 2
         /\ \A p, q \in Procs, i, j \in Slots :
              proc[p].hand[i] # None /\ proc[q].hand[j] = proc[p].hand[i]
                /\ (p # q \/ i # j) =>
                ref[proc[p].hand[i]] >= 2
<1>1. \A p \in Procs, d \in Fd : fds[p][d] # None =>
        fds[p][d] \in Files /\ Named(fds[p][d]) >= 1
  BY CountsAre, CellsCount, Constants DEF Types
<1>2. \A p \in Procs, i \in Slots : Hands[p][i] = proc[p].hand[i]
  BY DEF Hands
<1>3. \A p \in Procs, i \in Slots : proc[p].hand[i] # None => proc[p].hand[i] \in Files
  BY DEF Types, Process, Slots
<1>4. \A p \in Procs, i \in Slots : proc[p].hand[i] # None => InHand(proc[p].hand[i]) >= 1
  BY <1>2, CountsAre, CellsCount, Constants
<1>5. ASSUME NEW p \in Procs, NEW q \in Procs, NEW i \in Slots, NEW j \in Slots,
             proc[p].hand[i] # None, proc[q].hand[j] = proc[p].hand[i], p # q \/ i # j
      PROVE  InHand(proc[p].hand[i]) >= 2
  <2>1. Hands[p][i] = proc[p].hand[i] /\ Hands[q][j] = proc[p].hand[i]
    BY <1>2, <1>5
  <2>2. Cardinality(Cells(Hands, Slots, proc[p].hand[i])) >= 2
    BY <1>5, <2>1, CellsCount, Constants
  <2> QED
    BY <2>2, CountsAre
<1> QED
  BY <1>1, <1>3, <1>4, <1>5, CountsAre DEF Counted
-----------------------------------------------------------------------------
(* Arithmetic of the counters. *)

LEMMA ModUintMod ==
  ASSUME NEW x \in Int
  PROVE  /\ 0 <= x /\ x < UintMod => x % UintMod = x
         /\ UintMod <= x /\ x < 2 * UintMod => x % UintMod = x - UintMod
         /\ -UintMod <= x /\ x < 0 => x % UintMod = x + UintMod
         /\ x % UintMod \in 0..UintMod - 1
  BY Constants

-----------------------------------------------------------------------------
(* Files: the counts, what is in hand, and which files stand for a pipe.   *)

FInv == Types /\ Counted /\ HandInv /\ FileInv

LEMMA Basics ==
  ASSUME Types
  PROVE  /\ \A p \in Procs :
              /\ proc[p] \in Process /\ proc[p].hand \in [Slots -> Files \cup {None}]
              /\ proc[p].pc \in Places /\ proc[p].page \in Pages \cup {None}
              /\ proc[p].end \in [page : Pages \cup {None}, writable : BOOLEAN]
              /\ \A i \in Slots : proc[p].hand[i] \in Files \cup {None}
              /\ \A d \in Fd : fds[p][d] \in Files \cup {None}
         /\ \A f \in Files : /\ ref[f] \in Nat
                             /\ file[f] \in [page : Pages \cup {None}, writable : BOOLEAN]
                             /\ file[f].page \in Pages \cup {None}
         /\ NoFiles \in [Slots -> Files \cup {None}] /\ 1 \in Slots /\ 2 \in Slots
         /\ \A i \in Slots : NoFiles[i] = None
         /\ NoPipe \in [page : Pages \cup {None}, writable : BOOLEAN] /\ NoPipe.page = None
         /\ Unused \in Process
<1>1. \A p \in Procs : proc[p] \in Process
  BY DEF Types
<1>2. \A p \in Procs :
         /\ proc[p].hand \in [Slots -> Files \cup {None}]
         /\ proc[p].pc \in Places /\ proc[p].page \in Pages \cup {None}
         /\ proc[p].end \in [page : Pages \cup {None}, writable : BOOLEAN]
  BY <1>1 DEF Process, Slots
<1>3. \A f \in Files : /\ ref[f] \in Nat
                       /\ file[f] \in [page : Pages \cup {None}, writable : BOOLEAN]
                       /\ file[f].page \in Pages \cup {None}
  BY DEF Types
<1>4. NoFiles \in [Slots -> Files \cup {None}] /\ 1 \in Slots /\ 2 \in Slots
      /\ \A i \in Slots : NoFiles[i] = None
  BY DEF NoFiles, Slots
<1>5. NoPipe \in [page : Pages \cup {None}, writable : BOOLEAN] /\ NoPipe.page = None
  BY DEF NoPipe
<1>6. Unused \in Process
  BY <1>4, <1>5 DEF Unused, Process, Places, Slots
<1>7. \A p \in Procs : \A d \in Fd : fds[p][d] \in Files \cup {None}
  BY DEF Types
<1> QED
  BY <1>1, <1>2, <1>3, <1>4, <1>5, <1>6, <1>7

\* One process goes to another place and changes a file in hand.
Taken(p, pc, i, v, e) ==
  /\ proc' \in [Procs -> Process]
  /\ \A q \in Procs : q # p => proc'[q] = proc[q]
  /\ proc'[p].pc = pc /\ proc'[p].hand[i] = v
  /\ \A j \in Slots : j # i => proc'[p].hand[j] = proc[p].hand[j]
  /\ proc'[p].end = e
  /\ Sets(Hands, Hands', Slots, p, i, v)

LEMMA TakenFrom ==
  ASSUME Types, NEW p \in Procs, NEW r, proc' = [proc EXCEPT ![p] = r], r \in Process,
         NEW i \in Slots, NEW v \in Files \cup {None},
         r.hand = [proc[p].hand EXCEPT ![i] = v]
  PROVE  Taken(p, r.pc, i, v, r.end)
<1>1. proc[p].hand \in [Slots -> Files \cup {None}]
  BY Basics
<1>2. r.hand[i] = v /\ \A j \in Slots : j # i => r.hand[j] = proc[p].hand[j]
  BY <1>1
<1>3. /\ proc' \in [Procs -> Process] /\ proc'[p] = r
      /\ \A q \in Procs : q # p => proc'[q] = proc[q]
  BY DEF Types
<1>4. Sets(Hands, Hands', Slots, p, i, v)
  BY <1>2, <1>3 DEF Sets, Hands
<1> QED
  BY <1>2, <1>3, <1>4 DEF Taken

LEMMA HoldTaken ==
  ASSUME Types, NEW p \in Procs, NEW pc \in Places, NEW i \in Slots,
         NEW v \in Files \cup {None}, proc' = Hold(p, pc, i, v)
  PROVE  Taken(p, pc, i, v, proc[p].end)
<1>1. PICK h : h = [proc[p].hand EXCEPT ![i] = v]
  OBVIOUS
<1>2. PICK r : r = [proc[p] EXCEPT !.pc = pc, !.hand = h]
  OBVIOUS
<1>3. proc[p] \in Process /\ h \in [Slots -> Files \cup {None}]
  BY <1>1, Basics
<1>4. r \in Process /\ r.pc = pc /\ r.hand = h /\ r.end = proc[p].end
  BY <1>2, <1>3 DEF Process, Slots
<1>5. proc' = [proc EXCEPT ![p] = r]
  BY <1>1, <1>2 DEF Hold
<1> QED
  BY <1>1, <1>4, <1>5, TakenFrom

LEMMA HoldEndTaken ==
  ASSUME Types, NEW p \in Procs, NEW pc \in Places, NEW i \in Slots,
         NEW v \in Files \cup {None}, NEW e \in [page : Pages \cup {None}, writable : BOOLEAN],
         proc' = [Hold(p, pc, i, v) EXCEPT ![p].end = e]
  PROVE  Taken(p, pc, i, v, e)
<1>1. PICK h : h = [proc[p].hand EXCEPT ![i] = v]
  OBVIOUS
<1>2. PICK s : s = [proc[p] EXCEPT !.pc = pc, !.hand = h]
  OBVIOUS
<1>3. PICK r : r = [s EXCEPT !.end = e]
  OBVIOUS
<1>4. proc[p] \in Process /\ h \in [Slots -> Files \cup {None}]
  BY <1>1, Basics
<1>5. s \in Process /\ s.pc = pc /\ s.hand = h
  BY <1>2, <1>4 DEF Process, Slots
<1>6. r \in Process /\ r.pc = pc /\ r.hand = h /\ r.end = e
  BY <1>3, <1>5 DEF Process
<1>7. Hold(p, pc, i, v) = [proc EXCEPT ![p] = s]
  BY <1>1, <1>2 DEF Hold
<1>8. proc' = [proc EXCEPT ![p] = r]
  BY <1>3, <1>5, <1>7 DEF Types
<1> QED
  BY <1>1, <1>6, <1>8, TakenFrom

LEMMA HoldExitTaken ==
  ASSUME Types, NEW p \in Procs, NEW pc \in Places, NEW i \in Slots,
         NEW v \in Files \cup {None},
         proc' = [Hold(p, pc, i, v) EXCEPT ![p].exiting = TRUE]
  PROVE  Taken(p, pc, i, v, proc[p].end)
<1>1. PICK h : h = [proc[p].hand EXCEPT ![i] = v]
  OBVIOUS
<1>2. PICK s : s = [proc[p] EXCEPT !.pc = pc, !.hand = h]
  OBVIOUS
<1>3. PICK r : r = [s EXCEPT !.exiting = TRUE]
  OBVIOUS
<1>4. proc[p] \in Process /\ h \in [Slots -> Files \cup {None}]
  BY <1>1, Basics
<1>5. s \in Process /\ s.pc = pc /\ s.hand = h /\ s.end = proc[p].end
  BY <1>2, <1>4 DEF Process, Slots
<1>6. r \in Process /\ r.pc = pc /\ r.hand = h /\ r.end = proc[p].end
  BY <1>3, <1>5 DEF Process
<1>7. Hold(p, pc, i, v) = [proc EXCEPT ![p] = s]
  BY <1>1, <1>2 DEF Hold
<1>8. proc' = [proc EXCEPT ![p] = r]
  BY <1>3, <1>5, <1>7 DEF Types
<1> QED
  BY <1>1, <1>6, <1>8, TakenFrom

\* Steps that leave descriptors, files and hands alone.
Quiet ==
  /\ UNCHANGED <<fds, ref, file>>
  /\ Types'
  /\ \A q \in Procs :
       /\ proc'[q].hand = proc[q].hand
       /\ proc'[q].pc = "none" => proc'[q] = Unused /\ OpenFds(q) = {}
       /\ proc[q].hand # NoFiles => proc'[q].pc \in {"alloc", "close", "pipeclose"}
       /\ proc'[q].pc = "alloc" => At(q, "alloc")
       /\ proc'[q].pc = "pipeclose" => proc'[q].end.page # None

LEMMA QuietFInv ==
  ASSUME FInv, Quiet
  PROVE  FInv'
<1>1. Counted'
  <2>1. \A f : Named(f)' = Named(f) /\ InHand(f)' = InHand(f)
    BY NamedSame, InHandSame DEF Quiet
  <2> QED
    BY <2>1 DEF Quiet, FInv, Counted
<1>2. HandInv'
  BY DEF Quiet, FInv, HandInv, At, OpenFds
<1>3. FileInv'
  BY DEF Quiet, FInv, FileInv, At
<1> QED
  BY <1>1, <1>2, <1>3 DEF FInv, Quiet

LEMMA FileallocFInv ==
  ASSUME FInv, NEW p \in Procs, Filealloc(p)
  PROVE  FInv'
<1>0. Types /\ Counted /\ HandInv /\ FileInv
  BY DEF FInv
<1>1. PICK i \in 1..2, f \in Files :
        /\ IF i = 1 THEN Calls(p) ELSE At(p, "alloc") /\ proc[p].hand[2] = None
        /\ IsLeast(f, {h \in Files : ref[h] = 0})
        /\ ref' = [ref EXCEPT ![f] = 1]
        /\ proc' = Hold(p, "alloc", i, f)
  BY DEF Filealloc
<1>2. i \in Slots /\ ref[f] = 0 /\ f # None /\ proc[p].hand[i] = None
  <2>1. ref[f] = 0
    BY <1>1 DEF IsLeast
  <2>2. i = 1 => proc[p].hand[i] = None
    BY <1>0, <1>1, Basics DEF HandInv, Calls, At
  <2>3. i # 1 => proc[p].hand[i] = None
    <3>1. i # 1 => i = 2
      OBVIOUS
    <3> QED
      BY <1>1, <3>1
  <2> QED
    BY <1>1, <2>1, <2>2, <2>3, Constants DEF Slots
<1>3. "alloc" \in Places /\ f \in Files \cup {None}
  BY DEF Places
<1>4. /\ ref' \in [Files -> Nat] /\ ref'[f] = 1
      /\ \A h \in Files : h # f => ref'[h] = ref[h]
      /\ UNCHANGED <<fds, file, pipe, cut>>
  BY <1>0, <1>1 DEF Types, Filealloc
<1>t. Taken(p, "alloc", i, f, proc[p].end)
  BY <1>0, <1>1, <1>2, <1>3, HoldTaken
<1>5. /\ proc' \in [Procs -> Process]
      /\ \A q \in Procs : q # p => proc'[q] = proc[q]
      /\ proc'[p].pc = "alloc" /\ proc'[p].hand[i] = f
      /\ \A j \in Slots : j # i => proc'[p].hand[j] = proc[p].hand[j]
  BY <1>t DEF Taken
<1>6. Types'
  BY <1>0, <1>4, <1>5 DEF Types
<1>7. Counted'
  <2>1. \A h : Named(h)' = Named(h)
    BY <1>4, NamedSame
  <2>2. Sets(Hands, Hands', Slots, p, i, f)
    BY <1>t DEF Taken
  <2>3. \A h : InHand(h)' = InHand(h) + Change(None, f, h)
    BY <1>2, <2>2, InHandChange
  <2>4. \A h \in Files : Change(None, f, h) = IF h = f THEN 1 ELSE 0
    BY Constants DEF Change
  <2>5. \A h \in Files : Named(h) \in Nat /\ InHand(h) \in Nat /\ ref[h] = Named(h) + InHand(h)
    BY <1>0, CountsAre DEF Counted
  <2>6. ASSUME NEW h \in Files PROVE ref'[h] = Named(h)' + InHand(h)'
    BY <1>2, <1>4, <2>1, <2>3, <2>4, <2>5
  <2> QED
    BY <2>6 DEF Counted
<1>8. proc'[p].hand[1] # None
  <2>1. CASE i = 1
    BY <1>2, <1>5, <2>1
  <2>2. CASE i # 1
    BY <1>0, <1>1, <1>5, <2>2, Basics DEF HandInv
  <2> QED
    BY <2>1, <2>2
<1>9. HandInv'
  BY <1>0, <1>4, <1>5, <1>8 DEF HandInv, At, OpenFds
<1>10. ASSUME NEW q \in Procs, NEW j \in Slots, proc'[q].pc = "alloc", proc'[q].hand[j] # None
       PROVE  ref'[proc'[q].hand[j]] = 1 /\ file[proc'[q].hand[j]].page = None
  <2>1. CASE q = p /\ j = i
    BY <1>0, <1>2, <1>4, <1>5, <2>1 DEF FileInv
  <2>2. CASE q # p \/ j # i
    <3>1. At(q, "alloc") /\ proc'[q].hand[j] = proc[q].hand[j]
      <4>1. CASE q # p
        BY <1>5, <1>10, <4>1 DEF At
      <4>2. CASE q = p
        <5>1. j # i
          BY <2>2, <4>2
        <5>2. proc[p].hand[j] # None
          BY <1>5, <1>10, <4>2, <5>1
        <5>3. ~Calls(p)
          BY <1>0, <5>2, Basics DEF HandInv, Calls, At
        <5> QED
          BY <1>1, <1>5, <4>2, <5>1, <5>3
      <4> QED
        BY <4>1, <4>2
    <3>2. ref[proc[q].hand[j]] = 1 /\ file[proc[q].hand[j]].page = None
      BY <1>0, <1>10, <3>1 DEF FileInv
    <3>3. proc[q].hand[j] \in Files
      BY <1>0, <1>10, <3>1, Basics
    <3> QED
      BY <1>2, <1>4, <3>1, <3>2, <3>3
  <2> QED
    BY <2>1, <2>2
<1>11. FileInv'
  BY <1>0, <1>2, <1>4, <1>10 DEF FileInv, At
<1> QED
  BY <1>6, <1>7, <1>9, <1>11 DEF FInv

LEMMA FdSets ==
  ASSUME Types, NEW p \in Procs, NEW d \in Fd, NEW v \in Files \cup {None},
         fds' = [fds EXCEPT ![p][d] = v]
  PROVE  fds' \in [Procs -> [Fd -> Files \cup {None}]] /\ Sets(fds, fds', Fd, p, d, v)
<1>1. fds \in [Procs -> [Fd -> Files \cup {None}]]
  BY DEF Types
<1> QED
  BY <1>1 DEF Sets

\* close(), and each step of exit(): a file passes from a descriptor into the
\* hand of the process.
LEMMA FdToHandFInv ==
  ASSUME FInv, NEW p \in Procs, NEW d \in OpenFds(p), proc[p].hand = NoFiles,
         fds' = [fds EXCEPT ![p][d] = None], Taken(p, "close", 1, fds[p][d], proc[p].end),
         ~At(p, "none"), UNCHANGED <<ref, file, pipe, cut>>
  PROVE  FInv'
<1>0. Types /\ Counted /\ HandInv /\ FileInv
  BY DEF FInv
<1>1. PICK f \in Files : f = fds[p][d] /\ f # None /\ d \in Fd
  BY <1>0, Basics, Constants DEF OpenFds
<1>2. "close" \in Places /\ 1 \in Slots /\ f \in Files \cup {None} /\ proc[p].hand[1] = None
  BY <1>0, Basics DEF Places
<1>3. Taken(p, "close", 1, f, proc[p].end)
  BY <1>1
<1>4. fds' \in [Procs -> [Fd -> Files \cup {None}]] /\ Sets(fds, fds', Fd, p, d, None)
  BY <1>0, <1>1, FdSets
<1>5. \A q \in Procs, e \in Fd : fds'[q][e] # None => fds[q][e] # None /\ fds'[q][e] = fds[q][e]
  BY <1>4 DEF Sets
<1>6. Types'
  BY <1>0, <1>3, <1>4 DEF Types, Taken
<1>7. Counted'
  <2>1. \A h : Named(h)' = Named(h) + Change(f, None, h)
    <3>1. \A h : Named(h)' = Named(h) + Change(fds[p][d], None, h)
      BY <1>1, <1>4, NamedChange
    <3> QED
      BY <1>1, <3>1
  <2>2. \A h : InHand(h)' = InHand(h) + Change(None, f, h)
    <3>1. Sets(Hands, Hands', Slots, p, 1, f)
      BY <1>3 DEF Taken
    <3> QED
      BY <1>2, <3>1, InHandChange
  <2>3. \A h \in Files : /\ Change(None, f, h) = IF h = f THEN 1 ELSE 0
                         /\ Change(f, None, h) = IF h = f THEN -1 ELSE 0
    BY Constants DEF Change
  <2>4. \A h \in Files : Named(h) \in Nat /\ InHand(h) \in Nat /\ ref[h] = Named(h) + InHand(h)
    BY <1>0, CountsAre DEF Counted
  <2>5. ASSUME NEW h \in Files PROVE ref'[h] = Named(h)' + InHand(h)'
    BY <2>1, <2>2, <2>3, <2>4
  <2> QED
    BY <2>5 DEF Counted
<1>8. HandInv'
  <2>1. \A q \in Procs : q # p => OpenFds(q)' = OpenFds(q)
    BY <1>4 DEF Sets, OpenFds
  <2> QED
    BY <1>0, <1>3, <2>1 DEF HandInv, At, Taken
<1>9. FileInv'
  <2>1. \A q \in Procs : proc'[q].pc = "alloc" => proc'[q] = proc[q]
    BY <1>3 DEF Taken
  <2>2. \A q \in Procs, e \in Fd : fds'[q][e] # None => file[fds'[q][e]].page # None
    BY <1>0, <1>5 DEF FileInv
  <2>3. \A q \in Procs, i \in Slots :
          proc'[q].pc = "alloc" /\ proc'[q].hand[i] # None =>
            ref[proc'[q].hand[i]] = 1 /\ file[proc'[q].hand[i]].page = None
    BY <1>0, <2>1 DEF FileInv, At
  <2> QED
    BY <1>0, <2>2, <2>3 DEF FileInv, At
<1> QED
  BY <1>6, <1>7, <1>8, <1>9 DEF FInv

\* close() and exit() take a descriptor into hand.
LEMMA ClosesTaken ==
  ASSUME Types, HandInv, NEW p \in Procs, Close(p) \/ (Exit(p) /\ OpenFds(p) # {})
  PROVE  \E d \in OpenFds(p) : /\ fds' = [fds EXCEPT ![p][d] = None]
                               /\ Taken(p, "close", 1, fds[p][d], proc[p].end)
                               /\ UNCHANGED <<ref, file, pipe, cut>>
<1>1. PICK d \in OpenFds(p) :
        /\ fds' = [fds EXCEPT ![p][d] = None]
        /\ \/ proc' = Hold(p, "close", 1, fds[p][d])
           \/ proc' = [Hold(p, "close", 1, fds[p][d]) EXCEPT ![p].exiting = TRUE]
        /\ UNCHANGED <<ref, file, pipe, cut>>
  BY DEF Close, Exit
<1>2. "close" \in Places /\ 1 \in Slots /\ fds[p][d] \in Files \cup {None} /\ d \in Fd
  BY Basics DEF Places, OpenFds
<1>3. Taken(p, "close", 1, fds[p][d], proc[p].end)
  BY <1>1, <1>2, HoldTaken, HoldExitTaken
<1> QED
  BY <1>1, <1>3

LEMMA CloseFInv ==
  ASSUME FInv, NEW p \in Procs, Close(p) \/ (Exit(p) /\ OpenFds(p) # {})
  PROVE  FInv'
<1>0. Types /\ HandInv
  BY DEF FInv
<1>1. PICK d \in OpenFds(p) : /\ fds' = [fds EXCEPT ![p][d] = None]
                              /\ Taken(p, "close", 1, fds[p][d], proc[p].end)
                              /\ UNCHANGED <<ref, file, pipe, cut>>
  BY <1>0, ClosesTaken
<1>2. proc[p].hand = NoFiles /\ ~At(p, "none")
  BY <1>0 DEF HandInv, Close, Exit, Exiting, Calls, At
<1> QED
  BY <1>1, <1>2, FdToHandFInv

LEMMA DupFInv ==
  ASSUME FInv, NEW p \in Procs, Dup(p)
  PROVE  FInv'
<1>0. Types /\ Counted /\ HandInv /\ FileInv
  BY DEF FInv
<1>1. PICK d \in OpenFds(p), e \in FreeFds(p) :
        /\ fds' = [fds EXCEPT ![p][e] = fds[p][d]]
        /\ ref' = Dupped(fds[p][d])
  BY DEF Dup
<1>2. PICK f \in Files : f = fds[p][d] /\ f # None /\ d \in Fd
  BY <1>0, Basics, Constants DEF OpenFds
<1>3. e \in Fd /\ fds[p][e] = None /\ ~At(p, "none")
  BY DEF FreeFds, OpenFds, Dup, Calls, At
<1>4. fds' \in [Procs -> [Fd -> Files \cup {None}]] /\ Sets(fds, fds', Fd, p, e, f)
  BY <1>0, <1>1, <1>2, <1>3, FdSets
<1>5. UNCHANGED <<file, pipe, proc, cut>>
  BY DEF Dup
<1>6. /\ ref' \in [Files -> Nat] /\ ref'[f] = ref[f] + 1
      /\ \A h \in Files : h # f => ref'[h] = ref[h]
  BY <1>0, <1>1, <1>2 DEF Types, Dupped
<1>7. Types'
  BY <1>0, <1>4, <1>5, <1>6 DEF Types
<1>8. Counted'
  <2>1. \A h : Named(h)' = Named(h) + Change(None, f, h)
    BY <1>3, <1>4, NamedChange
  <2>2. \A h : InHand(h)' = InHand(h)
    BY <1>5, InHandSame
  <2>3. \A h \in Files : Change(None, f, h) = IF h = f THEN 1 ELSE 0
    BY Constants DEF Change
  <2>4. \A h \in Files : Named(h) \in Nat /\ InHand(h) \in Nat /\ ref[h] = Named(h) + InHand(h)
    BY <1>0, CountsAre DEF Counted
  <2>5. ASSUME NEW h \in Files PROVE ref'[h] = Named(h)' + InHand(h)'
    BY <1>6, <2>1, <2>2, <2>3, <2>4
  <2> QED
    BY <2>5 DEF Counted
<1>9. HandInv'
  <2>1. \A q \in Procs : q # p => OpenFds(q)' = OpenFds(q)
    BY <1>4 DEF Sets, OpenFds
  <2> QED
    BY <1>0, <1>3, <1>5, <2>1 DEF HandInv, At
<1>10. FileInv'
  <2>1. ASSUME NEW q \in Procs, NEW c \in Fd, fds'[q][c] # None
        PROVE  file[fds'[q][c]].page # None
    BY <1>0, <1>2, <1>4, <2>1 DEF Sets, FileInv
  <2>2. ASSUME NEW q \in Procs, NEW i \in Slots, At(q, "alloc"), proc[q].hand[i] # None
        PROVE  ref'[proc[q].hand[i]] = 1 /\ file[proc[q].hand[i]].page = None
    <3>1. ref[proc[q].hand[i]] = 1 /\ file[proc[q].hand[i]].page = None
      BY <1>0, <2>2 DEF FileInv
    <3>2. proc[q].hand[i] \in Files
      BY <1>0, <2>2, Basics
    <3>3. file[f].page # None
      BY <1>0, <1>2 DEF FileInv
    <3> QED
      BY <1>6, <3>1, <3>2, <3>3
  <2>3. \A h \in Files : ref'[h] = 0 => ref[h] = 0
    <3>1. ref[f] \in Nat
      BY <1>0, Basics
    <3> QED
      BY <1>6, <3>1
  <2> QED
    BY <1>0, <1>5, <2>1, <2>2, <2>3 DEF FileInv, At
<1> QED
  BY <1>7, <1>8, <1>9, <1>10 DEF FInv

\* The last reference empties the entry, and leaves a pipe's end to the process.
Dropped(p, i, f, pc, e) ==
  /\ At(p, "close") /\ proc[p].hand[i] = f /\ ref[f] >= 1
  /\ UNCHANGED <<fds, pipe, cut>>
  /\ ref' = [ref EXCEPT ![f] = ref[f] - 1]
  /\ Taken(p, pc, i, None, e)
  /\ \/ ref[f] # 1 /\ pc = "close" /\ file' = file
     \/ ref[f] = 1 /\ pc = "close" /\ file[f] = NoPipe /\ file' = [file EXCEPT ![f] = NoPipe]
     \/ /\ ref[f] = 1 /\ pc = "pipeclose" /\ file[f].page # None /\ e = file[f]
        /\ file' = [file EXCEPT ![f] = NoPipe]

LEMMA FilecloseShape ==
  ASSUME FInv, NEW p \in Procs, Fileclose(p)
  PROVE  \E i \in Slots, f \in Files, pc \in {"close", "pipeclose"}, 
            e \in [page : Pages \cup {None}, writable : BOOLEAN] : Dropped(p, i, f, pc, e)
<1>0. Types /\ Counted /\ HandInv /\ FileInv
  BY DEF FInv
<1>1. PICK i \in Slots, f \in Files :
        /\ proc[p].hand[i] = f
        /\ ref' = [ref EXCEPT ![f] = ref[f] - 1]
        /\ \/ /\ ref[f] = 1 /\ file' = [file EXCEPT ![f] = NoPipe]
              /\ proc' = [Hold(p, IF file[f] = NoPipe THEN "close" ELSE "pipeclose", i, None)
                            EXCEPT ![p].end = file[f]]
           \/ /\ ref[f] # 1 /\ proc' = Hold(p, "close", i, None) /\ file' = file
  BY DEF Fileclose, LastRef, Slots
<1>2. At(p, "close") /\ UNCHANGED <<fds, pipe, cut>> /\ f # None /\ ref[f] \in Nat /\ ref[f] >= 1
  BY <1>0, <1>1, Alone, Constants, Basics DEF Fileclose
<1>3. "close" \in Places /\ "pipeclose" \in Places /\ None \in Files \cup {None}
      /\ proc[p].end \in [page : Pages \cup {None}, writable : BOOLEAN]
      /\ file[f] \in [page : Pages \cup {None}, writable : BOOLEAN]
  BY <1>0, Basics DEF Places
<1>4. CASE ref[f] # 1
  <2>1. Taken(p, "close", i, None, proc[p].end)
    BY <1>0, <1>1, <1>3, <1>4, HoldTaken
  <2>2. Dropped(p, i, f, "close", proc[p].end)
    BY <1>1, <1>2, <1>4, <2>1 DEF Dropped
  <2> QED
    BY <1>3, <2>2
<1>5. CASE ref[f] = 1 /\ file[f] = NoPipe
  <2>1. Taken(p, "close", i, None, file[f])
    BY <1>0, <1>1, <1>3, <1>5, HoldEndTaken
  <2>2. Dropped(p, i, f, "close", file[f])
    BY <1>1, <1>2, <1>5, <2>1 DEF Dropped
  <2> QED
    BY <1>3, <2>2
<1>6. CASE ref[f] = 1 /\ file[f] # NoPipe
  <2>1. Taken(p, "pipeclose", i, None, file[f])
    BY <1>0, <1>1, <1>3, <1>6, HoldEndTaken
  <2>2. file[f].page # None
    BY <1>0, <1>6 DEF FileInv
  <2>3. Dropped(p, i, f, "pipeclose", file[f])
    BY <1>1, <1>2, <1>6, <2>1, <2>2 DEF Dropped
  <2> QED
    BY <1>3, <2>3
<1> QED
  BY <1>4, <1>5, <1>6

LEMMA FilecloseFInv ==
  ASSUME FInv, NEW p \in Procs, Fileclose(p)
  PROVE  FInv'
<1>0. Types /\ Counted /\ HandInv /\ FileInv
  BY DEF FInv
<1>s. PICK i \in Slots, f \in Files, pc \in {"close", "pipeclose"},
           e \in [page : Pages \cup {None}, writable : BOOLEAN] : Dropped(p, i, f, pc, e)
  BY FilecloseShape
<1>1. /\ proc[p].hand[i] = f
      /\ ref' = [ref EXCEPT ![f] = ref[f] - 1]
      /\ \/ ref[f] = 1 /\ file' = [file EXCEPT ![f] = NoPipe]
         \/ ref[f] # 1 /\ file' = file
  BY <1>s DEF Dropped
<1>2. At(p, "close") /\ UNCHANGED <<fds, pipe, cut>> /\ f # None /\ ref[f] \in Nat /\ ref[f] >= 1
  BY <1>0, <1>s, Constants, Basics DEF Dropped
<1>3. Taken(p, pc, i, None, e) /\ (pc = "pipeclose" => e.page # None)
  BY <1>s DEF Dropped
<1>4. /\ ref' \in [Files -> Nat] /\ ref'[f] = ref[f] - 1
      /\ \A h \in Files : h # f => ref'[h] = ref[h]
  BY <1>0, <1>1, <1>2 DEF Types
<1>5. /\ file' \in [Files -> [page : Pages \cup {None}, writable : BOOLEAN]]
      /\ \A h \in Files : h # f \/ ref[f] # 1 => file'[h] = file[h]
      /\ ref[f] = 1 => file'[f] = NoPipe
  <2>1. /\ file \in [Files -> [page : Pages \cup {None}, writable : BOOLEAN]]
        /\ NoPipe \in [page : Pages \cup {None}, writable : BOOLEAN]
    BY <1>0, Basics DEF Types
  <2>2. CASE ref[f] = 1 /\ file' = [file EXCEPT ![f] = NoPipe]
    BY <2>1, <2>2
  <2>3. CASE ref[f] # 1 /\ file' = file
    BY <2>1, <2>3
  <2> QED
    BY <1>1, <2>2, <2>3
<1>6. Types'
  BY <1>0, <1>2, <1>3, <1>4, <1>5 DEF Types, Taken
<1>7. Counted'
  <2>1. \A h : Named(h)' = Named(h)
    BY <1>2, NamedSame
  <2>2. \A h : InHand(h)' = InHand(h) + Change(f, None, h)
    <3>1. Sets(Hands, Hands', Slots, p, i, None)
      BY <1>3 DEF Taken
    <3> QED
      BY <1>1, <3>1, InHandChange
  <2>3. \A h \in Files : Change(f, None, h) = IF h = f THEN -1 ELSE 0
    BY Constants DEF Change
  <2>4. \A h \in Files : Named(h) \in Nat /\ InHand(h) \in Nat /\ ref[h] = Named(h) + InHand(h)
    BY <1>0, CountsAre DEF Counted
  <2>5. ASSUME NEW h \in Files PROVE ref'[h] = Named(h)' + InHand(h)'
    BY <1>4, <2>1, <2>2, <2>3, <2>4
  <2> QED
    BY <2>5 DEF Counted
<1>8. HandInv'
  BY <1>0, <1>2, <1>3 DEF HandInv, At, Taken, OpenFds
<1>9. FileInv'
  <2>1. \A h \in Files : (ref'[h] = 0 => file'[h].page = None)
                         /\ (file'[h].page = None => file'[h] = NoPipe)
    <3>1. NoPipe.page = None
      BY DEF NoPipe
    <3> QED
      BY <1>0, <1>2, <1>4, <1>5, <3>1 DEF FileInv
  <2>2. ASSUME NEW q \in Procs, NEW d \in Fd, fds[q][d] # None
        PROVE  file'[fds[q][d]].page # None
    <3>1. fds[q][d] \in Files /\ file[fds[q][d]].page # None
      BY <1>0, <2>2, Basics DEF FileInv
    <3>2. fds[q][d] = f => ref[f] >= 2
      BY <1>0, <1>1, <1>2, Alone
    <3> QED
      BY <1>2, <1>5, <3>1, <3>2
  <2>3. ASSUME NEW q \in Procs, NEW j \in Slots, proc'[q].pc = "alloc", proc'[q].hand[j] # None
        PROVE  ref'[proc'[q].hand[j]] = 1 /\ file'[proc'[q].hand[j]].page = None
    <3>1. q # p /\ At(q, "alloc") /\ proc'[q].hand[j] = proc[q].hand[j]
      BY <1>3, <2>3 DEF Taken, At
    <3>2. PICK h \in Files : h = proc[q].hand[j] /\ h # None
      BY <1>0, <2>3, <3>1, Basics
    <3>3. ref[h] = 1 /\ file[h].page = None
      BY <1>0, <3>1, <3>2 DEF FileInv
    <3>4. h # f
      BY <1>0, <1>1, <1>2, <3>1, <3>2, <3>3, Alone
    <3> QED
      BY <1>4, <1>5, <3>1, <3>2, <3>3, <3>4
  <2> QED
    BY <1>2, <2>1, <2>2, <2>3 DEF FileInv, At
<1> QED
  BY <1>6, <1>7, <1>8, <1>9 DEF FInv

\* fork() adds the parent's descriptors once more.
LEMMA ForkCounts ==
  ASSUME Types, NEW p \in Procs, NEW q \in Procs, p # q, OpenFds(q) = {},
         fds' = [fds EXCEPT ![q] = fds[p]]
  PROVE  \A f \in Files : /\ Copies(p, f) \in Nat /\ Named(f)' = Named(f) + Copies(p, f)
                          /\ Copies(p, f) # 0 => \E d \in Fd : fds[p][d] = f
<1> TAKE f \in Files
<1> DEFINE D == {d \in Fd : fds[p][d] = f}
           S == Cells(fds, Fd, f)
           T == {q} \X D
<1>1. IsFiniteSet(D) /\ Cardinality(D) \in Nat /\ Copies(p, f) = Cardinality(D)
  <2>1. D \in SUBSET Fd /\ IsFiniteSet(Fd)
    BY Constants
  <2>2. IsFiniteSet(D)
    BY <2>1, FS_Subset
  <2> QED
    BY <2>2, FS_CardinalityType DEF Copies
<1>2. IsFiniteSet(S) /\ Cardinality(S) \in Nat
  BY CellsFinite, Constants
<1>3. IsFiniteSet({q}) /\ Cardinality({q}) = 1
  BY FS_Singleton
<1>4. IsFiniteSet(T) /\ Cardinality(T) = Cardinality(D)
  <2>1. IsFiniteSet(T) /\ Cardinality(T) = Cardinality({q}) * Cardinality(D)
    BY <1>1, <1>3, FS_Product
  <2> QED
    BY <1>1, <1>3, <2>1
<1>5. Cells(fds', Fd, f) = S \cup T
  <2>1. fds'[q] = fds[p] /\ \A r \in Procs : r # q => fds'[r] = fds[r]
    BY DEF Types
  <2>2. \A d \in Fd : fds[q][d] # f
    BY Constants DEF OpenFds
  <2> QED
    BY <2>1, <2>2 DEF Cells
<1>6. S \cap T = {}
  <2>1. \A d \in Fd : fds[q][d] # f
    BY Constants DEF OpenFds
  <2> QED
    BY <2>1 DEF Cells
<1> HIDE DEF S, T
<1>7. Cardinality(S \cup T) = Cardinality(S) + Cardinality(D)
  <2>1. Cardinality(S \cup T) = Cardinality(S) + Cardinality(T) - Cardinality(S \cap T)
    BY <1>2, <1>4, FS_Union
  <2>2. Cardinality(S \cap T) = 0
    BY <1>6, FS_EmptySet
  <2> HIDE DEF D
  <2> QED
    BY <1>1, <1>2, <1>4, <2>1, <2>2
<1>8. Named(f)' = Named(f) + Copies(p, f)
  BY <1>1, <1>5, <1>7, CountsAre, CountsAreNext DEF S
<1>9. Copies(p, f) # 0 => \E d \in Fd : fds[p][d] = f
  BY <1>1, FS_EmptySet
<1> QED
  BY <1>1, <1>8, <1>9

LEMMA ForkFInv ==
  ASSUME FInv, NEW p \in Procs, Fork(p)
  PROVE  FInv'
<1>0. Types /\ Counted /\ HandInv /\ FileInv
  BY DEF FInv
<1>1. PICK q \in Procs : /\ At(q, "none")
                         /\ proc' = [proc EXCEPT ![q] = [Unused EXCEPT !.pc = "user"]]
                         /\ fds' = [fds EXCEPT ![q] = fds[p]]
  BY DEF Fork
<1>2. /\ p # q /\ At(p, "user") /\ OpenFds(q) = {} /\ proc[q].hand = NoFiles
      /\ UNCHANGED <<file, pipe, cut>>
      /\ ref' = [f \in Files |-> ref[f] + Copies(p, f)]
  BY <1>0, <1>1 DEF Fork, Calls, At, HandInv, Unused
<1>3. /\ proc'[q] \in Process /\ proc'[q].pc = "user" /\ proc'[q].hand = NoFiles
      /\ \A r \in Procs : r # q => proc'[r] = proc[r]
  <2>1. [Unused EXCEPT !.pc = "user"] \in Process
    BY <1>0, Basics DEF Process, Places
  <2>2. proc'[q] = [Unused EXCEPT !.pc = "user"]
    BY <1>0, <1>1 DEF Types
  <2>3. \A r \in Procs : r # q => proc'[r] = proc[r]
    BY <1>0, <1>1 DEF Types
  <2> QED
    BY <2>1, <2>2, <2>3 DEF Unused
<1>4. \A f \in Files : /\ Copies(p, f) \in Nat /\ Named(f)' = Named(f) + Copies(p, f)
                       /\ Copies(p, f) # 0 => \E d \in Fd : fds[p][d] = f
  BY <1>0, <1>1, <1>2, ForkCounts
<1>5. /\ ref' \in [Files -> Nat]
      /\ \A f \in Files : ref'[f] = ref[f] + Copies(p, f) /\ ref[f] \in Nat
  BY <1>0, <1>2, <1>4, Basics
<1>6. /\ fds' \in [Procs -> [Fd -> Files \cup {None}]] /\ fds'[q] = fds[p]
      /\ \A r \in Procs : r # q => fds'[r] = fds[r]
  BY <1>0, <1>1 DEF Types
<1>7. proc' \in [Procs -> Process]
  BY <1>0, <1>1, <1>3 DEF Types
<1>8. Types'
  BY <1>0, <1>2, <1>5, <1>6, <1>7 DEF Types
<1>9. Counted'
  <2>1. \A r \in Procs : proc'[r].hand = proc[r].hand
    BY <1>2, <1>3
  <2>2. \A f : InHand(f)' = InHand(f)
    BY <2>1, InHandSame
  <2>3. \A f \in Files : Named(f) \in Nat /\ InHand(f) \in Nat /\ ref[f] = Named(f) + InHand(f)
    BY <1>0, CountsAre DEF Counted
  <2> QED
    BY <1>4, <1>5, <2>2, <2>3 DEF Counted
<1>10. HandInv'
  <2>1. \A r \in Procs : r # q => OpenFds(r)' = OpenFds(r)
    BY <1>6 DEF OpenFds
  <2> QED
    BY <1>0, <1>3, <2>1 DEF HandInv, At
<1>11. FileInv'
  <2>1. \A f \in Files : ref'[f] = 0 => ref[f] = 0
    BY <1>4, <1>5
  <2>2. ASSUME NEW r \in Procs, NEW d \in Fd, fds'[r][d] # None
        PROVE  file[fds'[r][d]].page # None
    BY <1>0, <1>6, <2>2 DEF FileInv
  <2>3. ASSUME NEW r \in Procs, NEW j \in Slots, proc'[r].pc = "alloc", proc'[r].hand[j] # None
        PROVE  ref'[proc'[r].hand[j]] = 1 /\ file[proc'[r].hand[j]].page = None
    <3>1. r # q /\ At(r, "alloc") /\ proc'[r].hand[j] = proc[r].hand[j]
      BY <1>3, <2>3 DEF At
    <3>2. PICK f \in Files : f = proc[r].hand[j] /\ f # None
      BY <1>0, <2>3, <3>1, Basics
    <3>3. ref[f] = 1 /\ file[f].page = None
      BY <1>0, <3>1, <3>2 DEF FileInv
    <3>4. \A d \in Fd : fds[p][d] # f
      BY <1>0, <3>2, <3>3, Alone
    <3> QED
      BY <1>4, <1>5, <3>1, <3>2, <3>3, <3>4
  <2> QED
    BY <1>0, <1>2, <2>1, <2>2, <2>3 DEF FileInv, At
<1> QED
  BY <1>8, <1>9, <1>10, <1>11 DEF FInv

\* sys_pipe() from kalloc() on: both files in hand stand for the new pipe.
Piped(p, f, h, g) ==
  /\ proc[p].hand[1] = f /\ proc[p].hand[2] = h /\ f # h
  /\ ref[f] = 1 /\ ref[h] = 1
  /\ \A q \in Procs, d \in Fd : fds[q][d] # f /\ fds[q][d] # h
  /\ \A q \in Procs, i \in Slots : q # p => proc[q].hand[i] # f /\ proc[q].hand[i] # h
  /\ ~pipe[g].used
  /\ pipe' = [pipe EXCEPT ![g] = [Closed EXCEPT !.used = TRUE, !.readopen = TRUE,
                                                !.writeopen = TRUE]]
  /\ file' \in [Files -> [page : Pages \cup {None}, writable : BOOLEAN]]
  /\ file'[f] = [page |-> g, writable |-> FALSE]
  /\ file'[h] = [page |-> g, writable |-> TRUE]
  /\ \A k \in Files : k # f /\ k # h => file'[k] = file[k]
  /\ cut' = [cut EXCEPT ![g] = FALSE]

LEMMA SysPipeFiles ==
  ASSUME FInv, NEW p \in Procs, SysPipe(p)
  PROVE  \E f, h \in Files, g \in Pages : Piped(p, f, h, g)
<1>0. Types /\ Counted /\ HandInv /\ FileInv
  BY DEF FInv
<1>1. proc[p].hand[1] # None /\ proc[p].hand[2] # None /\ At(p, "alloc")
  BY <1>0 DEF SysPipe, HandInv
<1>2. PICK f, h \in Files : f = proc[p].hand[1] /\ h = proc[p].hand[2] /\ f # None /\ h # None
  BY <1>0, <1>1, Basics
<1>3. ref[f] = 1 /\ ref[h] = 1
  BY <1>0, <1>1, <1>2, Basics DEF FileInv
<1>4. /\ f # h
      /\ \A q \in Procs, d \in Fd : fds[q][d] # f /\ fds[q][d] # h
      /\ \A q \in Procs, i \in Slots : q # p => proc[q].hand[i] # f /\ proc[q].hand[i] # h
  BY <1>0, <1>2, <1>3, Alone, Basics
<1>5. PICK g \in Pages : /\ ~pipe[g].used /\ file' = Opened(proc[p].hand, g)
                         /\ pipe' = [pipe EXCEPT ![g] = [Closed EXCEPT !.used = TRUE,
                                        !.readopen = TRUE, !.writeopen = TRUE]]
                         /\ cut' = [cut EXCEPT ![g] = FALSE]
  BY DEF SysPipe
<1>6. /\ file' \in [Files -> [page : Pages \cup {None}, writable : BOOLEAN]]
      /\ file'[f] = [page |-> g, writable |-> FALSE]
      /\ file'[h] = [page |-> g, writable |-> TRUE]
      /\ \A k \in Files : k # f /\ k # h => file'[k] = file[k]
  <2>1. file' = [file EXCEPT ![f] = [page |-> g, writable |-> FALSE],
                             ![h] = [page |-> g, writable |-> TRUE]]
    BY <1>2, <1>5 DEF Opened
  <2> QED
    BY <1>0, <1>4, <2>1 DEF Types
<1> QED
  BY <1>2, <1>3, <1>4, <1>5, <1>6 DEF Piped

ClosedType == [nread : 0..UintMod-1, nwrite : 0..UintMod-1, 
               data : [0..PIPESIZE-1 -> Byte \cup {None}],
               used : BOOLEAN, readopen : BOOLEAN, writeopen : BOOLEAN]
LEMMA ClosedIs ==
  /\ Closed \in ClosedType
  /\ [Closed EXCEPT !.used = TRUE, !.readopen = TRUE, !.writeopen = TRUE] \in ClosedType
  /\ Closed.nread = 0 /\ Closed.nwrite = 0 /\ ~Closed.used /\ ~Closed.readopen /\ ~Closed.writeopen
<1>1. 0 \in 0..UintMod-1 /\ [i \in 0..PIPESIZE-1 |-> None] \in [0..PIPESIZE-1 -> Byte \cup {None}]
  BY Constants
<1> QED
  BY <1>1 DEF Closed, ClosedType

\* Either both files get descriptors, or they stay in hand to be closed.
LEMMA SysPipeFInv ==
  ASSUME FInv, NEW p \in Procs, SysPipe(p)
  PROVE  FInv'
<1>0. Types /\ Counted /\ HandInv /\ FileInv
  BY DEF FInv
<1>g. PICK f, h \in Files, g \in Pages : Piped(p, f, h, g)
  BY SysPipeFiles
<1>1. /\ proc[p].hand[1] = f /\ proc[p].hand[2] = h /\ f # h
      /\ ref[f] = 1 /\ ref[h] = 1
      /\ \A q \in Procs, i \in Slots : q # p => proc[q].hand[i] # f /\ proc[q].hand[i] # h
      /\ pipe' = [pipe EXCEPT ![g] = [Closed EXCEPT !.used = TRUE, !.readopen = TRUE,
                                                    !.writeopen = TRUE]]
      /\ file' \in [Files -> [page : Pages \cup {None}, writable : BOOLEAN]]
      /\ file'[f] = [page |-> g, writable |-> FALSE]
      /\ file'[h] = [page |-> g, writable |-> TRUE]
      /\ \A k \in Files : k # f /\ k # h => file'[k] = file[k]
      /\ cut' = [cut EXCEPT ![g] = FALSE]
  BY <1>g DEF Piped
<1>2. ref' = ref /\ At(p, "alloc")
  BY DEF SysPipe
<1>3. /\ pipe' \in [Pages -> [nread : 0..UintMod-1, nwrite : 0..UintMod-1, 
                              data : [0..PIPESIZE-1 -> Byte \cup {None}],
                              used : BOOLEAN, readopen : BOOLEAN, writeopen : BOOLEAN]]
      /\ cut' \in [Pages -> BOOLEAN]
  BY <1>0, <1>1, ClosedIs DEF Types, ClosedType
<1>4. g # None /\ f # None /\ h # None
  BY Constants
<1>5. \A k \in Files : (ref'[k] = 0 => file'[k].page = None)
                       /\ (file'[k].page = None => file'[k] = NoPipe)
  BY <1>0, <1>1, <1>2, <1>4 DEF FileInv
<1>6. ASSUME NEW q \in Procs, NEW j \in Slots, q # p, At(q, "alloc"), proc[q].hand[j] # None
      PROVE  ref[proc[q].hand[j]] = 1 /\ file'[proc[q].hand[j]].page = None
  <2>1. proc[q].hand[j] \in Files
    BY <1>0, <1>6, Basics
  <2> QED
    BY <1>0, <1>1, <1>6, <2>1 DEF FileInv
<1>7. CASE proc' = Goto(p, "close") /\ fds' = fds
  <2>1. /\ proc' \in [Procs -> Process] /\ proc'[p].pc = "close"
        /\ \A q \in Procs : proc'[q].hand = proc[q].hand
        /\ \A q \in Procs : q # p => proc'[q] = proc[q]
    <3>1. [proc[p] EXCEPT !.pc = "close"] \in Process
      BY <1>0, Basics DEF Process, Places
    <3>2. proc' = [proc EXCEPT ![p] = [proc[p] EXCEPT !.pc = "close"]]
      BY <1>7 DEF Goto
    <3> QED
      BY <1>0, <3>1, <3>2, Basics DEF Types, Process
  <2>2. Types'
    BY <1>0, <1>1, <1>2, <1>3, <1>7, <2>1 DEF Types
  <2>3. Counted'
    BY <1>0, <1>2, <1>7, <2>1, NamedSame, InHandSame DEF Counted
  <2>4. HandInv'
    BY <1>0, <1>7, <2>1 DEF HandInv, At, OpenFds
  <2>5. \A q \in Procs, d \in Fd : fds[q][d] # None => file'[fds[q][d]].page # None
    <3>1. \A q \in Procs, d \in Fd : fds[q][d] # None => fds[q][d] \in Files
      BY <1>0, Basics
    <3> QED
      BY <1>0, <1>1, <1>4, <3>1 DEF FileInv
  <2>6. FileInv'
    BY <1>2, <1>5, <1>6, <1>7, <2>1, <2>5 DEF FileInv, At
  <2> QED
    BY <2>2, <2>3, <2>4, <2>6 DEF FInv
<1>8. CASE \E r, w \in Fd : 
             /\ IsLeast(r, FreeFds(p)) /\ IsLeast(w, FreeFds(p) \ {r})
             /\ fds' = [fds EXCEPT ![p] = [fds[p] EXCEPT ![r] = f, ![w] = h]]
             /\ proc' = [proc EXCEPT ![p].pc = "user", ![p].hand = NoFiles]
  <2>1. PICK r, w \in Fd :
             /\ r # w /\ fds[p][r] = None /\ fds[p][w] = None
             /\ fds' = [fds EXCEPT ![p] = [fds[p] EXCEPT ![r] = f, ![w] = h]]
    BY <1>8 DEF IsLeast, FreeFds, OpenFds
  <2>2. /\ proc' \in [Procs -> Process] /\ proc'[p].pc = "user" /\ proc'[p].hand = NoFiles
        /\ \A q \in Procs : q # p => proc'[q] = proc[q]
    <3>1. [proc[p] EXCEPT !.pc = "user", !.hand = NoFiles] \in Process
      BY <1>0, Basics DEF Process, Places, Slots
    <3>2. proc' = [proc EXCEPT ![p] = [proc[p] EXCEPT !.pc = "user", !.hand = NoFiles]]
      BY <1>8
    <3> QED
      BY <1>0, <3>1, <3>2, Basics DEF Types, Process
  <2>3. /\ fds' \in [Procs -> [Fd -> Files \cup {None}]]
        /\ fds'[p][r] = f /\ fds'[p][w] = h
        /\ \A q \in Procs, d \in Fd : q # p \/ (d # r /\ d # w) => fds'[q][d] = fds[q][d]
    BY <1>0, <2>1 DEF Types
  <2>4. Types'
    BY <1>1, <1>2, <1>3, <2>2, <2>3, <1>0 DEF Types
  <2>5. \A k : Named(k)' = Named(k) + Change(None, f, k) + Change(None, h, k)
    <3> TAKE k
    <3>1. PICK m : m = [fds EXCEPT ![p] = [fds[p] EXCEPT ![r] = f]]
      OBVIOUS
    <3>2. Sets(fds, m, Fd, p, r, f)
      BY <1>0, <3>1 DEF Sets, Types
    <3>3. Sets(m, fds', Fd, p, w, h) /\ m[p][w] = None
      BY <1>0, <2>1, <2>3, <3>1 DEF Sets, Types
    <3>4. Cardinality(Cells(m, Fd, k)) = Cardinality(Cells(fds, Fd, k)) + Change(None, f, k)
      BY <2>1, <3>2, CellsSet, Constants
    <3>5. Cardinality(Cells(fds', Fd, k)) = Cardinality(Cells(m, Fd, k)) + Change(None, h, k)
      BY <3>3, CellsSet, Constants
    <3> QED
      BY <3>4, <3>5, CountsAre, CountsAreNext
  <2>6. \A k : InHand(k)' = InHand(k) + Change(f, None, k) + Change(h, None, k)
    <3> TAKE k
    <3>1. PICK m : m = [Hands EXCEPT ![p] = [proc[p].hand EXCEPT ![1] = None]]
      OBVIOUS
    <3>2. proc[p].hand \in [Slots -> Files \cup {None}] /\ 1 \in Slots /\ 2 \in Slots
      BY <1>0, Basics
    <3>3. Sets(Hands, m, Slots, p, 1, None) /\ Hands[p][1] = f
      BY <1>1, <3>1, <3>2 DEF Sets, Hands
    <3>4. Hands' = [Hands EXCEPT ![p] = NoFiles]
      BY <2>2 DEF Hands
    <3>5. Sets(m, Hands', Slots, p, 2, None) /\ m[p][2] = h
      <4>1. m[p] = [proc[p].hand EXCEPT ![1] = None] /\ Hands'[p] = NoFiles
        BY <3>1, <3>4 DEF Hands
      <4>2. \A q \in Procs : q # p => m[q] = Hands'[q]
        BY <3>1, <3>4 DEF Hands
      <4>3. \A i \in Slots : i # 2 => m[p][i] = None /\ NoFiles[i] = None
        BY <3>2, <4>1 DEF NoFiles, Slots
      <4>4. m[p][2] = h /\ NoFiles[2] = None
        BY <1>1, <3>2, <4>1 DEF NoFiles
      <4> QED
        BY <3>2, <4>1, <4>2, <4>3, <4>4 DEF Sets
    <3>6. Cardinality(Cells(m, Slots, k)) = Cardinality(Cells(Hands, Slots, k)) + Change(f, None, k)
      BY <3>3, CellsSet, Constants
    <3>7. Cardinality(Cells(Hands', Slots, k)) = Cardinality(Cells(m, Slots, k)) + Change(h, None, k)
      BY <3>5, CellsSet, Constants
    <3> QED
      BY <3>6, <3>7, CountsAre, CountsAreNext
  <2>7. Counted'
    <3>1. \A k \in Files : /\ Change(None, f, k) = - Change(f, None, k)
                           /\ Change(None, h, k) = - Change(h, None, k)
                           /\ Change(f, None, k) \in Int /\ Change(h, None, k) \in Int
      BY Constants DEF Change
    <3>2. \A k \in Files : Named(k) \in Nat /\ InHand(k) \in Nat /\ ref[k] = Named(k) + InHand(k)
      BY <1>0, CountsAre DEF Counted
    <3>3. ASSUME NEW k \in Files PROVE ref'[k] = Named(k)' + InHand(k)'
      BY <1>2, <2>5, <2>6, <3>1, <3>2
    <3> QED
      BY <3>3 DEF Counted
  <2>8. HandInv'
    <3>1. \A q \in Procs : q # p => OpenFds(q)' = OpenFds(q)
      BY <2>3 DEF OpenFds
    <3> QED
      BY <1>0, <2>2, <3>1 DEF HandInv, At
  <2>9. ASSUME NEW q \in Procs, NEW d \in Fd, fds'[q][d] # None
        PROVE  file'[fds'[q][d]].page # None
    <3>1. CASE fds'[q][d] = f \/ fds'[q][d] = h
      BY <1>1, <1>4, <3>1
    <3>2. CASE fds'[q][d] # f /\ fds'[q][d] # h
      <4>1. fds'[q][d] = fds[q][d]
        BY <2>3, <3>2
      <4>2. fds[q][d] \in Files
        BY <1>0, <2>9, <4>1, Basics
      <4> QED
        BY <1>0, <1>1, <2>9, <3>2, <4>1, <4>2 DEF FileInv
    <3> QED
      BY <3>1, <3>2
  <2>10. FileInv'
    BY <1>2, <1>5, <1>6, <2>2, <2>9 DEF FileInv, At
  <2> QED
    BY <2>4, <2>7, <2>8, <2>10 DEF FInv
<1> QED
  BY <1>1, <1>7, <1>8 DEF SysPipe
-----------------------------------------------------------------------------
(* Everything else is a step of one process, which leaves what it has in   *)
(* hand alone and may wake the sleepers of one kind at one pipe.           *)

Wakened(w, r, g) ==
  IF w = "readers" /\ r.pc = "readsleeps" /\ r.page = g THEN "read"
  ELSE IF w = "writers" /\ r.pc = "writesleeps" /\ r.page = g THEN "write" ELSE r.pc

Step(p, r, w, g) ==
  /\ r \in Process /\ r.hand = proc[p].hand
  /\ proc' \in [Procs -> Process] /\ proc'[p] = r
  /\ \A q \in Procs : q # p =>
       /\ proc'[q].hand = proc[q].hand /\ proc'[q].end = proc[q].end
       /\ proc'[q].page = proc[q].page /\ proc'[q].left = proc[q].left
       /\ proc'[q].pc = Wakened(w, proc[q], g)
       /\ proc[q].pc = "none" => proc'[q] = proc[q]

LEMMA WakeReadersShape ==
  ASSUME NEW ps \in [Procs -> Process], NEW g
  PROVE  /\ WakeReaders(ps, g) \in [Procs -> Process]
         /\ \A q \in Procs : LET w == WakeReaders(ps, g)[q]
                             IN /\ w.hand = ps[q].hand /\ w.end = ps[q].end
                                /\ w.page = ps[q].page /\ w.left = ps[q].left
                                /\ w.pc = Wakened("readers", ps[q], g)
                                /\ ps[q].pc # "readsleeps" => w = ps[q]
<1>1. ASSUME NEW q \in Procs
      PROVE  /\ WakeReaders(ps, g)[q] \in Process
             /\ LET w == WakeReaders(ps, g)[q]
                IN /\ w.hand = ps[q].hand /\ w.end = ps[q].end
                   /\ w.page = ps[q].page /\ w.left = ps[q].left
                   /\ w.pc = Wakened("readers", ps[q], g)
                   /\ ps[q].pc # "readsleeps" => w = ps[q]
  <2>1. ps[q] \in Process
    OBVIOUS
  <2>2. CASE ps[q].pc = "readsleeps" /\ ps[q].page = g
    <3>1. WakeReaders(ps, g)[q] = [ps[q] EXCEPT !.pc = "read"]
      BY <2>2 DEF WakeReaders
    <3>2. Wakened("readers", ps[q], g) = "read"
      BY <2>2 DEF Wakened
    <3> QED
      BY <2>1, <2>2, <3>1, <3>2 DEF Process, Places
  <2>3. CASE ~(ps[q].pc = "readsleeps" /\ ps[q].page = g)
    <3>1. WakeReaders(ps, g)[q] = ps[q]
      BY <2>3 DEF WakeReaders
    <3>2. Wakened("readers", ps[q], g) = ps[q].pc
      BY <2>3 DEF Wakened
    <3> QED
      BY <2>1, <3>1, <3>2
  <2> QED
    BY <2>2, <2>3
<1>2. WakeReaders(ps, g) = [q \in Procs |-> WakeReaders(ps, g)[q]]
  BY DEF WakeReaders
<1> QED
  BY <1>1, <1>2

LEMMA WakeWritersShape ==
  ASSUME NEW ps \in [Procs -> Process], NEW g
  PROVE  /\ WakeWriters(ps, g) \in [Procs -> Process]
         /\ \A q \in Procs : LET w == WakeWriters(ps, g)[q]
                             IN /\ w.hand = ps[q].hand /\ w.end = ps[q].end
                                /\ w.page = ps[q].page /\ w.left = ps[q].left
                                /\ w.pc = Wakened("writers", ps[q], g)
                                /\ ps[q].pc # "writesleeps" => w = ps[q]
<1>1. ASSUME NEW q \in Procs
      PROVE  /\ WakeWriters(ps, g)[q] \in Process
             /\ LET w == WakeWriters(ps, g)[q]
                IN /\ w.hand = ps[q].hand /\ w.end = ps[q].end
                   /\ w.page = ps[q].page /\ w.left = ps[q].left
                   /\ w.pc = Wakened("writers", ps[q], g)
                   /\ ps[q].pc # "writesleeps" => w = ps[q]
  <2>1. ps[q] \in Process
    OBVIOUS
  <2>2. CASE ps[q].pc = "writesleeps" /\ ps[q].page = g
    <3>1. WakeWriters(ps, g)[q] = [ps[q] EXCEPT !.pc = "write"]
      BY <2>2 DEF WakeWriters
    <3>2. Wakened("writers", ps[q], g) = "write"
      BY <2>2 DEF Wakened
    <3> QED
      BY <2>1, <2>2, <3>1, <3>2 DEF Process, Places
  <2>3. CASE ~(ps[q].pc = "writesleeps" /\ ps[q].page = g)
    <3>1. WakeWriters(ps, g)[q] = ps[q]
      BY <2>3 DEF WakeWriters
    <3>2. Wakened("writers", ps[q], g) = ps[q].pc
      BY <2>3 DEF Wakened
    <3> QED
      BY <2>1, <3>1, <3>2
  <2> QED
    BY <2>2, <2>3
<1>2. WakeWriters(ps, g) = [q \in Procs |-> WakeWriters(ps, g)[q]]
  BY DEF WakeWriters
<1> QED
  BY <1>1, <1>2

\* The three forms that proc' has in these steps.
Steps(p, r, w, g) ==
  /\ r \in Process /\ r.hand = proc[p].hand
  /\ \/ w = "nobody" /\ proc' = [proc EXCEPT ![p] = r]
     \/ w = "readers" /\ proc' = WakeReaders([proc EXCEPT ![p] = r], g) /\ r.pc # "readsleeps"
     \/ w = "writers" /\ proc' = WakeWriters([proc EXCEPT ![p] = r], g) /\ r.pc # "writesleeps"

LEMMA StepShape ==
  ASSUME Types, NEW p \in Procs, NEW r, NEW w, NEW g, Steps(p, r, w, g)
  PROVE  Step(p, r, w, g)
<1>1. PICK ps : ps = [proc EXCEPT ![p] = r]
  OBVIOUS
<1>2. /\ ps \in [Procs -> Process] /\ ps[p] = r /\ r \in Process /\ r.hand = proc[p].hand
      /\ \A q \in Procs : q # p => ps[q] = proc[q]
  BY <1>1 DEF Types, Steps
<1>3. CASE w = "nobody" /\ proc' = ps
  BY <1>2, <1>3 DEF Step, Wakened
<1>4. CASE w = "readers" /\ proc' = WakeReaders(ps, g) /\ r.pc # "readsleeps"
  <2>1. /\ proc' \in [Procs -> Process]
        /\ \A q \in Procs : /\ proc'[q].hand = ps[q].hand /\ proc'[q].end = ps[q].end
                            /\ proc'[q].page = ps[q].page /\ proc'[q].left = ps[q].left
                            /\ proc'[q].pc = Wakened("readers", ps[q], g)
                            /\ ps[q].pc # "readsleeps" => proc'[q] = ps[q]
    BY <1>2, <1>4, WakeReadersShape
  <2> QED
    BY <1>2, <1>4, <2>1 DEF Step
<1>5. CASE w = "writers" /\ proc' = WakeWriters(ps, g) /\ r.pc # "writesleeps"
  <2>1. /\ proc' \in [Procs -> Process]
        /\ \A q \in Procs : /\ proc'[q].hand = ps[q].hand /\ proc'[q].end = ps[q].end
                            /\ proc'[q].page = ps[q].page /\ proc'[q].left = ps[q].left
                            /\ proc'[q].pc = Wakened("writers", ps[q], g)
                            /\ ps[q].pc # "writesleeps" => proc'[q] = ps[q]
    BY <1>2, <1>5, WakeWritersShape
  <2> QED
    BY <1>2, <1>5, <2>1 DEF Step
<1> QED
  BY <1>1, <1>3, <1>4, <1>5 DEF Steps

\* Such a step keeps FInv.
Allowed(p, r) ==
  /\ r.pc = "none" => r = Unused /\ OpenFds(p) = {}
  /\ r.hand # NoFiles => r.pc \in {"close", "pipeclose", "alloc"}
  /\ r.pc # "alloc" /\ r.pc # "pipeclose"

LEMMA StepQuiet ==
  ASSUME FInv, NEW p \in Procs, NEW r, NEW w, NEW g, Step(p, r, w, g), Allowed(p, r),
         UNCHANGED <<fds, ref, file>>,
         pipe' \in [Pages -> ClosedType], cut' \in [Pages -> BOOLEAN]
  PROVE  Quiet
<1>0. Types /\ HandInv
  BY DEF FInv
<1>1. Types'
  BY <1>0 DEF Types, Step, ClosedType
<1>2. ASSUME NEW q \in Procs
      PROVE  /\ proc'[q].hand = proc[q].hand
             /\ proc'[q].pc = "none" => proc'[q] = Unused /\ OpenFds(q) = {}
             /\ proc[q].hand # NoFiles => proc'[q].pc \in {"alloc", "close", "pipeclose"}
             /\ proc'[q].pc = "alloc" => At(q, "alloc")
             /\ proc'[q].pc = "pipeclose" => proc'[q].end.page # None
  <2>1. CASE q = p
    BY <2>1 DEF Step, Allowed
  <2>2. CASE q # p
    <3>1. /\ proc'[q].hand = proc[q].hand /\ proc'[q].end = proc[q].end
          /\ proc'[q].pc = Wakened(w, proc[q], g)
          /\ proc[q].pc = "none" => proc'[q] = proc[q]
      BY <2>2 DEF Step
    <3> QED
      BY <1>0, <3>1 DEF Wakened, HandInv, At
  <2> QED
    BY <2>1, <2>2
<1> QED
  BY <1>1, <1>2 DEF Quiet
-----------------------------------------------------------------------------
(* Ends: who stands for an end of a pipe, and who is in the middle of a    *)
(* call on one.                                                            *)

\* One file or one process in pipeclose at most stands for each end.
OneEach ==
  /\ \A f, h \in Files : file[f].page # None /\ file[f] = file[h] => f = h
  /\ \A p, q \in Procs : At(p, "pipeclose") /\ At(q, "pipeclose") /\ proc[p].end = proc[q].end => p = q
  /\ \A f \in Files, p \in Procs : At(p, "pipeclose") => file[f] # proc[p].end

\* An end is open as long as something stands for it.
Ends ==
  \A g \in Pages :
    /\ pipe[g].readopen  <=> StoodFor([page |-> g, writable |-> FALSE])
    /\ pipe[g].writeopen <=> StoodFor([page |-> g, writable |-> TRUE])
    /\ pipe[g].used <=> pipe[g].readopen \/ pipe[g].writeopen

\* A process inside a read or a write keeps the descriptor it came with.
Holds(p, g, b) == \E d \in Fd : /\ fds[p][d] # None
                                /\ file[fds[p][d]] = [page |-> g, writable |-> b]
HolderInv == \A p \in Procs :
  /\ proc[p].pc \in {"read", "readsleeps"} =>
       proc[p].page \in Pages /\ Holds(p, proc[p].page, FALSE)
  /\ proc[p].pc \in {"write", "writesleeps"} =>
       proc[p].page \in Pages /\ Holds(p, proc[p].page, TRUE)

Bound == \A g \in Pages : Available(g) <= PIPESIZE

EInv == OneEach /\ Ends /\ HolderInv
IInv == FInv /\ EInv /\ Bound /\ NoLostWakeup

\* Steps that leave alone what stands for an end, and the flags.
EndsSame ==
  /\ file' = file
  /\ \A p \in Procs : /\ At(p, "pipeclose")' <=> At(p, "pipeclose")
                      /\ At(p, "pipeclose") => proc'[p].end = proc[p].end
  /\ \A g \in Pages : /\ pipe'[g].readopen = pipe[g].readopen
                      /\ pipe'[g].writeopen = pipe[g].writeopen
                      /\ pipe'[g].used = pipe[g].used

LEMMA EndsSameKeep ==
  ASSUME OneEach, Ends, EndsSame
  PROVE  OneEach' /\ Ends'
<1>1. OneEach'
  BY DEF OneEach, EndsSame
<1>2. \A e : StoodFor(e)' <=> StoodFor(e)
  BY DEF StoodFor, EndsSame
<1>3. Ends'
  BY <1>2 DEF Ends, EndsSame
<1> QED
  BY <1>1, <1>3

\* Steps that change one process only, which then is in no call on a pipe.
Lone(x) ==
  /\ \A q \in Procs : q # x => proc'[q] = proc[q] /\ fds'[q] = fds[q]
  /\ proc'[x].pc \notin {"read", "readsleeps", "write", "writesleeps"}
  /\ \A q \in Procs, d \in Fd : q # x /\ fds[q][d] # None => file'[fds[q][d]] = file[fds[q][d]]

LEMMA LoneHolder ==
  ASSUME HolderInv, NEW x \in Procs, Lone(x)
  PROVE  HolderInv'
<1>1. ASSUME NEW q \in Procs, q # x
      PROVE  \A g, b : Holds(q, g, b) => Holds(q, g, b)'
  BY <1>1 DEF Holds, Lone
<1> QED
  BY <1>1 DEF HolderInv, Lone

LEMMA LoneSleep ==
  ASSUME Bound, NoLostWakeup, NEW x \in Procs, Lone(x), pipe' = pipe, cut' = cut
  PROVE  Bound' /\ NoLostWakeup'
<1>1. Bound'
  BY DEF Bound, Available
<1>2. NoLostWakeup'
  BY DEF NoLostWakeup, Lone, At, Empty, Full
<1> QED
  BY <1>1, <1>2

LEMMA FileallocInv ==
  ASSUME IInv, NEW p \in Procs, Filealloc(p)
  PROVE  IInv'
<1>1. PICK i \in 1..2, f \in Files : /\ IF i = 1 THEN Calls(p) ELSE At(p, "alloc")
                                     /\ proc' = Hold(p, "alloc", i, f)
  BY DEF Filealloc
<1>2. FInv' /\ Types /\ UNCHANGED <<fds, file, pipe, cut>>
  BY FileallocFInv DEF IInv, FInv, Filealloc
<1>3. "alloc" \in Places /\ i \in Slots /\ f \in Files \cup {None}
  BY DEF Places, Slots
<1>4. Taken(p, "alloc", i, f, proc[p].end) /\ ~At(p, "pipeclose")
  BY <1>1, <1>2, <1>3, HoldTaken DEF Calls, At
<1>5. EndsSame
  BY <1>2, <1>4 DEF EndsSame, Taken, At
<1>6. Lone(p)
  BY <1>2, <1>4 DEF Lone, Taken
<1> QED
  BY <1>2, <1>5, <1>6, EndsSameKeep, LoneHolder, LoneSleep DEF IInv, EInv

LEMMA CloseInv ==
  ASSUME IInv, NEW p \in Procs, Close(p) \/ (Exit(p) /\ OpenFds(p) # {})
  PROVE  IInv'
<1>0. Types /\ HandInv /\ ~At(p, "pipeclose")
  BY DEF IInv, FInv, Close, Exit, Exiting, Calls, At
<1>1. PICK d \in OpenFds(p) : /\ fds' = [fds EXCEPT ![p][d] = None]
                              /\ Taken(p, "close", 1, fds[p][d], proc[p].end)
                              /\ UNCHANGED <<ref, file, pipe, cut>>
  BY <1>0, ClosesTaken
<1>2. \A q \in Procs : q # p => fds'[q] = fds[q]
  BY <1>0, <1>1 DEF Types
<1>3. EndsSame
  BY <1>0, <1>1 DEF EndsSame, Taken, At
<1>4. Lone(p)
  BY <1>1, <1>2 DEF Lone, Taken
<1> QED
  BY <1>1, <1>3, <1>4, CloseFInv, EndsSameKeep, LoneHolder, LoneSleep DEF IInv, EInv

LEMMA DupInv ==
  ASSUME IInv, NEW p \in Procs, Dup(p)
  PROVE  IInv'
<1>0. Types /\ At(p, "user") /\ UNCHANGED <<file, pipe, proc, cut>>
  BY DEF IInv, FInv, Dup, Calls
<1>1. \A q \in Procs : q # p => fds'[q] = fds[q]
  BY <1>0 DEF Types, Dup
<1>2. EndsSame
  BY <1>0 DEF EndsSame, At
<1>3. Lone(p)
  BY <1>0, <1>1 DEF Lone, At
<1> QED
  BY <1>0, <1>2, <1>3, DupFInv, EndsSameKeep, LoneHolder, LoneSleep DEF IInv, EInv

LEMMA ForkInv ==
  ASSUME IInv, NEW p \in Procs, Fork(p)
  PROVE  IInv'
<1>0. Types /\ UNCHANGED <<file, pipe, cut>>
  BY DEF IInv, FInv, Fork
<1>1. PICK q \in Procs : /\ At(q, "none")
                         /\ proc' = [proc EXCEPT ![q] = [Unused EXCEPT !.pc = "user"]]
                         /\ fds' = [fds EXCEPT ![q] = fds[p]]
  BY DEF Fork
<1>2. /\ \A r \in Procs : r # q => proc'[r] = proc[r] /\ fds'[r] = fds[r]
      /\ proc'[q].pc = "user"
  <2>1. proc'[q] = [Unused EXCEPT !.pc = "user"]
    BY <1>0, <1>1 DEF Types
  <2> QED
    BY <1>0, <1>1, <2>1 DEF Types, Unused
<1>3. EndsSame
  BY <1>0, <1>1, <1>2 DEF EndsSame, At
<1>4. Lone(q)
  BY <1>0, <1>2 DEF Lone
<1> QED
  BY <1>0, <1>3, <1>4, ForkFInv, EndsSameKeep, LoneHolder, LoneSleep DEF IInv, EInv

\* fileclose(): what stood for the end now is the process itself.
LEMMA EndHandedOver ==
  ASSUME FInv, OneEach, Ends, NEW p \in Procs, NEW i \in Slots, NEW f \in Files, NEW e,
         Dropped(p, i, f, "pipeclose", e), file[f].page # None
  PROVE  OneEach' /\ Ends'
<1>0. Types /\ HandInv /\ ~At(p, "pipeclose")
  BY DEF FInv, Dropped, At
<1>1. /\ proc'[p].pc = "pipeclose" /\ proc'[p].end = file[f]
      /\ \A q \in Procs : q # p => proc'[q] = proc[q]
      /\ file'[f] = NoPipe /\ \A h \in Files : h # f => file'[h] = file[h]
      /\ pipe' = pipe
  BY <1>0 DEF Dropped, Taken, Types
<1>2. NoPipe.page = None /\ \A q \in Procs : At(q, "pipeclose") => proc[q].end.page # None
  BY <1>0 DEF NoPipe, HandInv
<1>3. \A h, k \in Files : file'[h].page # None /\ file'[h] = file'[k] => h = k
  BY <1>1, <1>2 DEF OneEach
<1>4. ASSUME NEW q \in Procs, NEW r \in Procs, At(q, "pipeclose")', At(r, "pipeclose")',
             proc'[q].end = proc'[r].end
      PROVE  q = r
  BY <1>1, <1>4 DEF OneEach, At
<1>5. ASSUME NEW h \in Files, NEW q \in Procs, At(q, "pipeclose")'
      PROVE  file'[h] # proc'[q].end
  <2>1. CASE q = p
    BY <1>1, <1>2, <2>1 DEF OneEach
  <2>2. CASE q # p
    BY <1>1, <1>2, <1>5, <2>2 DEF OneEach, At
  <2> QED
    BY <2>1, <2>2
<1>6. ASSUME NEW k, k.page # None
      PROVE  StoodFor(k)' <=> StoodFor(k)
  <2>1. CASE k = file[f]
    <3>1. StoodFor(k)
      BY <2>1 DEF StoodFor
    <3>2. StoodFor(k)'
      BY <1>1, <2>1 DEF StoodFor, At
    <3> QED
      BY <3>1, <3>2
  <2>2. CASE k # file[f]
    <3>1. (\E h \in Files : file'[h] = k) <=> \E h \in Files : file[h] = k
      BY <1>1, <1>2, <1>6, <2>2
    <3>2. (\E q \in Procs : At(q, "pipeclose")' /\ proc'[q].end = k)
          <=> \E q \in Procs : At(q, "pipeclose") /\ proc[q].end = k
      BY <1>0, <1>1, <2>2 DEF At
    <3> QED
      BY <3>1, <3>2 DEF StoodFor
  <2> QED
    BY <2>1, <2>2
<1>7. Ends'
  <2>1. \A g \in Pages, b \in BOOLEAN : LET k == [page |-> g, writable |-> b]
                                        IN StoodFor(k)' <=> StoodFor(k)
    BY <1>6, Constants
  <2> QED
    BY <1>1, <2>1 DEF Ends
<1> QED
  BY <1>3, <1>4, <1>5, <1>7 DEF OneEach

LEMMA FilecloseInv ==
  ASSUME IInv, NEW p \in Procs, Fileclose(p)
  PROVE  IInv'
<1>0. FInv /\ Types /\ Counted /\ OneEach /\ Ends
  BY DEF IInv, FInv, EInv
<1>1. PICK i \in Slots, f \in Files, pc \in {"close", "pipeclose"},
           e \in [page : Pages \cup {None}, writable : BOOLEAN] : Dropped(p, i, f, pc, e)
  BY <1>0, FilecloseShape
<1>2. OneEach' /\ Ends'
  <2>1. CASE file' = file /\ pc = "close"
    <3>1. EndsSame
      BY <1>1, <2>1 DEF EndsSame, Dropped, Taken, At
    <3> QED
      BY <1>0, <3>1, EndsSameKeep
  <2>2. CASE pc = "close" /\ file[f] = NoPipe /\ file' = [file EXCEPT ![f] = NoPipe]
    <3>1. file' = file
      BY <1>0, <2>2 DEF Types
    <3> QED
      BY <2>1, <2>2, <3>1
  <2>3. CASE pc = "pipeclose" /\ file[f].page # None
    BY <1>0, <1>1, <2>3, EndHandedOver
  <2> QED
    BY <1>1, <2>1, <2>2, <2>3 DEF Dropped
<1>3. Lone(p)
  <2>1. \A q \in Procs : q # p => proc'[q] = proc[q] /\ fds'[q] = fds[q]
    BY <1>1 DEF Dropped, Taken
  <2>2. proc'[p].pc \notin {"read", "readsleeps", "write", "writesleeps"}
    BY <1>1 DEF Dropped, Taken
  <2>3. ASSUME NEW q \in Procs, NEW d \in Fd, fds[q][d] # None
        PROVE  file'[fds[q][d]] = file[fds[q][d]]
    <3>1. proc[p].hand[i] = f /\ f # None /\ fds[q][d] \in Files
      BY <1>0, <1>1, <2>3, Constants, Basics DEF Dropped
    <3>2. fds[q][d] = f => ref[f] >= 2
      BY <1>0, <3>1, Alone
    <3> QED
      BY <1>0, <1>1, <3>1, <3>2 DEF Dropped, Types
  <2> QED
    BY <2>1, <2>2, <2>3 DEF Lone
<1>4. pipe' = pipe /\ cut' = cut
  BY <1>1 DEF Dropped
<1> QED
  BY <1>0, <1>2, <1>3, <1>4, FilecloseFInv, LoneHolder, LoneSleep DEF IInv, EInv

\* Nothing stands for an end of a pipe that is not in use, and nobody is in
\* a call on it.
LEMMA UnusedPipe ==
  ASSUME Types, Ends, HolderInv, NEW g \in Pages, ~pipe[g].used
  PROVE  /\ \A f \in Files : file[f].page # g
         /\ \A q \in Procs : At(q, "pipeclose") => proc[q].end.page # g
         /\ \A q \in Procs : proc[q].pc \in {"read", "readsleeps", "write", "writesleeps"} =>
              proc[q].page # g
<1>1. \A b \in BOOLEAN : ~StoodFor([page |-> g, writable |-> b])
  BY DEF Ends
<1>2. \A e \in [page : Pages \cup {None}, writable : BOOLEAN] :
        e.page = g => e = [page |-> g, writable |-> e.writable] /\ e.writable \in BOOLEAN
  OBVIOUS
<1>3. \A f \in Files : file[f].page # g
  BY <1>1, <1>2, Basics DEF StoodFor
<1>4. \A q \in Procs : At(q, "pipeclose") => proc[q].end.page # g
  BY <1>1, <1>2, Basics DEF StoodFor
<1>5. ASSUME NEW q \in Procs, NEW b \in BOOLEAN
      PROVE  ~Holds(q, g, b)
  BY <1>3, Basics DEF Holds
<1> QED
  BY <1>3, <1>4, <1>5 DEF HolderInv

LEMMA SysPipeInv ==
  ASSUME IInv, NEW p \in Procs, SysPipe(p)
  PROVE  IInv'
<1>0. FInv /\ Types /\ FileInv /\ OneEach /\ Ends /\ HolderInv /\ Bound /\ NoLostWakeup
  BY DEF IInv, FInv, EInv
<1>g. PICK f, h \in Files, g \in Pages : Piped(p, f, h, g)
  BY <1>0, SysPipeFiles
<1>1. /\ f # h /\ ~pipe[g].used
      /\ \A q \in Procs, d \in Fd : fds[q][d] # f /\ fds[q][d] # h
      /\ file'[f] = [page |-> g, writable |-> FALSE]
      /\ file'[h] = [page |-> g, writable |-> TRUE]
      /\ \A k \in Files : k # f /\ k # h => file'[k] = file[k]
  BY <1>g DEF Piped
<1>2. /\ pipe'[g].readopen /\ pipe'[g].writeopen /\ pipe'[g].used
      /\ pipe'[g].nread = 0 /\ pipe'[g].nwrite = 0
      /\ \A x \in Pages : x # g => pipe'[x] = pipe[x] /\ cut'[x] = cut[x]
  <2>1. pipe'[g] = [Closed EXCEPT !.used = TRUE, !.readopen = TRUE, !.writeopen = TRUE]
    BY <1>0, <1>g DEF Piped, Types
  <2>2. \A x \in Pages : x # g => pipe'[x] = pipe[x] /\ cut'[x] = cut[x]
    BY <1>0, <1>g DEF Piped, Types
  <2> QED
    BY <2>1, <2>2 DEF Closed
<1>3. /\ \A k \in Files : file[k].page # g
      /\ \A q \in Procs : At(q, "pipeclose") => proc[q].end.page # g
      /\ \A q \in Procs : proc[q].pc \in {"read", "readsleeps", "write", "writesleeps"} =>
           proc[q].page # g
  BY <1>0, <1>1, UnusedPipe
<1>4. file[f].page = None /\ file[h].page = None /\ At(p, "alloc")
  <2>1. At(p, "alloc") /\ proc[p].hand[1] = f /\ proc[p].hand[2] = h /\ f # None /\ h # None
    BY <1>g, Constants DEF Piped, SysPipe
  <2> QED
    BY <1>0, <2>1, Basics DEF FileInv
<1>5. /\ \A q \in Procs : q # p => proc'[q] = proc[q] /\ fds'[q] = fds[q]
      /\ proc'[p].pc \in {"close", "user"}
  <2>1. CASE proc' = Goto(p, "close") /\ fds' = fds
    BY <1>0, <2>1 DEF Goto, Types, Process
  <2>2. CASE /\ proc' = [proc EXCEPT ![p].pc = "user", ![p].hand = NoFiles]
             /\ \E r, w \in Fd : fds' = [fds EXCEPT ![p] = [fds[p] EXCEPT ![r] = f, ![w] = h]]
    <3>1. \A q \in Procs : q # p => proc'[q] = proc[q]
      BY <1>0, <2>2 DEF Types
    <3>2. proc'[p].pc = "user"
      BY <1>0, <2>2 DEF Types, Process
    <3>3. \A q \in Procs : q # p => fds'[q] = fds[q]
      BY <1>0, <2>2 DEF Types
    <3> QED
      BY <3>1, <3>2, <3>3
  <2>3. proc[p].hand[1] = f /\ proc[p].hand[2] = h
    BY <1>g DEF Piped
  <2>4. \/ proc' = Goto(p, "close") /\ fds' = fds
        \/ /\ proc' = [proc EXCEPT ![p].pc = "user", ![p].hand = NoFiles]
           /\ \E r, w \in Fd : fds' = [fds EXCEPT ![p] = [fds[p] EXCEPT ![r] = f, ![w] = h]]
    BY <2>3 DEF SysPipe
  <2> QED
    BY <2>1, <2>2, <2>4
<1>6. Lone(p)
  <2>1. ASSUME NEW q \in Procs, NEW d \in Fd, fds[q][d] # None
        PROVE  file'[fds[q][d]] = file[fds[q][d]]
    BY <1>0, <1>1, <2>1, Basics
  <2> QED
    BY <1>5, <2>1 DEF Lone
<1>7. OneEach'
  <2>1. \A k, m \in Files : file'[k].page # None /\ file'[k] = file'[m] => k = m
    <3>1. \A k \in Files : file'[k].page = g => k = f \/ k = h
      BY <1>1, <1>3
    <3>2. file'[f] # file'[h]
      BY <1>1
    <3>3. file'[f].page = g /\ file'[h].page = g
      BY <1>1
    <3> QED
      BY <1>0, <1>1, <3>1, <3>2, <3>3 DEF OneEach
  <2>2. \A q \in Procs : At(q, "pipeclose")' =>
          At(q, "pipeclose") /\ proc'[q].end = proc[q].end /\ q # p
    BY <1>5 DEF At
  <2>3. ASSUME NEW k \in Files, NEW q \in Procs, At(q, "pipeclose")'
        PROVE  file'[k] # proc'[q].end
    BY <1>0, <1>1, <1>3, <2>2, <2>3 DEF OneEach
  <2> QED
    BY <1>0, <2>1, <2>2, <2>3 DEF OneEach
<1>8. Ends'
  <2>1. StoodFor([page |-> g, writable |-> FALSE])' /\ StoodFor([page |-> g, writable |-> TRUE])'
    BY <1>1 DEF StoodFor
  <2>2. ASSUME NEW x \in Pages, x # g, NEW b \in BOOLEAN
        PROVE  StoodFor([page |-> x, writable |-> b])' <=> StoodFor([page |-> x, writable |-> b])
    <3>1. x # None
      BY Constants
    <3>2. PICK e : e = [page |-> x, writable |-> b]
      OBVIOUS
    <3>3. (\E k \in Files : file'[k] = e) <=> \E k \in Files : file[k] = e
      <4>1. e.page = x /\ e # [page |-> g, writable |-> FALSE] /\ e # [page |-> g, writable |-> TRUE]
        BY <2>2, <3>2
      <4>2. file[f] # e /\ file[h] # e /\ file'[f] # e /\ file'[h] # e
        BY <1>1, <1>4, <3>1, <4>1
      <4> QED
        BY <1>1, <4>2
    <3>4. (\E q \in Procs : At(q, "pipeclose")' /\ proc'[q].end = e)
          <=> \E q \in Procs : At(q, "pipeclose") /\ proc[q].end = e
      BY <1>4, <1>5 DEF At
    <3> QED
      BY <3>2, <3>3, <3>4 DEF StoodFor
  <2> QED
    BY <1>0, <1>2, <2>1, <2>2 DEF Ends
<1>9. Bound'
  <2>1. (0 - 0) % UintMod = 0
    BY Constants, ModUintMod
  <2>2. pipe'[g].nwrite - pipe'[g].nread = 0 - 0
    BY <1>2
  <2>3. Available(g)' = 0
    BY <2>1, <2>2 DEF Available
  <2>4. \A x \in Pages : x # g => Available(x)' = Available(x)
    BY <1>2 DEF Available
  <2> QED
    BY <1>0, <2>3, <2>4, Constants DEF Bound
<1>10. NoLostWakeup'
  <2>1. ASSUME NEW q \in Procs, proc'[q].pc \in {"readsleeps", "writesleeps"}
        PROVE  /\ proc'[q] = proc[q] /\ pipe'[proc[q].page] = pipe[proc[q].page]
               /\ cut'[proc[q].page] = cut[proc[q].page]
    <3>1. proc'[q] = proc[q] /\ proc[q].page # g /\ proc[q].page \in Pages
      BY <1>0, <1>3, <1>5, <2>1 DEF HolderInv
    <3> QED
      BY <1>2, <3>1
  <2> QED
    BY <1>0, <2>1 DEF NoLostWakeup, At, Empty, Full
<1> QED
  BY <1>0, <1>6, <1>7, <1>8, <1>9, <1>10, SysPipeFInv, LoneHolder DEF IInv, EInv
-----------------------------------------------------------------------------
(* The steps of one process that leave descriptors and files alone.        *)

Seated(p, r) ==
  /\ r.pc \in {"read", "readsleeps"} => r.page \in Pages /\ Holds(p, r.page, FALSE)
  /\ r.pc \in {"write", "writesleeps"} => r.page \in Pages /\ Holds(p, r.page, TRUE)

Moves(p, r, w, g) ==
  /\ Step(p, r, w, g) /\ Allowed(p, r) /\ Seated(p, r)
  /\ UNCHANGED <<fds, ref, file>>
  /\ pipe' \in [Pages -> ClosedType] /\ cut' \in [Pages -> BOOLEAN]

LEMMA MovesKeep ==
  ASSUME FInv, HolderInv, NEW p \in Procs, NEW r, NEW w, NEW g, Moves(p, r, w, g)
  PROVE  FInv' /\ HolderInv'
<1>1. FInv'
  <2>1. Quiet
    BY StepQuiet DEF Moves
  <2> QED
    BY <2>1, QuietFInv
<1>2. \A q \in Procs : \A x, b : Holds(q, x, b)' <=> Holds(q, x, b)
  BY DEF Holds, Moves
<1>3. ASSUME NEW q \in Procs
      PROVE  /\ proc'[q].pc \in {"read", "readsleeps"} =>
                  proc'[q].page \in Pages /\ Holds(q, proc'[q].page, FALSE)
             /\ proc'[q].pc \in {"write", "writesleeps"} =>
                  proc'[q].page \in Pages /\ Holds(q, proc'[q].page, TRUE)
  <2>1. CASE q = p
    BY <2>1 DEF Moves, Step, Seated
  <2>2. CASE q # p
    <3>1. proc'[q].page = proc[q].page /\ proc'[q].pc = Wakened(w, proc[q], g)
      BY <2>2 DEF Moves, Step
    <3> QED
      BY <3>1 DEF HolderInv, Wakened
  <2> QED
    BY <2>1, <2>2
<1>4. HolderInv'
  BY <1>2, <1>3 DEF HolderInv
<1> QED
  BY <1>1, <1>4

FlagsSame == \A g \in Pages : /\ pipe'[g].readopen = pipe[g].readopen
                              /\ pipe'[g].writeopen = pipe[g].writeopen
                              /\ pipe'[g].used = pipe[g].used

LEMMA MovesEnds ==
  ASSUME NEW p \in Procs, NEW r, NEW w, NEW g, Moves(p, r, w, g),
         ~At(p, "pipeclose"), FlagsSame
  PROVE  EndsSame
<1>1. ASSUME NEW q \in Procs
      PROVE  /\ At(q, "pipeclose")' <=> At(q, "pipeclose")
             /\ At(q, "pipeclose") => proc'[q].end = proc[q].end
  <2>1. CASE q = p
    BY <2>1 DEF Moves, Step, Allowed, At
  <2>2. CASE q # p
    BY <2>2 DEF Moves, Step, Wakened, At
  <2> QED
    BY <2>1, <2>2
<1> QED
  BY <1>1 DEF EndsSame, FlagsSame, Moves

Sleeps(r) ==
  /\ r.pc = "readsleeps" => pipe'[r.page].writeopen /\ (Empty(r.page)' \/ cut'[r.page])
  /\ r.pc = "writesleeps" => pipe'[r.page].readopen /\ Full(r.page)'

\* The step changes no pipe and wakes nobody.
LEMMA StillInv ==
  ASSUME IInv, NEW p \in Procs, NEW r, Steps(p, r, "nobody", None), Allowed(p, r), Seated(p, r),
         ~At(p, "pipeclose"), Sleeps(r), UNCHANGED <<fds, ref, file, pipe, cut>>
  PROVE  IInv'
<1>0. FInv /\ Types /\ OneEach /\ Ends /\ HolderInv /\ Bound /\ NoLostWakeup
  BY DEF IInv, FInv, EInv
<1>1. Step(p, r, "nobody", None)
  BY <1>0, StepShape
<1>2. Moves(p, r, "nobody", None)
  BY <1>0, <1>1 DEF Moves, Types, ClosedType
<1>3. FInv' /\ HolderInv'
  BY <1>0, <1>2, MovesKeep
<1>4. OneEach' /\ Ends'
  <2>1. FlagsSame
    BY DEF FlagsSame
  <2>2. EndsSame
    BY <1>2, <2>1, MovesEnds
  <2> QED
    BY <1>0, <2>2, EndsSameKeep
<1>5. Bound'
  BY <1>0 DEF Bound, Available
<1>6. \A q \in Procs : q # p => proc'[q].pc = proc[q].pc /\ proc'[q].page = proc[q].page
  BY <1>1 DEF Step, Wakened
<1>7. proc'[p] = r
  BY <1>1 DEF Step
<1>8. NoLostWakeup'
  BY <1>0, <1>6, <1>7 DEF NoLostWakeup, At, Empty, Full, Sleeps
<1> QED
  BY <1>3, <1>4, <1>5, <1>8 DEF IInv, EInv

\* One process changes in place.
LEMMA Alters ==
  ASSUME NEW p \in Procs, NEW r \in Process, r.hand = proc[p].hand,
         proc' = [proc EXCEPT ![p] = r]
  PROVE  Steps(p, r, "nobody", None)
BY DEF Steps

LEMMA PipeFailsInv ==
  ASSUME IInv, NEW p \in Procs, PipeFails(p)
  PROVE  IInv'
<1>0. Types /\ At(p, "alloc") /\ proc[p] \in Process
  BY Basics DEF IInv, FInv, PipeFails
<1>1. PICK r : r = [proc[p] EXCEPT !.pc = "close"]
  OBVIOUS
<1>2. r \in Process /\ r.pc = "close" /\ r.hand = proc[p].hand
  BY <1>0, <1>1 DEF Process, Places
<1>3. proc' = [proc EXCEPT ![p] = r]
  BY <1>1 DEF PipeFails, Goto
<1>4. Steps(p, r, "nobody", None)
  BY <1>2, <1>3, Alters
<1>5. Allowed(p, r) /\ Seated(p, r) /\ Sleeps(r)
  BY <1>2 DEF Allowed, Seated, Sleeps
<1> QED
  BY <1>0, <1>4, <1>5, StillInv DEF PipeFails, At

LEMMA ExitInv ==
  ASSUME IInv, NEW p \in Procs, Exit(p), OpenFds(p) = {}
  PROVE  IInv'
<1>0. /\ Types /\ proc[p] \in Process /\ proc[p].hand = NoFiles /\ ~At(p, "pipeclose")
      /\ UNCHANGED <<fds, ref, file, pipe, cut>>
  BY Basics DEF IInv, FInv, HandInv, Exit, Exiting, At
<1>1. proc' = [proc EXCEPT ![p] = Unused]
  BY DEF Exit
<1>2. Unused \in Process /\ Unused.hand = proc[p].hand /\ Unused.pc = "none"
  BY <1>0, Basics DEF Unused
<1>3. Steps(p, Unused, "nobody", None)
  BY <1>1, <1>2, Alters
<1>4. Allowed(p, Unused) /\ Seated(p, Unused) /\ Sleeps(Unused)
  BY <1>0, <1>2 DEF Allowed, Seated, Sleeps
<1> QED
  BY <1>0, <1>3, <1>4, StillInv

LEMMA CloseReturnsInv ==
  ASSUME IInv, NEW p \in Procs, CloseReturns(p)
  PROVE  IInv'
<1>0. Types /\ At(p, "close") /\ proc[p] \in Process
  BY Basics DEF IInv, FInv, CloseReturns
<1>1. PICK r : r = [proc[p] EXCEPT !.pc = "user"]
  OBVIOUS
<1>2. r \in Process /\ r.pc = "user" /\ r.hand = proc[p].hand
  BY <1>0, <1>1 DEF Process, Places
<1>3. proc' = [proc EXCEPT ![p] = r]
  BY <1>1 DEF CloseReturns, Goto
<1>4. Steps(p, r, "nobody", None)
  BY <1>2, <1>3, Alters
<1>5. Allowed(p, r) /\ Seated(p, r) /\ Sleeps(r)
  BY <1>0, <1>2 DEF CloseReturns, Allowed, Seated, Sleeps
<1> QED
  BY <1>0, <1>4, <1>5, StillInv DEF CloseReturns, At

LEMMA KillInv ==
  ASSUME IInv, NEW p \in Procs, Kill(p)
  PROVE  IInv'
<1>0. Types /\ proc[p] \in Process /\ HandInv /\ HolderInv
  BY Basics DEF IInv, FInv, EInv
<1>1. PICK pc \in {"read", "write"} :
        /\ proc' = Killed(p, pc)
        /\ pc = "read" => proc[p].pc \in {"read", "readsleeps"}
        /\ pc = "write" => proc[p].pc \in {"write", "writesleeps"}
  BY DEF Kill, At
<1>2. PICK r : r = [proc[p] EXCEPT !.killed = TRUE, !.pc = pc]
  OBVIOUS
<1>3. r \in Process /\ r.pc = pc /\ r.hand = proc[p].hand /\ r.page = proc[p].page
  BY <1>0, <1>2 DEF Process, Places
<1>4. proc' = [proc EXCEPT ![p] = r]
  BY <1>1, <1>2 DEF Killed
<1>5. Steps(p, r, "nobody", None)
  BY <1>3, <1>4, Alters
<1>6. proc[p].hand = NoFiles /\ ~At(p, "pipeclose")
  BY <1>0, <1>1 DEF HandInv, At
<1>7. Allowed(p, r) /\ Sleeps(r)
  BY <1>3, <1>6 DEF Allowed, Sleeps
<1>8. Seated(p, r)
  BY <1>0, <1>1, <1>3 DEF Seated, HolderInv
<1> QED
  BY <1>5, <1>6, <1>7, <1>8, StillInv DEF Kill

LEMMA EnterInv ==
  ASSUME IInv, NEW p \in Procs, Read(p) \/ Write(p)
  PROVE  IInv'
<1>0. Types /\ proc[p] \in Process /\ HandInv /\ FileInv
  BY Basics DEF IInv, FInv
<1>1. PICK b \in BOOLEAN, n \in Nat : Enter(p, b, IF b THEN "write" ELSE "read", n)
  BY Constants DEF Read, Write
<1>2. PICK d \in OpenFds(p) :
       /\ file[fds[p][d]].writable = b
       /\ proc' = [proc EXCEPT ![p].pc = IF b THEN "write" ELSE "read",
                               ![p].page = file[fds[p][d]].page, ![p].left = n]
  BY <1>1 DEF Enter
<1>3. PICK g \in Pages : file[fds[p][d]] = [page |-> g, writable |-> b] /\ d \in Fd /\ fds[p][d] # None
  <2>1. d \in Fd /\ fds[p][d] \in Files /\ fds[p][d] # None
    BY <1>0, Basics, Constants DEF OpenFds
  <2>2. file[fds[p][d]].page # None
        /\ file[fds[p][d]] \in [page : Pages \cup {None}, writable : BOOLEAN]
    BY <1>0, <2>1, Basics DEF FileInv
  <2> QED
    BY <1>2, <2>1, <2>2
<1>4. PICK r : r = [proc[p] EXCEPT !.pc = IF b THEN "write" ELSE "read", !.page = g, !.left = n]
  OBVIOUS
<1>5. /\ r \in Process /\ r.pc = (IF b THEN "write" ELSE "read")
      /\ r.hand = proc[p].hand /\ r.page = g
  BY <1>0, <1>4 DEF Process, Places
<1>6. proc' = [proc EXCEPT ![p] = r]
  <2>1. proc' = [proc EXCEPT ![p].pc = IF b THEN "write" ELSE "read", ![p].page = g, ![p].left = n]
    BY <1>2, <1>3
  <2> QED
    BY <1>0, <1>4, <2>1 DEF Types
<1>7. Steps(p, r, "nobody", None)
  BY <1>5, <1>6, Alters
<1>8. At(p, "user") /\ proc[p].hand = NoFiles
  BY <1>0, <1>1 DEF HandInv, At, Enter, Calls
<1>9. Allowed(p, r) /\ Sleeps(r)
  BY <1>5, <1>8 DEF Allowed, Sleeps
<1>10. Seated(p, r)
  BY <1>3, <1>5 DEF Seated, Holds
<1>11. UNCHANGED <<fds, ref, file, pipe, cut>>
  BY <1>1 DEF Enter
<1> QED
  BY <1>7, <1>8, <1>9, <1>10, <1>11, StillInv DEF At

LEMMA PipereadWaitsInv ==
  ASSUME IInv, NEW p \in Procs, PipereadWaits(p)
  PROVE  IInv'
<1>0. Types /\ proc[p] \in Process /\ HandInv /\ HolderInv
  BY Basics DEF IInv, FInv, EInv
<1>1. PICK late \in BOOLEAN : proc' = AsleepAt(p, "readsleeps", proc[p].left, late)
  BY DEF PipereadWaits
<1>2. PICK r : r = [proc[p] EXCEPT !.pc = "readsleeps", !.left = proc[p].left, !.killed = late]
  OBVIOUS
<1>3. r \in Process /\ r.pc = "readsleeps" /\ r.hand = proc[p].hand /\ r.page = proc[p].page
  BY <1>0, <1>2 DEF Process, Places
<1>4. proc' = [proc EXCEPT ![p] = r]
  BY <1>1, <1>2 DEF AsleepAt
<1>5. Steps(p, r, "nobody", None)
  BY <1>3, <1>4, Alters
<1>6. /\ At(p, "read") /\ proc[p].hand = NoFiles
      /\ Empty(proc[p].page) /\ pipe[proc[p].page].writeopen
      /\ UNCHANGED <<fds, ref, file, pipe, cut>>
  BY <1>0 DEF HandInv, At, PipereadWaits
<1>7. Allowed(p, r)
  BY <1>3, <1>6 DEF Allowed
<1>8. Sleeps(r)
  BY <1>3, <1>6 DEF Sleeps, Empty
<1>9. Seated(p, r)
  BY <1>0, <1>3, <1>6 DEF Seated, HolderInv, At
<1> QED
  BY <1>5, <1>6, <1>7, <1>8, <1>9, StillInv DEF At

\* The way out of both loops.
LEMMA Returns ==
  ASSUME Types, NEW p \in Procs
  PROVE  \E r \in Process : /\ Return(p) = [proc EXCEPT ![p] = r]
                            /\ r.pc = "user" /\ r.hand = proc[p].hand
<1>1. PICK r : r = [proc[p] EXCEPT !.pc = "user", !.page = None, !.left = 0]
  OBVIOUS
<1>2. r \in Process /\ r.pc = "user" /\ r.hand = proc[p].hand
  BY <1>1, Basics DEF Process, Places
<1>3. Return(p) = [proc EXCEPT ![p] = r]
  BY <1>1 DEF Return
<1> QED
  BY <1>2, <1>3

LEMMA PipereadGivesUpInv ==
  ASSUME IInv, NEW p \in Procs, PipereadGivesUp(p)
  PROVE  IInv'
<1>0. Types /\ HandInv /\ At(p, "read") /\ proc' = Return(p)
  BY DEF IInv, FInv, PipereadGivesUp
<1>1. PICK r \in Process : /\ Return(p) = [proc EXCEPT ![p] = r]
                           /\ r.pc = "user" /\ r.hand = proc[p].hand
  BY <1>0, Returns
<1>2. Steps(p, r, "nobody", None)
  BY <1>0, <1>1, Alters
<1>3. Allowed(p, r) /\ Seated(p, r) /\ Sleeps(r)
  BY <1>0, <1>1 DEF Allowed, Seated, Sleeps, HandInv, At
<1> QED
  BY <1>0, <1>2, <1>3, StillInv DEF PipereadGivesUp, At
-----------------------------------------------------------------------------
(* The counters wrap around at UintMod, and their difference does not see  *)
(* it.                                                                     *)

LEMMA Difference ==
  ASSUME NEW x \in Byte, NEW y \in Byte
  PROVE  /\ (y - x) % UintMod = IF x <= y THEN y - x ELSE y - x + UintMod
         /\ (y - x) % UintMod \in 0..UintMod-1
         /\ (y - x) % UintMod = 0 <=> x = y
<1>1. x \in Int /\ y \in Int /\ 0 <= x /\ x < UintMod /\ 0 <= y /\ y < UintMod /\ UintMod \in Nat
  BY Constants DEF Byte
<1>2. y - x \in Int
  BY <1>1
<1>3. CASE x <= y
  <2>1. 0 <= y - x /\ y - x < UintMod
    BY <1>1, <1>3
  <2>2. (y - x) % UintMod = y - x
    BY <1>2, <2>1, ModUintMod
  <2> QED
    BY <1>1, <1>3, <2>1, <2>2
<1>4. CASE ~(x <= y)
  <2>1. -UintMod <= y - x /\ y - x < 0
    BY <1>1, <1>4
  <2>2. (y - x) % UintMod = y - x + UintMod
    BY <1>2, <2>1, ModUintMod
  <2> QED
    BY <1>1, <1>4, <2>1, <2>2
<1> QED
  BY <1>3, <1>4

LEMMA Advance ==
  ASSUME NEW x \in Byte, NEW k \in Nat, k <= UintMod
  PROVE  /\ (x + k) % UintMod = IF x + k < UintMod THEN x + k ELSE x + k - UintMod
         /\ (x + k) % UintMod \in Byte
<1>1. x \in Int /\ 0 <= x /\ x < UintMod /\ UintMod \in Nat
  BY Constants DEF Byte
<1>2. PICK t \in Int : t = x + k /\ 0 <= t /\ t < 2 * UintMod
  BY <1>1
<1>3. CASE t < UintMod
  <2>1. t % UintMod = t
    BY <1>2, <1>3, ModUintMod
  <2> QED
    BY <1>1, <1>2, <1>3, <2>1 DEF Byte
<1>4. CASE UintMod <= t
  <2>1. t % UintMod = t - UintMod
    BY <1>2, <1>4, ModUintMod
  <2>2. t - UintMod \in Byte
    BY <1>1, <1>2, <1>4 DEF Byte
  <2> QED
    BY <1>1, <1>2, <1>4, <2>1, <2>2
<1> QED
  BY <1>1, <1>2, <1>3, <1>4

\* The number of bytes in the buffer, when bytes are taken and stored.
LEMMA Counters ==
  ASSUME NEW x \in Byte, NEW y \in Byte, NEW n, n = (y - x) % UintMod, n <= PIPESIZE
  PROVE  /\ n \in Nat /\ (n = 0 <=> x = y) /\ (n = PIPESIZE <=> y = (x + PIPESIZE) % UintMod)
         /\ \A k \in Nat : k <= n => (y - ((x + k) % UintMod)) % UintMod = n - k
         /\ \A k \in Nat : n + k <= PIPESIZE => (((y + k) % UintMod) - x) % UintMod = n + k
<1>1. /\ x \in Int /\ 0 <= x /\ x < UintMod /\ y \in Int /\ 0 <= y /\ y < UintMod
      /\ UintMod \in Nat /\ PIPESIZE \in Nat /\ PIPESIZE < UintMod
  BY Constants DEF Byte
<1>2. /\ n = IF x <= y THEN y - x ELSE y - x + UintMod
      /\ n \in Nat /\ (n = 0 <=> x = y)
  BY <1>1, Difference
<1>3. n = PIPESIZE <=> y = (x + PIPESIZE) % UintMod
  <2>1. (x + PIPESIZE) % UintMod = IF x + PIPESIZE < UintMod THEN x + PIPESIZE
                                                             ELSE x + PIPESIZE - UintMod
    BY <1>1, Advance
  <2> QED
    BY <1>1, <1>2, <2>1
<1>4. ASSUME NEW k \in Nat, k <= n
      PROVE  (y - ((x + k) % UintMod)) % UintMod = n - k
  <2>0. k <= UintMod
    BY <1>1, <1>2, <1>4
  <2>1. PICK z \in Byte : /\ z = (x + k) % UintMod
                          /\ z = IF x + k < UintMod THEN x + k ELSE x + k - UintMod
    BY <2>0, Advance
  <2>2. (y - z) % UintMod = IF z <= y THEN y - z ELSE y - z + UintMod
    BY Difference
  <2>3. z \in Int
    BY Constants DEF Byte
  <2>4. (IF z <= y THEN y - z ELSE y - z + UintMod) = n - k
    BY <1>1, <1>2, <1>4, <2>1, <2>3
  <2> QED
    BY <2>1, <2>2, <2>4
<1>5. ASSUME NEW k \in Nat, n + k <= PIPESIZE
      PROVE  (((y + k) % UintMod) - x) % UintMod = n + k
  <2>0. k <= UintMod
    BY <1>1, <1>2, <1>5
  <2>1. PICK z \in Byte : /\ z = (y + k) % UintMod
                          /\ z = IF y + k < UintMod THEN y + k ELSE y + k - UintMod
    BY <2>0, Advance
  <2>2. (z - x) % UintMod = IF x <= z THEN z - x ELSE z - x + UintMod
    BY Difference
  <2>3. z \in Int
    BY Constants DEF Byte
  <2>4. (IF x <= z THEN z - x ELSE z - x + UintMod) = n + k
    BY <1>1, <1>2, <1>5, <2>1, <2>3
  <2> QED
    BY <2>1, <2>2, <2>4
<1> QED
  BY <1>2, <1>3, <1>4, <1>5

\* What a read or a write of one pipe does to its counters.
Level(g, n) ==
  /\ pipe' \in [Pages -> ClosedType] /\ FlagsSame
  /\ \A x \in Pages : x # g => pipe'[x] = pipe[x]
  /\ Available(g)' = n /\ (Empty(g)' <=> n = 0) /\ (Full(g)' <=> n = PIPESIZE)

LEMMA Levels ==
  ASSUME Types, Bound, NEW g \in Pages
  PROVE  /\ Available(g) \in Nat /\ Available(g) <= PIPESIZE /\ Room(g) \in Nat
         /\ Room(g) = PIPESIZE - Available(g)
         /\ Empty(g) <=> Available(g) = 0
         /\ Full(g) <=> Available(g) = PIPESIZE
<1>1. pipe[g].nread \in Byte /\ pipe[g].nwrite \in Byte /\ Available(g) <= PIPESIZE
  BY DEF Types, Byte, Bound
<1>2. PICK n : n = (pipe[g].nwrite - pipe[g].nread) % UintMod
  OBVIOUS
<1>3. n <= PIPESIZE /\ Available(g) = n
  BY <1>1, <1>2 DEF Available
<1>4. /\ n \in Nat /\ (n = 0 <=> pipe[g].nread = pipe[g].nwrite)
      /\ n = PIPESIZE <=> pipe[g].nwrite = (pipe[g].nread + PIPESIZE) % UintMod
  BY <1>1, <1>2, <1>3, Counters
<1> QED
  BY <1>3, <1>4, Constants DEF Empty, Full, Room

LEMMA TookLevel ==
  ASSUME Types, Bound, NEW g \in Pages, NEW k \in Nat, k <= Available(g), pipe' = Took(g, k)
  PROVE  Level(g, Available(g) - k)
<1>1. /\ pipe[g].nread \in Byte /\ pipe[g].nwrite \in Byte
      /\ pipe[g] \in ClosedType /\ pipe \in [Pages -> ClosedType]
  BY DEF Types, Byte, ClosedType
<1>2. PICK n : n = (pipe[g].nwrite - pipe[g].nread) % UintMod
  OBVIOUS
<1>3. n = Available(g) /\ n \in Nat /\ n <= PIPESIZE
  BY <1>2, Levels DEF Available
<1>4. PICK x : x = (pipe[g].nread + k) % UintMod
  OBVIOUS
<1>5. x \in Byte /\ k <= UintMod
  BY <1>1, <1>3, <1>4, Advance, Constants
<1>6. (pipe[g].nwrite - x) % UintMod = n - k
  BY <1>1, <1>2, <1>3, <1>4, Counters
<1>7. PICK b : b = [pipe[g] EXCEPT !.nread = x]
  OBVIOUS
<1>8. /\ b \in ClosedType /\ b.nread = x /\ b.nwrite = pipe[g].nwrite
      /\ b.readopen = pipe[g].readopen /\ b.writeopen = pipe[g].writeopen /\ b.used = pipe[g].used
  BY <1>1, <1>5, <1>7 DEF ClosedType, Byte
<1>9. pipe' = [pipe EXCEPT ![g] = b]
  BY <1>4, <1>7 DEF Took
<1>10. /\ pipe' \in [Pages -> ClosedType] /\ pipe'[g] = b
       /\ \A h \in Pages : h # g => pipe'[h] = pipe[h]
  BY <1>1, <1>8, <1>9
<1>11. FlagsSame
  BY <1>8, <1>10 DEF FlagsSame
<1>12. PICK m : m = (pipe[g].nwrite - x) % UintMod
  OBVIOUS
<1>13. m = n - k /\ m <= PIPESIZE
  BY <1>3, <1>6, <1>12, Constants
<1>14. (m = 0 <=> x = pipe[g].nwrite) /\ (m = PIPESIZE <=> pipe[g].nwrite = (x + PIPESIZE) % UintMod)
  BY <1>1, <1>5, <1>12, <1>13, Counters
<1> QED
  BY <1>3, <1>8, <1>10, <1>11, <1>12, <1>13, <1>14 DEF Level, Available, Empty, Full

LEMMA StoredLevel ==
  ASSUME Types, Bound, NEW g \in Pages, NEW k \in Nat, k <= Room(g),
         pipe' = Stored(g, Serials(g, k))
  PROVE  Level(g, Available(g) + k)
<1>1. /\ pipe[g].nread \in Byte /\ pipe[g].nwrite \in Byte
      /\ pipe[g] \in ClosedType /\ pipe \in [Pages -> ClosedType]
      /\ pipe[g].data \in [0..PIPESIZE-1 -> Byte \cup {None}]
  BY DEF Types, Byte, ClosedType
<1>2. PICK n : n = (pipe[g].nwrite - pipe[g].nread) % UintMod
  OBVIOUS
<1>3. n = Available(g) /\ n \in Nat /\ n + k <= PIPESIZE
  <2>1. n = Available(g)
    BY <1>2 DEF Available
  <2> QED
    BY <2>1, Levels, Constants
<1>4. PICK y : y = (pipe[g].nwrite + k) % UintMod
  OBVIOUS
<1>5. y \in Byte
  BY <1>1, <1>3, <1>4, Advance, Constants
<1>6. (y - pipe[g].nread) % UintMod = n + k
  BY <1>1, <1>2, <1>3, <1>4, Counters, Constants
<1>7. PICK s : s = Serials(g, k)
  OBVIOUS
<1>8. Len(s) = k /\ \A i \in 1..k : s[i] \in Byte
  <2>1. ASSUME NEW i \in 1..k PROVE (pipe[g].nwrite + i - 1) % UintMod \in Byte
    <3>1. pipe[g].nwrite \in Int /\ i \in Int
      BY <1>1, Constants DEF Byte
    <3>2. pipe[g].nwrite + i - 1 \in Int
      BY <3>1
    <3> QED
      BY <3>2, ModUintMod DEF Byte
  <2> QED
    BY <1>7, <2>1 DEF Serials
<1>9. PICK d : d = [j \in 0..PIPESIZE-1 |-> LET i == ((j - pipe[g].nwrite) % PIPESIZE) + 1
                                            IN IF i <= k THEN s[i] ELSE pipe[g].data[j]]
  OBVIOUS
<1>10. d \in [0..PIPESIZE-1 -> Byte \cup {None}]
  <2>1. ASSUME NEW j \in 0..PIPESIZE-1, NEW i, i = ((j - pipe[g].nwrite) % PIPESIZE) + 1
        PROVE  (IF i <= k THEN s[i] ELSE pipe[g].data[j]) \in Byte \cup {None}
    <3>1. j - pipe[g].nwrite \in Int
      BY <1>1, Constants DEF Byte
    <3>2. (j - pipe[g].nwrite) % PIPESIZE \in 0..PIPESIZE-1
      BY <3>1, Constants
    <3>3. i \in Nat \ {0}
      BY <2>1, <3>2, Constants
    <3>4. i <= k => i \in 1..k
      BY <3>3
    <3>5. pipe[g].data[j] \in Byte \cup {None}
      BY <1>1
    <3> QED
      BY <1>8, <3>4, <3>5
  <2> QED
    BY <1>9, <2>1
<1>11. PICK b : b = [pipe[g] EXCEPT !.nwrite = y, !.data = d]
  OBVIOUS
<1>12. /\ b \in ClosedType /\ b.nread = pipe[g].nread /\ b.nwrite = y
       /\ b.readopen = pipe[g].readopen /\ b.writeopen = pipe[g].writeopen /\ b.used = pipe[g].used
  BY <1>1, <1>5, <1>10, <1>11 DEF ClosedType, Byte
<1>13. pipe' = [pipe EXCEPT ![g] = b]
  BY <1>1, <1>4, <1>7, <1>8, <1>9, <1>11 DEF Stored
<1>14. /\ pipe' \in [Pages -> ClosedType] /\ pipe'[g] = b
       /\ \A h \in Pages : h # g => pipe'[h] = pipe[h]
  BY <1>1, <1>12, <1>13
<1>15. FlagsSame
  BY <1>12, <1>14 DEF FlagsSame
<1>16. PICK m : m = (y - pipe[g].nread) % UintMod
  OBVIOUS
<1>17. m = n + k /\ m <= PIPESIZE
  BY <1>3, <1>6, <1>16
<1>18. (m = 0 <=> pipe[g].nread = y) /\ (m = PIPESIZE <=> y = (pipe[g].nread + PIPESIZE) % UintMod)
  BY <1>1, <1>5, <1>16, <1>17, Counters
<1> QED
  BY <1>3, <1>12, <1>14, <1>15, <1>16, <1>17, <1>18 DEF Level, Available, Empty, Full

Rested(q) ==
  /\ At(q, "readsleeps") => /\ pipe[proc[q].page].writeopen
                            /\ Empty(proc[q].page) \/ cut[proc[q].page]
  /\ At(q, "writesleeps") => pipe[proc[q].page].readopen /\ Full(proc[q].page)

\* A step that moves bytes: whoever it does not wake still has to wait.
Flows(p, r, w, g, n) ==
  /\ Steps(p, r, w, g) /\ Allowed(p, r) /\ Seated(p, r) /\ Sleeps(r) /\ ~At(p, "pipeclose")
  /\ UNCHANGED <<fds, ref, file>>
  /\ Level(g, n) /\ n <= PIPESIZE
  /\ cut' \in [Pages -> BOOLEAN]
  /\ \A x \in Pages : x # g => cut'[x] = cut[x]
  /\ w # "readers" => (pipe[g].writeopen /\ (Available(g) = 0 \/ cut[g]) => n = 0 \/ cut'[g])
  /\ w # "writers" => (Available(g) = PIPESIZE => n = PIPESIZE)

LEMMA FlowInv ==
  ASSUME IInv, NEW p \in Procs, NEW r, NEW w, NEW g \in Pages, NEW n, Flows(p, r, w, g, n)
  PROVE  IInv'
<1>0. FInv /\ Types /\ OneEach /\ Ends /\ HolderInv /\ Bound /\ NoLostWakeup
  BY DEF IInv, FInv, EInv
<1>1. Steps(p, r, w, g)
  BY DEF Flows
<1>2. Step(p, r, w, g)
  BY <1>0, <1>1, StepShape
<1>3. Moves(p, r, w, g)
  BY <1>2 DEF Moves, Flows, Level
<1>4. FInv' /\ HolderInv'
  BY <1>0, <1>3, MovesKeep
<1>5. OneEach' /\ Ends'
  <2>1. FlagsSame /\ ~At(p, "pipeclose")
    BY DEF Flows, Level
  <2>2. EndsSame
    BY <1>3, <2>1, MovesEnds
  <2> QED
    BY <1>0, <2>2, EndsSameKeep
<1>6. \A x \in Pages : x # g => pipe'[x] = pipe[x] /\ cut'[x] = cut[x]
  BY DEF Flows, Level
<1>7. Bound'
  <2>1. \A x \in Pages : x # g => Available(x)' = Available(x)
    BY <1>6 DEF Available
  <2>2. Available(g)' <= PIPESIZE
    BY DEF Flows, Level
  <2> QED
    BY <1>0, <2>1, <2>2 DEF Bound
<1>8. ASSUME NEW q \in Procs
      PROVE  Rested(q)'
  <2>1. CASE q = p
    <3>1. proc'[p] = r /\ Sleeps(r)
      BY <1>2 DEF Step, Flows
    <3> QED
      BY <2>1, <3>1 DEF Sleeps, Rested, At, Empty, Full
  <2>2. CASE q # p
    <3>1. proc'[q].pc = Wakened(w, proc[q], g) /\ proc'[q].page = proc[q].page
      BY <1>2, <2>2 DEF Step
    <3>2. CASE proc[q].page # g
      <4>1. proc[q].pc \in {"readsleeps", "writesleeps"} => proc[q].page \in Pages
        BY <1>0 DEF HolderInv
      <4>2. proc'[q].pc = proc[q].pc
        BY <3>1, <3>2 DEF Wakened
      <4>3. proc[q].page \in Pages => /\ pipe'[proc[q].page] = pipe[proc[q].page]
                                      /\ cut'[proc[q].page] = cut[proc[q].page]
        BY <1>6, <3>2
      <4> QED
        BY <1>0, <3>1, <4>1, <4>2, <4>3 DEF NoLostWakeup, Rested, At, Empty, Full
    <3>3. CASE proc[q].page = g
      <4>1. /\ pipe'[g].writeopen = pipe[g].writeopen /\ pipe'[g].readopen = pipe[g].readopen
            /\ (Empty(g)' <=> n = 0) /\ (Full(g)' <=> n = PIPESIZE)
        BY DEF Flows, Level, FlagsSame
      <4>2. (Empty(g) <=> Available(g) = 0) /\ (Full(g) <=> Available(g) = PIPESIZE)
        BY <1>0, Levels
      <4>3. ASSUME At(q, "readsleeps")'
            PROVE  pipe'[g].writeopen /\ (Empty(g)' \/ cut'[g])
        <5>1. At(q, "readsleeps") /\ w # "readers"
          BY <3>1, <3>3, <4>3 DEF Wakened, At
        <5>2. pipe[g].writeopen /\ (Empty(g) \/ cut[g])
          BY <1>0, <3>3, <5>1 DEF NoLostWakeup
        <5> QED
          BY <4>1, <4>2, <5>1, <5>2 DEF Flows
      <4>4. ASSUME At(q, "writesleeps")'
            PROVE  pipe'[g].readopen /\ Full(g)'
        <5>1. At(q, "writesleeps") /\ w # "writers"
          BY <3>1, <3>3, <4>4 DEF Wakened, At
        <5>2. pipe[g].readopen /\ Full(g)
          BY <1>0, <3>3, <5>1 DEF NoLostWakeup
        <5> QED
          BY <4>1, <4>2, <5>1, <5>2 DEF Flows
      <4> QED
        BY <3>1, <3>3, <4>3, <4>4 DEF Rested, At, Empty, Full
    <3> QED
      BY <3>2, <3>3
  <2> QED
    BY <2>1, <2>2
<1>9. NoLostWakeup'
  BY <1>8 DEF NoLostWakeup, Rested
<1> QED
  BY <1>4, <1>5, <1>7, <1>9 DEF IInv, EInv

\* What a process finds that is inside a read, or inside a write.
LEMMA Inside ==
  ASSUME IInv, NEW p \in Procs, At(p, "read") \/ At(p, "write")
  PROVE  /\ Types /\ Bound /\ proc[p] \in Process /\ proc[p].hand = NoFiles
         /\ proc[p].page \in Pages /\ proc[p].left \in Nat /\ ~At(p, "pipeclose")
         /\ At(p, "write") => Holds(p, proc[p].page, TRUE)
<1>1. Types /\ Bound /\ HandInv /\ HolderInv
  BY DEF IInv, FInv, EInv
<1>2. proc[p] \in Process /\ proc[p].left \in Nat
  BY <1>1, Basics DEF Process
<1> QED
  BY <1>1, <1>2 DEF HandInv, HolderInv, At

LEMMA PipereadInv ==
  ASSUME IInv, NEW p \in Procs, Piperead(p)
  PROVE  IInv'
<1>0. /\ At(p, "read") /\ UNCHANGED <<fds, ref, file>>
      /\ ~(Empty(proc[p].page) /\ pipe[proc[p].page].writeopen)
  BY DEF Piperead
<1>i. /\ Types /\ Bound /\ proc[p].hand = NoFiles
      /\ proc[p].page \in Pages /\ ~At(p, "pipeclose")
  BY <1>0, Inside
<1>1. PICK g \in Pages : g = proc[p].page
  BY <1>i
<1>2. PICK m, k : /\ m \in Counts /\ k = Smaller(m, Available(g)) /\ pipe' = Took(g, k)
                  /\ cut' = [cut EXCEPT ![g] = cut[g] /\ Available(g) > k]
  BY <1>1 DEF Piperead
<1>3. proc' = WakeWriters(Return(p), g)
  BY <1>1 DEF Piperead
<1>4. /\ Available(g) \in Nat /\ Available(g) <= PIPESIZE
      /\ Empty(g) <=> Available(g) = 0
  BY <1>i, Levels
<1>5. /\ k \in Nat /\ k <= Available(g) /\ (Available(g) > 0 => k > 0)
  <2>1. m \in Nat /\ m > 0
    BY <1>2, Constants
  <2> QED
    BY <1>2, <1>4, <2>1 DEF Smaller
<1>6. Level(g, Available(g) - k)
  BY <1>i, <1>2, <1>5, TookLevel
<1>7. PICK r \in Process : /\ Return(p) = [proc EXCEPT ![p] = r]
                           /\ r.pc = "user" /\ r.hand = proc[p].hand
  BY <1>i, Returns
<1>8. Steps(p, r, "writers", g)
  BY <1>3, <1>7 DEF Steps
<1>9. Allowed(p, r) /\ Seated(p, r) /\ Sleeps(r)
  BY <1>i, <1>7 DEF Allowed, Seated, Sleeps
<1>10. /\ cut' \in [Pages -> BOOLEAN] /\ cut'[g] = (cut[g] /\ Available(g) > k)
       /\ \A x \in Pages : x # g => cut'[x] = cut[x]
  BY <1>i, <1>2 DEF Types
<1>11. pipe[g].writeopen /\ (Available(g) = 0 \/ cut[g]) => Available(g) - k = 0 \/ cut'[g]
  <2>1. CASE Available(g) > k
    BY <1>0, <1>1, <1>4, <1>10, <2>1
  <2>2. CASE ~(Available(g) > k)
    BY <1>4, <1>5, <2>2
  <2> QED
    BY <2>1, <2>2
<1>12. Available(g) - k <= PIPESIZE
  BY <1>4, <1>5, Constants
<1>13. Flows(p, r, "writers", g, Available(g) - k)
  BY <1>0, <1>i, <1>6, <1>8, <1>9, <1>10, <1>11, <1>12 DEF Flows
<1> QED
  BY <1>13, FlowInv

LEMMA PipewriteInv ==
  ASSUME IInv, NEW p \in Procs, Pipewrite(p)
  PROVE  IInv'
<1>0. At(p, "write") /\ UNCHANGED <<fds, ref, file>> /\ Fits(p) /\ FillPipe(p)
  BY DEF Pipewrite
<1>i. /\ Types /\ Bound /\ proc[p].hand = NoFiles
      /\ proc[p].page \in Pages /\ proc[p].left \in Nat /\ ~At(p, "pipeclose")
  BY <1>0, Inside
<1>1. PICK g \in Pages : g = proc[p].page
  BY <1>i
<1>2. PICK k \in Nat : k = proc[p].left
  BY <1>i
<1>3. /\ Available(g) \in Nat /\ Available(g) <= PIPESIZE
      /\ Room(g) = PIPESIZE - Available(g) /\ Room(g) \in Nat
  BY <1>i, Levels
<1>4. k <= Room(g) /\ pipe' = Stored(g, Serials(g, k))
  <2>1. k <= Room(g)
    BY <1>0, <1>1, <1>2 DEF Fits
  <2>2. Smaller(k, Room(g)) = k
    BY <2>1 DEF Smaller
  <2> QED
    BY <1>0, <1>1, <1>2, <2>1, <2>2 DEF FillPipe
<1>5. Level(g, Available(g) + k) /\ Available(g) + k <= PIPESIZE
  BY <1>i, <1>3, <1>4, StoredLevel, Constants
<1>6. PICK r \in Process : /\ Return(p) = [proc EXCEPT ![p] = r]
                           /\ r.pc = "user" /\ r.hand = proc[p].hand
  BY <1>i, Returns
<1>7. Steps(p, r, "readers", g)
  BY <1>1, <1>6 DEF Steps, Pipewrite
<1>8. Allowed(p, r) /\ Seated(p, r) /\ Sleeps(r)
  BY <1>i, <1>6 DEF Allowed, Seated, Sleeps
<1>9. cut' \in [Pages -> BOOLEAN] /\ \A x \in Pages : x # g => cut'[x] = cut[x]
  BY <1>i, <1>1 DEF Types, Pipewrite
<1>10. Available(g) = PIPESIZE => Available(g) + k = PIPESIZE
  BY <1>3, <1>4, Constants
<1>11. Flows(p, r, "readers", g, Available(g) + k)
  BY <1>0, <1>i, <1>5, <1>7, <1>8, <1>9, <1>10 DEF Flows
<1> QED
  BY <1>11, FlowInv

\* A write that does not fit fills the pipe.
LEMMA FillsUp ==
  ASSUME Types, Bound, NEW p \in Procs, NEW g \in Pages, g = proc[p].page, proc[p].left \in Nat,
         ~Fits(p), FillPipe(p)
  PROVE  /\ Level(g, PIPESIZE) /\ proc[p].left - Room(g) \in Nat
         /\ Available(g) = 0 => Room(g) > 0
<1>1. /\ Available(g) \in Nat /\ Available(g) <= PIPESIZE
      /\ Room(g) = PIPESIZE - Available(g) /\ Room(g) \in Nat
  BY Levels
<1>2. proc[p].left > Room(g)
  BY <1>1 DEF Fits
<1>3. Smaller(proc[p].left, Room(g)) = Room(g)
  BY <1>1, <1>2 DEF Smaller
<1>4. pipe' = Stored(g, Serials(g, Room(g)))
  BY <1>3 DEF FillPipe
<1>5. Level(g, Available(g) + Room(g))
  BY <1>1, <1>4, StoredLevel
<1>6. Available(g) + Room(g) = PIPESIZE
  BY <1>1, Constants
<1> QED
  BY <1>1, <1>2, <1>5, <1>6, Constants

LEMMA PipewriteWaitsInv ==
  ASSUME IInv, NEW p \in Procs, PipewriteWaits(p)
  PROVE  IInv'
<1>0. At(p, "write") /\ UNCHANGED <<fds, ref, file>> /\ ~Fits(p) /\ FillPipe(p)
  BY DEF PipewriteWaits
<1>i. /\ Types /\ Bound /\ proc[p] \in Process /\ proc[p].hand = NoFiles
      /\ proc[p].page \in Pages /\ proc[p].left \in Nat /\ ~At(p, "pipeclose")
      /\ Holds(p, proc[p].page, TRUE)
  BY <1>0, Inside
<1>1. PICK g \in Pages : g = proc[p].page
  BY <1>i
<1>2. Level(g, PIPESIZE) /\ proc[p].left - Room(g) \in Nat
  BY <1>0, <1>i, <1>1, FillsUp
<1>3. PICK late \in BOOLEAN :
        proc' = WakeReaders(AsleepAt(p, "writesleeps", proc[p].left - Room(g), late), g)
  BY <1>1 DEF PipewriteWaits
<1>4. PICK r : r = [proc[p] EXCEPT !.pc = "writesleeps", !.left = proc[p].left - Room(g),
                                   !.killed = late]
  OBVIOUS
<1>5. r \in Process /\ r.pc = "writesleeps" /\ r.hand = proc[p].hand /\ r.page = g
  BY <1>i, <1>1, <1>2, <1>4 DEF Process, Places
<1>6. AsleepAt(p, "writesleeps", proc[p].left - Room(g), late) = [proc EXCEPT ![p] = r]
  BY <1>4 DEF AsleepAt
<1>7. Steps(p, r, "readers", g)
  BY <1>3, <1>5, <1>6 DEF Steps
<1>8. Allowed(p, r) /\ Seated(p, r)
  BY <1>i, <1>1, <1>5 DEF Allowed, Seated
<1>9. Sleeps(r)
  <2>1. pipe[g].readopen
    BY <1>1 DEF PipewriteWaits
  <2>2. pipe'[g].readopen /\ Full(g)'
    BY <1>2, <2>1 DEF Level, FlagsSame
  <2> QED
    BY <1>5, <2>2 DEF Sleeps, Full
<1>10. cut' \in [Pages -> BOOLEAN] /\ \A x \in Pages : x # g => cut'[x] = cut[x]
  BY <1>i, <1>1 DEF Types, PipewriteWaits
<1>11. Flows(p, r, "readers", g, PIPESIZE)
  BY <1>0, <1>i, <1>2, <1>7, <1>8, <1>9, <1>10, Constants DEF Flows
<1> QED
  BY <1>11, FlowInv

LEMMA PipewriteGivesUpInv ==
  ASSUME IInv, NEW p \in Procs, PipewriteGivesUp(p)
  PROVE  IInv'
<1>0. At(p, "write") /\ UNCHANGED <<fds, ref, file>> /\ ~Fits(p) /\ FillPipe(p)
  BY DEF PipewriteGivesUp
<1>i. /\ Types /\ Bound /\ proc[p].hand = NoFiles
      /\ proc[p].page \in Pages /\ proc[p].left \in Nat /\ ~At(p, "pipeclose")
  BY <1>0, Inside
<1>1. PICK g \in Pages : g = proc[p].page
  BY <1>i
<1>2. Level(g, PIPESIZE) /\ (Available(g) = 0 => Room(g) > 0)
  BY <1>0, <1>i, <1>1, FillsUp
<1>3. PICK r \in Process : /\ Return(p) = [proc EXCEPT ![p] = r]
                           /\ r.pc = "user" /\ r.hand = proc[p].hand
  BY <1>i, Returns
<1>4. Steps(p, r, "nobody", g)
  BY <1>3 DEF Steps, PipewriteGivesUp
<1>5. Allowed(p, r) /\ Seated(p, r) /\ Sleeps(r)
  BY <1>i, <1>3 DEF Allowed, Seated, Sleeps
<1>6. /\ cut' \in [Pages -> BOOLEAN] /\ cut'[g] = (cut[g] \/ Room(g) > 0)
      /\ \A x \in Pages : x # g => cut'[x] = cut[x]
  <2>1. cut' = [cut EXCEPT ![g] = cut[g] \/ Room(g) > 0]
    BY <1>1 DEF PipewriteGivesUp
  <2>2. Room(g) \in Nat
    BY <1>i, Levels
  <2> QED
    BY <1>i, <2>1, <2>2 DEF Types
<1>7. Flows(p, r, "nobody", g, PIPESIZE)
  BY <1>0, <1>i, <1>2, <1>4, <1>5, <1>6, Constants DEF Flows
<1> QED
  BY <1>7, FlowInv
-----------------------------------------------------------------------------
(* pipeclose: the end is shut, and with the other end shut the page free.  *)

Shuts(p, g, b) ==
  /\ At(p, "pipeclose") /\ proc[p].end = [page |-> g, writable |-> b]
  /\ UNCHANGED <<fds, ref, file, cut>>
  /\ pipe' \in [Pages -> ClosedType]
  /\ \A x \in Pages : x # g => pipe'[x] = pipe[x]
  /\ pipe'[g].readopen  <=> pipe[g].readopen /\ b
  /\ pipe'[g].writeopen <=> pipe[g].writeopen /\ ~b
  /\ pipe'[g].used <=> pipe'[g].readopen \/ pipe'[g].writeopen
  /\ pipe'[g].used => /\ pipe'[g].nread = pipe[g].nread /\ pipe'[g].nwrite = pipe[g].nwrite
                      /\ pipe'[g].data = pipe[g].data
  /\ Available(g)' <= PIPESIZE
  /\ \E r : /\ Steps(p, r, IF b THEN "readers" ELSE "writers", g)
            /\ r.pc = "close"

LEMMA PipecloseShape ==
  ASSUME IInv, NEW p \in Procs, Pipeclose(p)
  PROVE  \E g \in Pages, b \in BOOLEAN : Shuts(p, g, b)
<1>0. Types /\ HandInv /\ Ends /\ Bound /\ At(p, "pipeclose") /\ UNCHANGED <<fds, ref, file, cut>>
  BY DEF IInv, FInv, EInv, Pipeclose
<1>1. PICK g \in Pages, b \in BOOLEAN : proc[p].end = [page |-> g, writable |-> b]
  <2>1. proc[p].end \in [page : Pages \cup {None}, writable : BOOLEAN] /\ proc[p].end.page # None
    BY <1>0, Basics DEF HandInv
  <2> QED
    BY <2>1
<1>2. proc[p].end.page = g /\ proc[p].end.writable = b
  BY <1>1
<1>3. /\ pipe' = [pipe EXCEPT ![g] = Shut(g, b)]
      /\ proc' = WakeOther([proc EXCEPT ![p].pc = "close", ![p].end = NoPipe], g, b)
  BY <1>2 DEF Pipeclose
<1>4. pipe[g] \in ClosedType /\ pipe \in [Pages -> ClosedType]
  BY <1>0 DEF Types, ClosedType
<1>5. pipe[g].used
  <2>1. StoodFor([page |-> g, writable |-> b])
    BY <1>0, <1>1 DEF StoodFor
  <2> QED
    BY <1>0, <2>1 DEF Ends
<1>6. PICK rest : rest = IF b THEN [pipe[g] EXCEPT !.writeopen = FALSE]
                              ELSE [pipe[g] EXCEPT !.readopen = FALSE]
  OBVIOUS
<1>7. /\ rest \in ClosedType /\ rest.used
      /\ rest.nread = pipe[g].nread /\ rest.nwrite = pipe[g].nwrite
      /\ rest.data = pipe[g].data
      /\ rest.readopen  <=> pipe[g].readopen /\ b
      /\ rest.writeopen <=> pipe[g].writeopen /\ ~b
  BY <1>4, <1>5, <1>6 DEF ClosedType
<1>8. Shut(g, b) = IF rest.readopen \/ rest.writeopen THEN rest ELSE Closed
  BY <1>6 DEF Shut
<1>9. /\ Shut(g, b) \in ClosedType
      /\ Shut(g, b).readopen  <=> rest.readopen
      /\ Shut(g, b).writeopen <=> rest.writeopen
      /\ Shut(g, b).used <=> rest.readopen \/ rest.writeopen
  BY <1>7, <1>8, ClosedIs
<1>10. (Shut(g, b).nwrite - Shut(g, b).nread) % UintMod <= PIPESIZE
  <2>1. (rest.nwrite - rest.nread) % UintMod <= PIPESIZE
    BY <1>0, <1>7 DEF Bound, Available
  <2>2. (0 - 0) % UintMod = 0
    BY Constants, ModUintMod
  <2>3. (Closed.nwrite - Closed.nread) % UintMod <= PIPESIZE
    BY <2>2, ClosedIs, Constants
  <2> QED
    BY <1>8, <2>1, <2>3
<1>11. /\ pipe' \in [Pages -> ClosedType] /\ pipe'[g] = Shut(g, b)
       /\ \A x \in Pages : x # g => pipe'[x] = pipe[x]
  BY <1>3, <1>4, <1>9
<1>12. Available(g)' <= PIPESIZE
  BY <1>10, <1>11 DEF Available
<1>13. \E r : Steps(p, r, IF b THEN "readers" ELSE "writers", g) /\ r.pc = "close"
  <2>1. PICK r : r = [proc[p] EXCEPT !.pc = "close", !.end = NoPipe]
    OBVIOUS
  <2>2. r \in Process /\ r.pc = "close" /\ r.hand = proc[p].hand
    BY <1>0, <2>1, Basics DEF Process, Places
  <2>3. proc' = WakeOther([proc EXCEPT ![p] = r], g, b)
    BY <1>3, <2>1
  <2> QED
    BY <2>2, <2>3 DEF Steps, WakeOther
<1>14. Shut(g, b).used => Shut(g, b) = rest
  BY <1>8, <1>9
<1> QED
  BY <1>0, <1>1, <1>7, <1>9, <1>11, <1>12, <1>13, <1>14 DEF Shuts

LEMMA PipecloseInv ==
  ASSUME IInv, NEW p \in Procs, Pipeclose(p)
  PROVE  IInv'
<1>0. FInv /\ Types /\ OneEach /\ Ends /\ HolderInv /\ Bound /\ NoLostWakeup
  BY DEF IInv, FInv, EInv
<1>1. PICK g \in Pages, b \in BOOLEAN : Shuts(p, g, b)
  BY PipecloseShape
<1>2. PICK e : e = [page |-> g, writable |-> b]
  OBVIOUS
<1>3. /\ At(p, "pipeclose") /\ proc[p].end = e /\ UNCHANGED <<fds, ref, file, cut>>
      /\ \A x \in Pages : x # g => pipe'[x] = pipe[x]
      /\ pipe'[g].readopen  <=> pipe[g].readopen /\ b
      /\ pipe'[g].writeopen <=> pipe[g].writeopen /\ ~b
      /\ pipe'[g].used <=> pipe'[g].readopen \/ pipe'[g].writeopen
  BY <1>1, <1>2 DEF Shuts
<1>4. PICK w \in {"readers", "writers"} : w = IF b THEN "readers" ELSE "writers"
  OBVIOUS
<1>5. PICK r : Steps(p, r, w, g) /\ r.pc = "close"
  BY <1>1, <1>4 DEF Shuts
<1>6. Step(p, r, w, g)
  BY <1>0, <1>5, StepShape
<1>7. Moves(p, r, w, g)
  <2>1. Allowed(p, r) /\ Seated(p, r)
    BY <1>5 DEF Allowed, Seated
  <2>2. pipe' \in [Pages -> ClosedType] /\ cut' \in [Pages -> BOOLEAN]
    BY <1>0, <1>1 DEF Shuts, Types
  <2> QED
    BY <1>3, <1>6, <2>1, <2>2 DEF Moves
<1>8. FInv' /\ HolderInv'
  BY <1>0, <1>7, MovesKeep
<1>9. \A q \in Procs : IF q = p THEN ~At(q, "pipeclose")'
                       ELSE /\ At(q, "pipeclose")' <=> At(q, "pipeclose")
                            /\ proc'[q].end = proc[q].end
  BY <1>5, <1>6 DEF Step, Wakened, At
<1>10. OneEach'
  BY <1>0, <1>3, <1>9 DEF OneEach
<1>11. \A k : StoodFor(k)' <=> StoodFor(k) /\ k # e
  <2> TAKE k
  <2>1. CASE k = e
    BY <1>0, <1>3, <1>9, <2>1 DEF StoodFor, OneEach
  <2>2. CASE k # e
    <3>1. (\E q \in Procs : At(q, "pipeclose")' /\ proc'[q].end = k)
          <=> \E q \in Procs : At(q, "pipeclose") /\ proc[q].end = k
      BY <1>3, <1>9, <2>2
    <3> QED
      BY <1>3, <2>2, <3>1 DEF StoodFor
  <2> QED
    BY <2>1, <2>2
<1>12. Ends'
  <2>1. ASSUME NEW x \in Pages, x # g
        PROVE  /\ pipe'[x] = pipe[x]
               /\ [page |-> x, writable |-> FALSE] # e /\ [page |-> x, writable |-> TRUE] # e
    BY <1>2, <1>3, <2>1
  <2>2. ([page |-> g, writable |-> FALSE] # e <=> b) /\ ([page |-> g, writable |-> TRUE] # e <=> ~b)
    BY <1>2
  <2>3. ASSUME NEW x \in Pages
        PROVE  /\ pipe'[x].readopen  <=> StoodFor([page |-> x, writable |-> FALSE])'
               /\ pipe'[x].writeopen <=> StoodFor([page |-> x, writable |-> TRUE])'
               /\ pipe'[x].used <=> pipe'[x].readopen \/ pipe'[x].writeopen
    <3>1. CASE x = g
      BY <1>0, <1>3, <1>11, <2>2, <3>1 DEF Ends
    <3>2. CASE x # g
      BY <1>0, <1>11, <2>1, <3>2 DEF Ends
    <3> QED
      BY <3>1, <3>2
  <2> QED
    BY <2>3 DEF Ends
<1>13. Bound'
  <2>1. \A x \in Pages : x # g => Available(x)' = Available(x)
    BY <1>3 DEF Available
  <2>2. Available(g)' <= PIPESIZE
    BY <1>1 DEF Shuts
  <2> QED
    BY <1>0, <2>1, <2>2 DEF Bound
<1>14. ASSUME NEW q \in Procs, proc'[q].pc \in {"readsleeps", "writesleeps"}
       PROVE  /\ proc'[q].pc = proc[q].pc /\ proc'[q].page = proc[q].page
              /\ pipe'[proc[q].page] = pipe[proc[q].page]
  <2>1. q # p
    BY <1>5, <1>6, <1>14 DEF Step
  <2>2. /\ proc'[q].pc = Wakened(w, proc[q], g) /\ proc'[q].page = proc[q].page
        /\ proc'[q].pc = proc[q].pc
    BY <1>6, <1>14, <2>1 DEF Step, Wakened
  <2>3. proc[q].page \in Pages
    BY <1>0, <1>14, <2>2 DEF HolderInv
  <2>4. ~Holds(q, g, b)
    BY <1>0, <1>2, <1>3, Basics, Constants DEF Holds, OneEach
  <2>5. proc[q].page # g
    <3>1. CASE proc[q].pc = "readsleeps"
      <4>1. w # "readers" \/ proc[q].page # g
        BY <1>14, <2>2, <3>1 DEF Wakened
      <4> QED
        BY <1>0, <1>4, <2>4, <3>1, <4>1 DEF HolderInv
    <3>2. CASE proc[q].pc = "writesleeps"
      <4>1. w # "writers" \/ proc[q].page # g
        BY <1>14, <2>2, <3>2 DEF Wakened
      <4> QED
        BY <1>0, <1>4, <2>4, <3>2, <4>1 DEF HolderInv
    <3> QED
      BY <1>14, <2>2, <3>1, <3>2
  <2> QED
    BY <1>3, <2>2, <2>3, <2>5
<1>15. NoLostWakeup'
  BY <1>0, <1>3, <1>14 DEF NoLostWakeup, At, Empty, Full
<1> QED
  BY <1>8, <1>10, <1>12, <1>13, <1>15 DEF IInv, EInv
-----------------------------------------------------------------------------
LEMMA InitIInv == Init => IInv
<1> SUFFICES ASSUME Init PROVE IInv
  OBVIOUS
<1>1. /\ fds = [p \in Procs |-> [d \in Fd |-> None]]
      /\ ref = [f \in Files |-> 0] /\ file = [f \in Files |-> NoPipe]
      /\ pipe = [g \in Pages |-> Closed] /\ cut = [g \in Pages |-> FALSE]
      /\ proc = [p \in Procs |-> IF p = First THEN [Unused EXCEPT !.pc = "user"] ELSE Unused]
  BY DEF Init
<1>2. [Unused EXCEPT !.pc = "user"] \in Process /\ Unused \in Process
      /\ NoPipe \in [page : Pages \cup {None}, writable : BOOLEAN] /\ NoPipe.page = None
      /\ NoFiles \in [Slots -> Files \cup {None}] /\ \A i \in Slots : NoFiles[i] = None
  <2>1. NoFiles \in [Slots -> Files \cup {None}] /\ \A i \in Slots : NoFiles[i] = None
    BY DEF NoFiles, Slots
  <2>2. NoPipe \in [page : Pages \cup {None}, writable : BOOLEAN] /\ NoPipe.page = None
    BY DEF NoPipe
  <2> QED
    BY <2>1, <2>2 DEF Unused, Process, Places, Slots
<1>3. \A p \in Procs : /\ proc[p].hand = NoFiles /\ proc[p].pc \in {"none", "user"}
                       /\ proc[p].pc = "none" => proc[p] = Unused
                       /\ OpenFds(p) = {} /\ proc[p] \in Process
  BY <1>1, <1>2 DEF Unused, OpenFds
<1>4. Types
  <2>1. pipe \in [Pages -> ClosedType]
    BY <1>1, ClosedIs
  <2>2. proc \in [Procs -> Process]
    BY <1>1, <1>2
  <2> QED
    BY <1>1, <1>2, <2>1, <2>2 DEF Types, ClosedType
<1>5. Counted
  <2>1. ASSUME NEW f \in Files
        PROVE  Cells(fds, Fd, f) = {} /\ Cells(Hands, Slots, f) = {}
    BY <1>1, <1>2, <1>3, Constants DEF Cells, Hands
  <2>2. \A f \in Files : Named(f) = 0 /\ InHand(f) = 0
    <3> TAKE f \in Files
    <3>1. Cardinality({}) = 0
      BY FS_EmptySet
    <3> QED
      BY <2>1, <3>1, CountsAre
  <2> QED
    BY <1>1, <2>2 DEF Counted
<1>6. HandInv
  BY <1>3 DEF HandInv, At
<1>7. FileInv
  BY <1>1, <1>2, <1>3 DEF FileInv, At
<1>8. OneEach
  BY <1>1, <1>2, <1>3 DEF OneEach, At
<1>9. Ends
  <2>1. \A g \in Pages : \A b : ~StoodFor([page |-> g, writable |-> b])
    BY <1>1, <1>2, <1>3, Constants DEF StoodFor, At
  <2> QED
    BY <1>1, <2>1, ClosedIs DEF Ends
<1>10. HolderInv /\ NoLostWakeup
  BY <1>3 DEF HolderInv, NoLostWakeup, At
<1>11. Bound
  <2>1. (0 - 0) % UintMod = 0
    BY Constants, ModUintMod
  <2>2. \A g \in Pages : Available(g) = (0 - 0) % UintMod
    BY <1>1, ClosedIs DEF Available
  <2> QED
    BY <2>1, <2>2, Constants DEF Bound
<1> QED
  BY <1>4, <1>5, <1>6, <1>7, <1>8, <1>9, <1>10, <1>11 DEF IInv, FInv, EInv

LEMMA StepIInv == IInv /\ [Next]_vars => IInv'
<1> SUFFICES ASSUME IInv, [Next]_vars PROVE IInv'
  OBVIOUS
<1>1. CASE UNCHANGED vars
  <2>1. UNCHANGED <<fds, ref, file, pipe, proc, cut>>
    BY <1>1 DEF vars
  <2>2. FInv'
    <3>1. Types'
      BY <2>1 DEF IInv, FInv, Types
    <3>2. HandInv' /\ FileInv'
      BY <2>1 DEF IInv, FInv, HandInv, FileInv, At, OpenFds
    <3>3. Counted'
      BY <2>1, NamedSame, InHandSame DEF IInv, FInv, Counted
    <3> QED
      BY <3>1, <3>2, <3>3 DEF FInv
  <2>3. OneEach' /\ Ends'
    <3>1. EndsSame
      BY <2>1 DEF EndsSame, At
    <3> QED
      BY <3>1, EndsSameKeep DEF IInv, EInv
  <2>4. HolderInv'
    BY <2>1 DEF IInv, EInv, HolderInv, Holds
  <2>5. Bound' /\ NoLostWakeup'
    BY <2>1 DEF IInv, Bound, NoLostWakeup, At, Available, Empty, Full
  <2> QED
    BY <2>2, <2>3, <2>4, <2>5 DEF IInv, EInv
<1>2. ASSUME NEW p \in Procs,
             Kernel(p) \/ Filealloc(p) \/ Dup(p) \/ Close(p) \/ Fork(p) \/ Exit(p) \/ Kill(p)
               \/ Read(p) \/ Write(p)
      PROVE  IInv'
  <2>1. CASE Filealloc(p)
    BY <2>1, FileallocInv
  <2>2. CASE PipeFails(p)
    BY <2>2, PipeFailsInv
  <2>3. CASE SysPipe(p)
    BY <2>3, SysPipeInv
  <2>4. CASE Dup(p)
    BY <2>4, DupInv
  <2>5. CASE Close(p) \/ (Exit(p) /\ OpenFds(p) # {})
    BY <2>5, CloseInv
  <2>6. CASE Fork(p)
    BY <2>6, ForkInv
  <2>7. CASE Exit(p) /\ OpenFds(p) = {}
    BY <2>7, ExitInv
  <2>8. CASE Kill(p)
    BY <2>8, KillInv
  <2>9. CASE Fileclose(p)
    BY <2>9, FilecloseInv
  <2>10. CASE Pipeclose(p)
    BY <2>10, PipecloseInv
  <2>11. CASE CloseReturns(p)
    BY <2>11, CloseReturnsInv
  <2>12. CASE Read(p) \/ Write(p)
    BY <2>12, EnterInv
  <2>13. CASE PipereadWaits(p)
    BY <2>13, PipereadWaitsInv
  <2>14. CASE PipereadGivesUp(p)
    BY <2>14, PipereadGivesUpInv
  <2>15. CASE Piperead(p)
    BY <2>15, PipereadInv
  <2>16. CASE Pipewrite(p)
    BY <2>16, PipewriteInv
  <2>17. CASE PipewriteWaits(p)
    BY <2>17, PipewriteWaitsInv
  <2>18. CASE PipewriteGivesUp(p)
    BY <2>18, PipewriteGivesUpInv
  <2> QED
    BY <1>2, <2>1, <2>2, <2>3, <2>4, <2>5, <2>6, <2>7, <2>8, <2>9, <2>10, <2>11, <2>12, <2>13,
       <2>14, <2>15, <2>16, <2>17, <2>18 DEF Kernel
<1> QED
  BY <1>1, <1>2 DEF Next

LEMMA Invariance == Spec => []IInv
BY InitIInv, StepIInv, PTL DEF Spec

(* pipealloc, piperead and pipewrite: the two counters, which wrap around   *)
(* at 2^32, never differ by more than PIPESIZE, and every variable keeps    *)
(* its type, for any number of processes, files, pages and bytes.           *)
THEOREM TypeCorrect == Spec => []TypeOK
<1>1. IInv => TypeOK
  BY DEF IInv, FInv, Types, Bound, TypeOK
<1> QED
  BY <1>1, Invariance, PTL

(* filealloc, filedup, fileclose, pipealloc and pipeclose: an entry of      *)
(* ftable is counted once per descriptor and per process about to close it, *)
(* and an end of a pipe is open exactly as long as one entry, or a process  *)
(* that has emptied the entry and not yet closed the end, stands for it.    *)
THEOREM RefExactHolds == Spec => []RefExact
<1>1. IInv => RefExact
  BY DEF IInv, FInv, EInv, Counted, Ends, RefExact
<1> QED
  BY <1>1, Invariance, PTL

(* sleep and wakeup in pipe.c: nobody sleeps at a pipe on which there is    *)
(* something to do, but for readers that a killed writer left behind.       *)
THEOREM NoLostWakeupHolds == Spec => []NoLostWakeup
<1>1. IInv => NoLostWakeup
  BY DEF IInv
<1> QED
  BY <1>1, Invariance, PTL
-----------------------------------------------------------------------------
(* The slot of a byte: PIPESIZE divides UintMod, so that the wrapping of    *)
(* the counters does not show in the buffer.                               *)

LEMMA Quotient ==
  ASSUME NEW d \in Nat, d > 0, NEW x \in Int
  PROVE  \E q \in Int : x = (q * d) + (x % d) /\ x % d \in 0..d-1
<1>1. x = ((x \div d) * d) + (x % d) /\ x \div d \in Int /\ x % d \in 0..d-1
  OBVIOUS
<1> QED
  BY <1>1

LEMMA Remainder ==
  ASSUME NEW d \in Nat, d > 0, NEW x \in Int, NEW q \in Int, NEW r \in 0..d-1, x = (q * d) + r
  PROVE  x % d = r
<1>1. PICK s \in Int : x = (s * d) + (x % d) /\ x % d \in 0..d-1
  BY Quotient
<1>2. PICK t \in Int : t = x % d
  BY <1>1
<1>3. (q - s) * d = t - r
  BY <1>1, <1>2
<1>4. t - r < d /\ -d < t - r
  BY <1>1, <1>2
<1>5. PICK m \in Int : m = q - s
  OBVIOUS
<1>6. m < 1
  <2>1. m >= 1 => m * d >= d
    OBVIOUS
  <2> QED
    BY <1>3, <1>4, <1>5, <2>1
<1>7. m > -1
  <2>1. m <= -1 => m * d <= -d
    OBVIOUS
  <2> QED
    BY <1>3, <1>4, <1>5, <2>1
<1>8. m = 0
  BY <1>6, <1>7
<1>9. m * d = 0
  BY <1>8
<1> QED
  BY <1>2, <1>3, <1>5, <1>9

LEMMA Shift ==
  ASSUME NEW d \in Nat, d > 0, NEW x \in Int, NEW q \in Int
  PROVE  (x + (q * d)) % d = x % d
<1>1. PICK s \in Int : x = (s * d) + (x % d) /\ x % d \in 0..d-1
  BY Quotient
<1>2. PICK r \in 0..d-1 : r = x % d
  BY <1>1
<1>3. PICK y \in Int : y = x + (q * d)
  OBVIOUS
<1>4. y = ((s + q) * d) + r
  BY <1>1, <1>2, <1>3
<1>5. s + q \in Int
  OBVIOUS
<1>6. y % d = r
  BY <1>4, <1>5, Remainder
<1> QED
  BY <1>2, <1>3, <1>6

LEMMA SameSlot ==
  ASSUME NEW x \in Int, NEW c \in Int
  PROVE  /\ ((x % UintMod) + c) % PIPESIZE = (x + c) % PIPESIZE
         /\ ((x % PIPESIZE) + c) % PIPESIZE = (x + c) % PIPESIZE
<1>0. UintMod \in Nat /\ UintMod > 0 /\ PIPESIZE \in Nat /\ PIPESIZE > 0
  BY Constants
<1>1. PICK q \in Int : x = (q * UintMod) + (x % UintMod) /\ x % UintMod \in Int
  BY <1>0, Quotient
<1>2. PICK m \in Int : UintMod = m * PIPESIZE
  <2>1. PICK m \in Int : UintMod = (m * PIPESIZE) + (UintMod % PIPESIZE)
    BY <1>0, Quotient
  <2>2. UintMod % PIPESIZE = 0
    BY SizeAssumption
  <2>3. m * PIPESIZE \in Int
    BY <1>0
  <2>4. UintMod = m * PIPESIZE
    BY <2>1, <2>2, <2>3
  <2> QED
    BY <2>4
<1>3. PICK z \in Int : z = (x % UintMod) + c
  BY <1>1
<1>4. PICK t \in Int : t = q * m
  OBVIOUS
<1>5. x + c = z + (t * PIPESIZE)
  <2>1. q * UintMod = t * PIPESIZE
    BY <1>0, <1>2, <1>4
  <2>2. t * PIPESIZE \in Int
    BY <1>0
  <2> QED
    BY <1>1, <1>3, <2>1, <2>2
<1>6. (z + (t * PIPESIZE)) % PIPESIZE = z % PIPESIZE
  BY <1>0, Shift
<1>7. PICK q2 \in Int : x = (q2 * PIPESIZE) + (x % PIPESIZE) /\ x % PIPESIZE \in Int
  BY <1>0, Quotient
<1>8. PICK z2 \in Int : z2 = (x % PIPESIZE) + c
  BY <1>7
<1>9. x + c = z2 + (q2 * PIPESIZE)
  BY <1>7, <1>8, <1>0
<1>10. (z2 + (q2 * PIPESIZE)) % PIPESIZE = z2 % PIPESIZE
  BY <1>0, Shift
<1> QED
  BY <1>3, <1>5, <1>6, <1>8, <1>9, <1>10
-----------------------------------------------------------------------------
(* The buffer as a byte stream. *)

\* The slot of the i-th byte from counter x, and the other way round.
Slot(x, i) == (x + i - 1) % PIPESIZE
Index(x, j) == ((j - x) % PIPESIZE) + 1

LEMMA SlotIs ==
  ASSUME NEW x \in Byte, NEW i \in Int
  PROVE  Slot(x, i) \in 0..PIPESIZE-1
<1>1. x \in Int /\ PIPESIZE \in Nat /\ PIPESIZE > 0
  BY Constants DEF Byte
<1>2. x + i - 1 \in Int
  BY <1>1
<1> QED
  BY <1>1, <1>2 DEF Slot

LEMMA SlotOfSum ==
  ASSUME NEW x \in Byte, NEW k \in Nat, NEW i \in Int
  PROVE  Slot((x + k) % UintMod, i) = Slot(x, k + i)
<1>1. x \in Int /\ PIPESIZE \in Nat /\ PIPESIZE > 0
  BY Constants DEF Byte
<1>2. PICK y \in Int : y = x + k
  BY <1>1
<1>3. PICK c \in Int : c = i - 1
  OBVIOUS
<1>4. ((y % UintMod) + c) % PIPESIZE = (y + c) % PIPESIZE
  BY SameSlot
<1>5. y % UintMod \in Int
  BY ModUintMod
<1>6. (y % UintMod) + i - 1 = (y % UintMod) + c /\ x + (k + i) - 1 = y + c
  BY <1>1, <1>2, <1>3, <1>5
<1> QED
  BY <1>2, <1>4, <1>6 DEF Slot

\* With n bytes in the buffer from x on, the slots of those are not among the
\* next k ones, which are the slots of the bytes that are written.
LEMMA IndexOfSlot ==
  ASSUME NEW x \in Byte, NEW n \in Nat, NEW k \in Nat, n + k <= PIPESIZE, NEW y,
         y = (x + n) % UintMod, NEW i \in 1..n+k
  PROVE  Index(y, Slot(x, i)) = IF i <= n THEN i - n + PIPESIZE ELSE i - n
<1>1. x \in Int /\ PIPESIZE \in Nat /\ PIPESIZE > 0 /\ UintMod \in Nat /\ UintMod > 0
  BY Constants DEF Byte
<1>2. PICK u \in Int : u = x + n
  BY <1>1
<1>3. y \in Int /\ y = u % UintMod
  BY <1>2, ModUintMod
<1>4. PICK v \in Int : v = x + i - 1
  BY <1>1
<1>5. PICK q \in Int : u = (q * UintMod) + y
  BY <1>1, <1>3, Quotient
<1>6. ((v % PIPESIZE) + (0 - y)) % PIPESIZE = (v + (0 - y)) % PIPESIZE
  BY <1>3, SameSlot
<1>7. PICK m \in Int : UintMod = m * PIPESIZE
  <2>1. PICK m \in Int : UintMod = (m * PIPESIZE) + (UintMod % PIPESIZE)
    BY <1>1, Quotient
  <2>2. UintMod % PIPESIZE = 0 /\ m * PIPESIZE \in Int
    BY <1>1, SizeAssumption
  <2>3. UintMod = m * PIPESIZE
    BY <2>1, <2>2
  <2> QED
    BY <2>3
<1>8. PICK t \in Int : t = q * m
  OBVIOUS
<1>9. v - y = (i - n - 1) + (t * PIPESIZE)
  <2>1. q * UintMod = t * PIPESIZE
    BY <1>1, <1>7, <1>8
  <2>2. t * PIPESIZE \in Int
    BY <1>1
  <2> QED
    BY <1>1, <1>2, <1>3, <1>4, <1>5, <2>1, <2>2
<1>10. PICK z \in Int : z = i - n - 1
  OBVIOUS
<1>11. (z + (t * PIPESIZE)) % PIPESIZE = z % PIPESIZE
  BY <1>1, Shift
<1>12. z % PIPESIZE = IF i <= n THEN z + PIPESIZE ELSE z
  <2>1. CASE i <= n
    <3>1. z = ((-1) * PIPESIZE) + (z + PIPESIZE) /\ z + PIPESIZE \in 0..PIPESIZE-1
      BY <1>1, <1>10, <2>1
    <3> QED
      BY <1>1, <2>1, <3>1, Remainder
  <2>2. CASE ~(i <= n)
    <3>1. z = (0 * PIPESIZE) + z /\ z \in 0..PIPESIZE-1
      BY <1>1, <1>10, <2>2
    <3> QED
      BY <1>1, <2>2, <3>1, Remainder
  <2> QED
    BY <2>1, <2>2
<1>13. v % PIPESIZE \in Int /\ v + (0 - y) = v - y /\ (v % PIPESIZE) + (0 - y) = (v % PIPESIZE) - y
  BY <1>1, <1>3
<1>14. ((v % PIPESIZE) - y) % PIPESIZE = z % PIPESIZE
  BY <1>6, <1>9, <1>10, <1>11, <1>13
<1> QED
  BY <1>1, <1>4, <1>10, <1>12, <1>14 DEF Index, Slot

LEMMA Lists ==
  ASSUME NEW S, NEW n \in Nat, NEW f \in [1..n -> S]
  PROVE  f \in Seq(S) /\ Len(f) = n
OBVIOUS

Data == Byte \cup {None}

\* The bytes in a pipe, by their slots.
Listed(g) ==
  /\ Items(g) \in Seq(Data) /\ Len(Items(g)) = Available(g)
  /\ \A i \in 1..Available(g) : Items(g)[i] = pipe[g].data[Slot(pipe[g].nread, i)]

LEMMA ItemsAre == \A g \in Pages : Types /\ Bound /\ pipe[g].used => Listed(g)
<1> SUFFICES ASSUME Types, Bound, NEW g \in Pages, pipe[g].used
             PROVE  Listed(g)
  OBVIOUS
<1>1. PICK n \in Nat : n = Available(g)
  BY Levels
<1>2. PICK f : f = [i \in 1..n |-> pipe[g].data[Slot(pipe[g].nread, i)]]
  OBVIOUS
<1>3. f \in [1..n -> Data]
  <2>1. pipe[g].nread \in Byte /\ pipe[g].data \in [0..PIPESIZE-1 -> Data]
    BY DEF Types, Byte, Data
  <2>2. \A i \in 1..n : Slot(pipe[g].nread, i) \in 0..PIPESIZE-1
    BY <2>1, SlotIs
  <2> QED
    BY <1>2, <2>1, <2>2
<1>4. Items(g) = f
  BY <1>1, <1>2 DEF Items, Copied, Slot
<1>5. f \in Seq(Data) /\ Len(f) = n
  BY <1>3, Lists
<1> QED
  BY <1>1, <1>2, <1>4, <1>5 DEF Listed

LEMMA ItemsAreNext == \A g \in Pages : Types' /\ Bound' /\ pipe'[g].used => Listed(g)'
<1>1. (\A g \in Pages : Types /\ Bound /\ pipe[g].used => Listed(g))'
  BY ItemsAre, PTL
<1> QED
  BY <1>1

\* piperead takes bytes from the front.
LEMMA TookItems ==
  ASSUME Types, Types', Bound, Bound', NEW g \in Pages, pipe[g].used,
         NEW k \in Nat, k <= Available(g), pipe' = Took(g, k)
  PROVE  Items(g)' = SubSeq(Items(g), k + 1, Len(Items(g)))
<1>1. PICK n \in Nat : n = Available(g)
  BY Levels
<1>2. PICK x \in Byte : x = pipe[g].nread
  BY DEF Types, Byte
<1>3. Available(g)' = n - k
  BY <1>1, TookLevel DEF Level
<1>4. /\ pipe'[g].nread = (x + k) % UintMod /\ pipe'[g].data = pipe[g].data
      /\ pipe'[g].used
  BY <1>2 DEF Types, Took
<1>5. PICK s : s = Items(g)
  OBVIOUS
<1>6. s \in Seq(Data) /\ Len(s) = n /\ \A i \in 1..n : s[i] = pipe[g].data[Slot(x, i)]
  BY <1>1, <1>2, <1>5, ItemsAre DEF Listed
<1>7. Listed(g)'
  BY <1>4, ItemsAreNext
<1>8. PICK t : t = Items(g)'
  OBVIOUS
<1>9. /\ t \in Seq(Data) /\ Len(t) = n - k
      /\ \A i \in 1..n-k : t[i] = pipe[g].data[Slot((x + k) % UintMod, i)]
  BY <1>3, <1>4, <1>7, <1>8 DEF Listed
<1>10. \A i \in 1..n-k : t[i] = s[k + i]
  <2>1. ASSUME NEW i \in 1..n-k PROVE t[i] = s[k + i]
    <3>1. k + i \in 1..n
      BY <1>1, <2>1
    <3>2. Slot((x + k) % UintMod, i) = Slot(x, k + i)
      BY SlotOfSum
    <3> QED
      BY <1>6, <1>9, <3>1, <3>2
  <2> QED
    BY <2>1
<1>11. PICK u : u = SubSeq(s, k + 1, n)
  OBVIOUS
<1>12. u \in Seq(Data) /\ Len(u) = n - k /\ \A i \in 1..n-k : u[i] = s[k + i]
  <2>1. \A i \in (k+1)..n : s[i] \in Data
    <3>1. s \in [1..n -> Data]
      BY <1>6, LenProperties
    <3> QED
      BY <3>1
  <2>2. k + 1 \in Int /\ n \in Int
    OBVIOUS
  <2>3. /\ u \in Seq(Data) /\ Len(u) = IF k + 1 <= n THEN n - (k + 1) + 1 ELSE 0
        /\ \A i \in 1..n-(k+1)+1 : u[i] = s[k + 1 + i - 1]
    BY <1>11, <2>1, <2>2, SubSeqProperties
  <2>4. n - (k + 1) + 1 = n - k /\ \A i \in Int : k + 1 + i - 1 = k + i
    OBVIOUS
  <2>5. Len(u) = n - k
    BY <1>1, <2>3
  <2> QED
    BY <2>3, <2>4, <2>5
<1>13. t = u
  BY <1>9, <1>10, <1>12, SeqEqual
<1> QED
  BY <1>5, <1>6, <1>8, <1>11, <1>13

\* pipewrite appends them, and leaves those that are there.
LEMMA StoredItems ==
  ASSUME Types, Types', Bound, Bound', NEW g \in Pages, pipe[g].used,
         NEW k \in Nat, k <= Room(g), pipe' = Stored(g, Serials(g, k))
  PROVE  /\ Items(g)' = Items(g) \o Serials(g, k)
         /\ Serials(g, k) \in [1..k -> Byte]
         /\ Len(Items(g)) + k <= PIPESIZE
<1>1. PICK n \in Nat : n = Available(g) /\ n + k <= PIPESIZE
  BY Levels, Constants
<1>2. PICK x \in Byte : x = pipe[g].nread
  BY DEF Types, Byte
<1>3. PICK y \in Byte : y = pipe[g].nwrite
  BY DEF Types, Byte
<1>4. y = (x + n) % UintMod
  <2>1. n = IF x <= y THEN y - x ELSE y - x + UintMod
    BY <1>1, <1>2, <1>3, Difference DEF Available
  <2>2. x \in Int /\ y \in Int /\ 0 <= x /\ x < UintMod /\ 0 <= y /\ y < UintMod /\ UintMod \in Nat
    BY Constants DEF Byte
  <2>3. n <= UintMod
    BY <1>1, Constants
  <2>4. (x + n) % UintMod = IF x + n < UintMod THEN x + n ELSE x + n - UintMod
    BY <2>3, Advance
  <2> QED
    BY <2>1, <2>2, <2>4
<1>5. PICK w : w = Serials(g, k)
  OBVIOUS
<1>6. w \in [1..k -> Byte] /\ w \in Seq(Data) /\ Len(w) = k
  <2>1. ASSUME NEW i \in 1..k PROVE (y + i - 1) % UintMod \in Byte
    <3>1. y + i - 1 \in Int
      BY Constants DEF Byte
    <3> QED
      BY <3>1, ModUintMod DEF Byte
  <2>2. w = [i \in 1..k |-> (y + i - 1) % UintMod]
    BY <1>3, <1>5 DEF Serials
  <2>3. w \in [1..k -> Byte]
    BY <2>1, <2>2
  <2>4. w \in [1..k -> Data]
    BY <2>3 DEF Data
  <2> QED
    BY <2>3, <2>4, Lists
<1>7. /\ Available(g)' = n + k
      /\ pipe'[g].nread = x /\ pipe'[g].used
      /\ pipe'[g].data = [j \in 0..PIPESIZE-1 |-> IF Index(y, j) <= k THEN w[Index(y, j)]
                                                                       ELSE pipe[g].data[j]]
  <2>1. Available(g)' = n + k
    BY <1>1, StoredLevel DEF Level
  <2>2. PICK d : d = [j \in 0..PIPESIZE-1 |-> IF Index(y, j) <= k THEN w[Index(y, j)]
                                                                       ELSE pipe[g].data[j]]
    OBVIOUS
  <2>3. pipe' = [pipe EXCEPT ![g].nwrite = (y + k) % UintMod, ![g].data = d]
    BY <1>3, <1>5, <1>6, <2>2 DEF Stored, Index
  <2>4. pipe'[g].nread = x /\ pipe'[g].used /\ pipe'[g].data = d
    BY <1>2, <2>3 DEF Types
  <2> QED
    BY <2>1, <2>2, <2>4
<1>8. PICK s : s = Items(g)
  OBVIOUS
<1>9. s \in Seq(Data) /\ Len(s) = n /\ \A i \in 1..n : s[i] = pipe[g].data[Slot(x, i)]
  BY <1>1, <1>2, <1>8, ItemsAre DEF Listed
<1>10. Listed(g)'
  BY <1>7, ItemsAreNext
<1>11. PICK t : t = Items(g)'
  OBVIOUS
<1>12. t \in Seq(Data) /\ Len(t) = n + k /\ \A i \in 1..n+k : t[i] = pipe'[g].data[Slot(x, i)]
  BY <1>7, <1>10, <1>11 DEF Listed
<1>13. ASSUME NEW i \in 1..n+k
       PROVE  t[i] = IF i <= n THEN s[i] ELSE w[i - n]
  <2>1. Slot(x, i) \in 0..PIPESIZE-1
    BY SlotIs
  <2>2. Index(y, Slot(x, i)) = IF i <= n THEN i - n + PIPESIZE ELSE i - n
    BY <1>1, <1>4, IndexOfSlot
  <2>3. PICK j : j = Slot(x, i)
    OBVIOUS
  <2>4. t[i] = IF Index(y, j) <= k THEN w[Index(y, j)] ELSE pipe[g].data[j]
    BY <1>7, <1>12, <2>1, <2>3
  <2>5. CASE i <= n
    <3>1. ~(i - n + PIPESIZE <= k)
      BY <1>1, <2>5, Constants
    <3>2. i \in 1..n
      BY <2>5
    <3> QED
      BY <1>9, <2>2, <2>3, <2>4, <2>5, <3>1, <3>2
  <2>6. CASE ~(i <= n)
    <3>1. i - n <= k
      BY <2>6
    <3> QED
      BY <2>2, <2>3, <2>4, <2>6, <3>1
  <2> QED
    BY <2>5, <2>6
<1>14. PICK u : u = s \o w
  OBVIOUS
<1>15. /\ u \in Seq(Data) /\ Len(u) = n + k
       /\ \A i \in 1..n+k : u[i] = IF i <= n THEN s[i] ELSE w[i - n]
  <2>1. /\ u \in Seq(Data) /\ Len(u) = Len(s) + Len(w)
        /\ \A i \in 1..Len(s)+Len(w) : u[i] = IF i <= Len(s) THEN s[i] ELSE w[i - Len(s)]
    BY <1>6, <1>9, <1>14, ConcatProperties
  <2> QED
    BY <1>6, <1>9, <2>1
<1>16. t = u
  BY <1>12, <1>13, <1>15, SeqEqual
<1> QED
  BY <1>1, <1>5, <1>6, <1>8, <1>9, <1>11, <1>14, <1>16
-----------------------------------------------------------------------------
(* Each step is a step of one stream, or none that a program could see.    *)

LEMMA SameItems ==
  ASSUME NEW g \in Pages, pipe'[g].used = pipe[g].used, pipe'[g].nread = pipe[g].nread,
         pipe'[g].nwrite = pipe[g].nwrite, pipe'[g].data = pipe[g].data
  PROVE  Items(g)' = Items(g)
BY DEF Items, Copied, Available

LEMMA SameStreams ==
  ASSUME pipe' = pipe
  PROVE  UNCHANGED Stream!vars
<1>1. \A g \in Pages : Items(g)' = Items(g) /\ OpenEnds(g)' = OpenEnds(g)
  BY SameItems DEF OpenEnds
<1> QED
  BY <1>1 DEF Stream!vars

\* One pipe changes, and so only one stream.
LEMMA OneStream ==
  ASSUME NEW g \in Pages, \A x \in Pages : x # g => pipe'[x] = pipe[x],
         NEW t, t = Items(g)', NEW e, e = OpenEnds(g)'
  PROVE  /\ [x \in Pages |-> Items(x)]' = [[x \in Pages |-> Items(x)] EXCEPT ![g] = t]
         /\ [x \in Pages |-> OpenEnds(x)]' = [[x \in Pages |-> OpenEnds(x)] EXCEPT ![g] = e]
<1>1. \A x \in Pages : x # g => Items(x)' = Items(x) /\ OpenEnds(x)' = OpenEnds(x)
  BY SameItems DEF OpenEnds
<1> QED
  BY <1>1

LEMMA SysPipeOpens ==
  ASSUME IInv, IInv', NEW p \in Procs, SysPipe(p)
  PROVE  \E g \in Pages : Stream!Open(g)
<1>0. FInv /\ Types /\ Ends
  BY DEF IInv, FInv, EInv
<1>1. PICK f, h \in Files, g \in Pages : Piped(p, f, h, g)
  BY <1>0, SysPipeFiles
<1>2. OpenEnds(g) = {}
  BY <1>0, <1>1 DEF Piped, Ends, OpenEnds
<1>3. /\ \A x \in Pages : x # g => pipe'[x] = pipe[x]
      /\ pipe'[g] = [Closed EXCEPT !.used = TRUE, !.readopen = TRUE, !.writeopen = TRUE]
  BY <1>0, <1>1 DEF Piped, Types
<1>4. OpenEnds(g)' = {"r", "w"}
  BY <1>3 DEF OpenEnds, Closed
<1>5. Items(g)' = <<>>
  <2>1. pipe'[g].nread = 0 /\ pipe'[g].nwrite = 0 /\ pipe'[g].used
    BY <1>3 DEF Closed
  <2>2. (0 - 0) % UintMod = 0
    BY Constants, ModUintMod
  <2>3. Available(g)' = 0
    BY <2>1, <2>2 DEF Available
  <2>4. Types' /\ Bound'
    BY DEF IInv, FInv
  <2>5. PICK t : t = Items(g)'
    OBVIOUS
  <2>6. t \in Seq(Data) /\ Len(t) = 0
    BY <2>1, <2>3, <2>4, <2>5, ItemsAreNext DEF Listed
  <2>7. t = <<>>
    BY <2>6
  <2> QED
    BY <2>5, <2>7
<1> QED
  BY <1>2, <1>3, <1>4, <1>5, OneStream DEF Stream!Open

LEMMA PipecloseCloses ==
  ASSUME IInv, NEW p \in Procs, Pipeclose(p)
  PROVE  \E g \in Pages : \E e \in {"r", "w"} : Stream!Close(g, e)
<1>0. Types /\ Ends
  BY DEF IInv, FInv, EInv
<1>1. PICK g \in Pages, b \in BOOLEAN : Shuts(p, g, b)
  BY PipecloseShape
<1>2. PICK e \in {"r", "w"} : e = IF b THEN "w" ELSE "r"
  OBVIOUS
<1>3. /\ \A x \in Pages : x # g => pipe'[x] = pipe[x]
      /\ pipe'[g].readopen  <=> pipe[g].readopen /\ b
      /\ pipe'[g].writeopen <=> pipe[g].writeopen /\ ~b
      /\ pipe'[g].used <=> pipe'[g].readopen \/ pipe'[g].writeopen
      /\ pipe'[g].used => /\ pipe'[g].nread = pipe[g].nread /\ pipe'[g].nwrite = pipe[g].nwrite
                          /\ pipe'[g].data = pipe[g].data
      /\ At(p, "pipeclose") /\ proc[p].end = [page |-> g, writable |-> b]
  BY <1>1 DEF Shuts
<1>4. IF b THEN pipe[g].writeopen ELSE pipe[g].readopen
  <2>1. StoodFor([page |-> g, writable |-> b])
    BY <1>3 DEF StoodFor
  <2> QED
    BY <1>0, <2>1 DEF Ends
<1>5. e \in OpenEnds(g) /\ OpenEnds(g)' = OpenEnds(g) \ {e}
  BY <1>2, <1>3, <1>4 DEF OpenEnds
<1>6. OpenEnds(g) = {e} <=> ~pipe'[g].used
  BY <1>2, <1>3, <1>4 DEF OpenEnds
<1>7. Items(g)' = IF OpenEnds(g) = {e} THEN <<>> ELSE Items(g)
  <2>1. CASE pipe'[g].used
    <3>1. pipe[g].used /\ pipe[g].used \in BOOLEAN /\ pipe'[g].used \in BOOLEAN
      <4>1. pipe[g].used
        BY <1>0, <1>4 DEF Ends
      <4>2. pipe[g].used \in BOOLEAN
        BY <1>0 DEF Types
      <4>3. pipe'[g].used \in BOOLEAN
        BY <1>1 DEF Shuts, ClosedType
      <4> QED
        BY <4>1, <4>2, <4>3
    <3>2. Items(g)' = Items(g)
      BY <1>3, <2>1, <3>1, SameItems
    <3> QED
      BY <1>6, <2>1, <3>2
  <2>2. CASE ~pipe'[g].used
    BY <1>6, <2>2 DEF Items
  <2> QED
    BY <2>1, <2>2
<1>8. PICK t, u : t = Items(g)' /\ u = OpenEnds(g)'
  OBVIOUS
<1>9. /\ [x \in Pages |-> Items(x)]' = [[x \in Pages |-> Items(x)] EXCEPT ![g] = t]
      /\ [x \in Pages |-> OpenEnds(x)]' = [[x \in Pages |-> OpenEnds(x)] EXCEPT ![g] = u]
  BY <1>3, <1>8, OneStream
<1>10. Stream!Close(g, e)
  BY <1>5, <1>7, <1>8, <1>9 DEF Stream!Close
<1> QED
  BY <1>10

LEMMA PipereadGets ==
  ASSUME IInv, IInv', NEW p \in Procs, Piperead(p)
  PROVE  \/ \E g \in Pages : \E k \in 1..Len(Items(g)) : Stream!Get(g, k)
         \/ UNCHANGED Stream!vars
<1>0. Types /\ Types' /\ Bound /\ Bound' /\ HolderInv /\ Ends /\ At(p, "read")
  BY DEF IInv, FInv, EInv, Piperead
<1>1. PICK g \in Pages : g = proc[p].page /\ Holds(p, g, FALSE)
  BY <1>0 DEF HolderInv, At
<1>2. PICK m, k : m \in Counts /\ k = Smaller(m, Available(g)) /\ pipe' = Took(g, k)
  BY <1>1 DEF Piperead
<1>3. pipe[g].readopen /\ pipe[g].used
  <2>1. StoodFor([page |-> g, writable |-> FALSE])
    <3>1. PICK d \in Fd : fds[p][d] # None /\ file[fds[p][d]] = [page |-> g, writable |-> FALSE]
      BY <1>1 DEF Holds
    <3>2. fds[p][d] \in Files
      BY <1>0, <3>1, Basics
    <3> QED
      BY <3>1, <3>2 DEF StoodFor
  <2> QED
    BY <1>0, <2>1 DEF Ends
<1>4. k \in Nat /\ k <= Available(g) /\ Available(g) \in Nat
  BY <1>0, <1>2, Levels, Constants DEF Smaller
<1>5. Level(g, Available(g) - k)
  BY <1>0, <1>2, <1>4, TookLevel
<1>6. OpenEnds(g)' = OpenEnds(g) /\ "r" \in OpenEnds(g)
  BY <1>3, <1>5 DEF OpenEnds, Level, FlagsSame
<1>7. Items(g)' = SubSeq(Items(g), k + 1, Len(Items(g)))
  BY <1>0, <1>2, <1>3, <1>4, TookItems
<1>8. Len(Items(g)) = Available(g)
  BY <1>0, <1>3, ItemsAre DEF Listed
<1>9. \A x \in Pages : x # g => pipe'[x] = pipe[x]
  BY <1>5 DEF Level
<1>10. CASE k = 0
  <2>1. pipe[g].nread \in Byte
    BY <1>0 DEF Types, Byte
  <2>2. (pipe[g].nread + 0) % UintMod = pipe[g].nread
    BY <2>1, Advance, Constants DEF Byte
  <2>3. pipe' = pipe
    BY <1>0, <1>2, <1>10, <2>2 DEF Types, Took
  <2> QED
    BY <2>3, SameStreams
<1>11. CASE k # 0
  <2>1. k \in 1..Len(Items(g))
    BY <1>4, <1>8, <1>11
  <2>2. Stream!Get(g, k)
    BY <1>6, <1>7, <1>9, OneStream DEF Stream!Get
  <2> QED
    BY <2>1, <2>2
<1> QED
  BY <1>10, <1>11

LEMMA PipewritePuts ==
  ASSUME IInv, IInv', NEW p \in Procs, At(p, "write"), FillPipe(p)
  PROVE  \/ \E g \in Pages : \E n \in 1..PIPESIZE : Stream!Put(g, n)
         \/ UNCHANGED Stream!vars
<1>0. Types /\ Types' /\ Bound /\ Bound' /\ HolderInv /\ Ends
  BY DEF IInv, FInv, EInv
<1>1. PICK g \in Pages : g = proc[p].page /\ Holds(p, g, TRUE) /\ proc[p].left \in Nat
  BY <1>0, Inside DEF HolderInv, At
<1>2. PICK k : k = Smaller(proc[p].left, Room(g)) /\ pipe' = Stored(g, Serials(g, k))
  BY <1>1 DEF FillPipe
<1>3. pipe[g].writeopen /\ pipe[g].used
  <2>1. StoodFor([page |-> g, writable |-> TRUE])
    <3>1. PICK d \in Fd : fds[p][d] # None /\ file[fds[p][d]] = [page |-> g, writable |-> TRUE]
      BY <1>1 DEF Holds
    <3>2. fds[p][d] \in Files
      BY <1>0, <3>1, Basics
    <3> QED
      BY <3>1, <3>2 DEF StoodFor
  <2> QED
    BY <1>0, <2>1 DEF Ends
<1>4. k \in Nat /\ k <= Room(g) /\ k <= PIPESIZE
  BY <1>0, <1>1, <1>2, Levels, Constants DEF Smaller
<1>5. Level(g, Available(g) + k)
  BY <1>0, <1>2, <1>4, StoredLevel
<1>6. OpenEnds(g)' = OpenEnds(g) /\ "w" \in OpenEnds(g)
  BY <1>3, <1>5 DEF OpenEnds, Level, FlagsSame
<1>7. PICK s \in [1..k -> Byte] : /\ s = Serials(g, k) /\ Items(g)' = Items(g) \o s
                                  /\ Len(Items(g)) + k <= PIPESIZE
  BY <1>0, <1>2, <1>3, <1>4, StoredItems
<1>8. Len(s) = k
  BY <1>4, Lists
<1>9. \A x \in Pages : x # g => pipe'[x] = pipe[x]
  BY <1>5 DEF Level
<1>10. CASE k = 0
  <2>1. Items(g) \in Seq(Data)
    BY <1>0, <1>3, ItemsAre DEF Listed
  <2>2. s = <<>>
    BY <1>8, <1>10
  <2>3. Items(g)' = Items(g)
    BY <1>7, <2>1, <2>2, ConcatEmptySeq
  <2>4. \A x \in Pages : Items(x)' = Items(x) /\ OpenEnds(x)' = OpenEnds(x)
    BY <1>6, <1>9, <2>3, SameItems DEF OpenEnds
  <2> QED
    BY <2>4 DEF Stream!vars
<1>11. CASE k # 0
  <2>1. PICK t : t = Items(g)' /\ t = Items(g) \o s /\ Len(t) = Len(Items(g)) + k
    <3>1. Items(g) \in Seq(Data)
      BY <1>0, <1>3, ItemsAre DEF Listed
    <3>2. s \in Seq(Byte)
      BY <1>4, Lists
    <3>3. Len(Items(g) \o s) = Len(Items(g)) + Len(s)
      BY <3>1, <3>2
    <3> QED
      BY <1>7, <1>8, <3>3
  <2>2. PICK m : m = [x \in Pages |-> Items(x)]
    OBVIOUS
  <2>3. [x \in Pages |-> Items(x)]' = [m EXCEPT ![g] = t] /\ m[g] = Items(g)
    BY <1>6, <1>9, <2>1, <2>2, OneStream
  <2>4. Stream!Put(g, k)
    BY <1>6, <1>7, <1>9, <2>1, <2>2, <2>3, OneStream DEF Stream!Put
  <2> QED
    BY <1>4, <1>11, <2>4
<1> QED
  BY <1>10, <1>11

LEMMA InitMapped == Init => Stream!Init
<1> SUFFICES ASSUME Init PROVE Stream!Init
  OBVIOUS
<1>1. \A g \in Pages : Items(g) = <<>> /\ OpenEnds(g) = {}
  BY ClosedIs DEF Init, Items, OpenEnds
<1> QED
  BY <1>1 DEF Stream!Init

LEMMA StepMapped == IInv /\ IInv' /\ [Next]_vars => [Stream!Next]_Stream!vars
<1> SUFFICES ASSUME IInv, IInv', [Next]_vars PROVE [Stream!Next]_Stream!vars
  OBVIOUS
<1>1. CASE pipe' = pipe
  BY <1>1, SameStreams
<1>2. CASE \E p \in Procs : SysPipe(p)
  BY <1>2, SysPipeOpens DEF Stream!Next
<1>3. CASE \E p \in Procs : Pipeclose(p)
  BY <1>3, PipecloseCloses DEF Stream!Next
<1>4. CASE \E p \in Procs : Piperead(p)
  <2>1. PICK p \in Procs : Piperead(p)
    BY <1>4
  <2>2. ASSUME NEW g \in Pages, NEW k \in 1..Len(Items(g)), Stream!Get(g, k)
        PROVE  Stream!Next
    BY <2>2 DEF Stream!Next
  <2> QED
    BY <2>1, <2>2, PipereadGets
<1>5. CASE \E p \in Procs : Pipewrite(p) \/ PipewriteWaits(p) \/ PipewriteGivesUp(p)
  <2>1. PICK p \in Procs : At(p, "write") /\ FillPipe(p)
    BY <1>5 DEF Pipewrite, PipewriteWaits, PipewriteGivesUp
  <2>2. ASSUME NEW g \in Pages, NEW n \in 1..PIPESIZE, Stream!Put(g, n)
        PROVE  Stream!Next
    BY <2>2 DEF Stream!Next
  <2> QED
    BY <2>1, <2>2, PipewritePuts
<1>6. CASE UNCHANGED vars
  BY <1>1, <1>6 DEF vars
<1>7. ASSUME NEW p \in Procs,
             \/ Filealloc(p) \/ PipeFails(p) \/ Fileclose(p) \/ CloseReturns(p) \/ PipereadWaits(p)
             \/ PipereadGivesUp(p) \/ Exit(p) \/ Dup(p) \/ Close(p) \/ Fork(p) \/ Kill(p)
             \/ Read(p) \/ Write(p)
      PROVE  pipe' = pipe
  BY <1>7 DEF Filealloc, PipeFails, Fileclose, CloseReturns, PipereadWaits, PipereadGivesUp, Exit,
              Dup, Close, Fork, Kill, Read, Write, Enter
<1> QED
  BY <1>1, <1>2, <1>3, <1>4, <1>5, <1>6, <1>7 DEF Next, Kernel

(* pipe.c: the buffer with its two wrapping counters, and the ends that     *)
(* close at any time, implement bounded streams of bytes: what is read is   *)
(* what was written, in that order, with nothing lost or read twice.        *)
THEOREM PipesImplement == Spec => Implements
BY Invariance, StepMapped, InitMapped, PTL DEF Spec, Implements, Stream!Spec
=============================================================================
