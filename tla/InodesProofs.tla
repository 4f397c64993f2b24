---------------------------- MODULE InodesProofs ----------------------------
(* Theorems about Inodes: for any number of processes, names and inodes    *)
(* references and links are counted exactly, nothing in use is freed, and  *)
(* no processes lock each other out.                                       *)
EXTENDS Inodes, FiniteSetTheorems, FunctionTheorems, TLAPS

\* The proofs are about the time before an inode in use is freed.
TypeInv == TypeOK /\ ~dangling /\ nlink \in [Inums -> Nat]
RefInv == TypeInv /\ \A i \in Inums : ref[i] = Holders(i)

One(b) == IF b THEN 1 ELSE 0

\* What p has a reference to; between the steps of freeing an inode and of
\* dropping its reference p still counts for it but does not use it.
Held(p, i) == \/ cwd[p] = i \/ fd[p] = i \/ proc[p].cur = i \/ proc[p].ip = i
              \/ proc[p].later = i
              \/ proc[p].put = i /\ proc[p].freeing # "flags"
Mine(p, i) == One(cwd[p] = i) + One(fd[p] = i) + One(proc[p].cur = i) + One(proc[p].ip = i)
            + One(proc[p].put = i) + One(proc[p].later = i)
LinkOf(p) == IF proc[p].call = "link" THEN proc[p].ip ELSE 0
DropOf(p) == IF proc[p].pc = "drop" THEN proc[p].ip ELSE 0

\* A step of p is about p, its directory, its file and what it refers to.
Only(p) == /\ cwd' \in [Procs -> Inums] /\ fd' \in [Procs -> Inums \cup {0}]
           /\ proc' \in [Procs -> Process]
           /\ \A q \in Procs \ {p} : cwd'[q] = cwd[q] /\ fd'[q] = fd[q] /\ proc'[q] = proc[q]
RefMoves(p) == /\ ref' \in [Inums -> Int]
               /\ \A i \in Inums : ref'[i] = ref[i] - Mine(p, i) + Mine(p, i)'
-----------------------------------------------------------------------------
\* Sets of the same members but for one.
LEMMA Differ ==
  ASSUME NEW S, IsFiniteSet(S), NEW x \in S, NEW A \in SUBSET S, NEW B \in SUBSET S,
         A \ {x} = B \ {x}
  PROVE  /\ Cardinality(A) \in Nat /\ Cardinality(B) \in Nat
         /\ Cardinality(B) = Cardinality(A) - One(x \in A) + One(x \in B)
<1>1. IsFiniteSet(A) /\ IsFiniteSet(B)
  BY FS_Subset
<1>2. Cardinality(A) \in Nat /\ Cardinality(B) \in Nat
  BY <1>1, FS_CardinalityType
<1>3. CASE x \in A /\ x \in B
  <2>1. A = B
    BY <1>3
  <2> QED
    BY <1>2, <1>3, <2>1 DEF One
<1>4. CASE x \notin A /\ x \notin B
  <2>1. A = B
    BY <1>4
  <2> QED
    BY <1>2, <1>4, <2>1 DEF One
<1>5. CASE x \in A /\ x \notin B
  <2>1. B = A \ {x}
    BY <1>5
  <2>2. Cardinality(B) = Cardinality(A) - 1
    BY <1>1, <1>5, <2>1, FS_RemoveElement
  <2> QED
    BY <1>2, <1>5, <2>2 DEF One
<1>6. CASE x \notin A /\ x \in B
  <2>1. B = A \cup {x}
    BY <1>6
  <2>2. Cardinality(B) = Cardinality(A) + 1
    BY <1>1, <1>6, <2>1, FS_AddElement
  <2> QED
    BY <1>2, <1>6, <2>2 DEF One
<1> QED
  BY <1>3, <1>4, <1>5, <1>6

LEMMA Members ==
  ASSUME NEW S, IsFiniteSet(S), NEW A \in SUBSET S
  PROVE  /\ Cardinality(A) \in Nat
         /\ \A x \in S : Cardinality(A) >= One(x \in A)
         /\ \A x \in S, y \in S : x # y => Cardinality(A) >= One(x \in A) + One(y \in A)
<1>1. IsFiniteSet(A)
  BY FS_Subset
<1>2. Cardinality(A) \in Nat
  BY <1>1, FS_CardinalityType
<1>3. ASSUME NEW x \in S PROVE Cardinality(A) >= One(x \in A)
  <2>1. A = {} <=> Cardinality(A) = 0
    BY <1>1, FS_EmptySet
  <2> QED
    BY <1>2, <2>1 DEF One
<1>4. ASSUME NEW x \in S, NEW y \in S, x # y
      PROVE  Cardinality(A) >= One(x \in A) + One(y \in A)
  <2>1. CASE x \notin A
    BY <1>2, <1>3, <2>1 DEF One
  <2>2. CASE x \in A
    <3>1. IsFiniteSet(A \ {x}) /\ Cardinality(A \ {x}) = Cardinality(A) - 1
      BY <1>1, <2>2, FS_RemoveElement
    <3>2. A \ {x} = {} <=> Cardinality(A \ {x}) = 0
      BY <3>1, FS_EmptySet
    <3>3. y \in A => Cardinality(A) # 1
      BY <1>4, <3>1, <3>2
    <3> QED
      BY <1>2, <1>3, <2>2, <3>3 DEF One
  <2> QED
    BY <2>1, <2>2
<1> QED
  BY <1>2, <1>3, <1>4

\* How many hold an inode, before and after a step of p.
LEMMA HoldersChange ==
  ASSUME TypeInv, NEW p \in Procs, Only(p), NEW i \in Inums
  PROVE  /\ Holders(i) \in Nat /\ Holders(i)' \in Nat
         /\ Holders(i)' = Holders(i) - Mine(p, i) + Mine(p, i)'
         /\ Mine(p, i) \in Nat /\ Mine(p, i)' \in Nat
<1> DEFINE A1 == {q \in Procs : cwd[q] = i}
           A2 == {q \in Procs : fd[q] = i}
           A3 == {q \in Procs : proc[q].cur = i}
           A4 == {q \in Procs : proc[q].ip = i}
           A5 == {q \in Procs : proc[q].put = i}
           A6 == {q \in Procs : proc[q].later = i}
<1>1. /\ A1 \ {p} = A1' \ {p} /\ A2 \ {p} = A2' \ {p} /\ A3 \ {p} = A3' \ {p}
      /\ A4 \ {p} = A4' \ {p} /\ A5 \ {p} = A5' \ {p} /\ A6 \ {p} = A6' \ {p}
  BY DEF Only
<1>2. /\ p \in A1 <=> cwd[p] = i
      /\ p \in A2 <=> fd[p] = i
      /\ p \in A3 <=> proc[p].cur = i
      /\ p \in A4 <=> proc[p].ip = i
      /\ p \in A5 <=> proc[p].put = i
      /\ p \in A6 <=> proc[p].later = i
  OBVIOUS
<1>3. /\ p \in A1' <=> cwd'[p] = i
      /\ p \in A2' <=> fd'[p] = i
      /\ p \in A3' <=> proc'[p].cur = i
      /\ p \in A4' <=> proc'[p].ip = i
      /\ p \in A5' <=> proc'[p].put = i
      /\ p \in A6' <=> proc'[p].later = i
  OBVIOUS
<1>4. /\ A1 \in SUBSET Procs /\ A2 \in SUBSET Procs /\ A3 \in SUBSET Procs
      /\ A4 \in SUBSET Procs /\ A5 \in SUBSET Procs /\ A6 \in SUBSET Procs
      /\ A1' \in SUBSET Procs /\ A2' \in SUBSET Procs /\ A3' \in SUBSET Procs
      /\ A4' \in SUBSET Procs /\ A5' \in SUBSET Procs /\ A6' \in SUBSET Procs
  OBVIOUS
<1>5. IsFiniteSet(Procs)
  BY NameAssumption
<1> HIDE DEF A1, A2, A3, A4, A5, A6
<1>6. /\ Cardinality(A1) \in Nat /\ Cardinality(A1)' \in Nat
      /\ Cardinality(A1)' = Cardinality(A1) - One(p \in A1) + One(p \in A1')
  BY <1>1, <1>4, <1>5, Differ
<1>7. /\ Cardinality(A2) \in Nat /\ Cardinality(A2)' \in Nat
      /\ Cardinality(A2)' = Cardinality(A2) - One(p \in A2) + One(p \in A2')
  BY <1>1, <1>4, <1>5, Differ
<1>8. /\ Cardinality(A3) \in Nat /\ Cardinality(A3)' \in Nat
      /\ Cardinality(A3)' = Cardinality(A3) - One(p \in A3) + One(p \in A3')
  BY <1>1, <1>4, <1>5, Differ
<1>9. /\ Cardinality(A4) \in Nat /\ Cardinality(A4)' \in Nat
      /\ Cardinality(A4)' = Cardinality(A4) - One(p \in A4) + One(p \in A4')
  BY <1>1, <1>4, <1>5, Differ
<1>10. /\ Cardinality(A5) \in Nat /\ Cardinality(A5)' \in Nat
       /\ Cardinality(A5)' = Cardinality(A5) - One(p \in A5) + One(p \in A5')
  BY <1>1, <1>4, <1>5, Differ
<1>11. /\ Cardinality(A6) \in Nat /\ Cardinality(A6)' \in Nat
       /\ Cardinality(A6)' = Cardinality(A6) - One(p \in A6) + One(p \in A6')
  BY <1>1, <1>4, <1>5, Differ
<1>12. Holders(i) = Cardinality(A1) + Cardinality(A2) + Cardinality(A3)
                  + Cardinality(A4) + Cardinality(A5) + Cardinality(A6)
  BY DEF Holders, A1, A2, A3, A4, A5, A6
<1>13. Holders(i)' = Cardinality(A1)' + Cardinality(A2)' + Cardinality(A3)'
                   + Cardinality(A4)' + Cardinality(A5)' + Cardinality(A6)'
  BY DEF Holders, A1, A2, A3, A4, A5, A6
<1>14. Mine(p, i) = One(p \in A1) + One(p \in A2) + One(p \in A3) + One(p \in A4)
                  + One(p \in A5) + One(p \in A6)
  BY <1>2 DEF Mine
<1>15. Mine(p, i)' = One(p \in A1') + One(p \in A2') + One(p \in A3') + One(p \in A4')
                   + One(p \in A5') + One(p \in A6')
  BY <1>3 DEF Mine
<1>16. /\ One(p \in A1) \in Nat /\ One(p \in A2) \in Nat /\ One(p \in A3) \in Nat
       /\ One(p \in A4) \in Nat /\ One(p \in A5) \in Nat /\ One(p \in A6) \in Nat
       /\ One(p \in A1') \in Nat /\ One(p \in A2') \in Nat /\ One(p \in A3') \in Nat
       /\ One(p \in A4') \in Nat /\ One(p \in A5') \in Nat /\ One(p \in A6') \in Nat
  BY DEF One
<1> QED
  BY <1>6, <1>7, <1>8, <1>9, <1>10, <1>11, <1>12, <1>13, <1>14, <1>15, <1>16

\* The holder of the only reference is alone with it and has it once.
LEMMA Sole ==
  ASSUME TypeInv, NEW p \in Procs, NEW i \in Inums
  PROVE  /\ Holders(i) \in Nat /\ Holders(i) >= Mine(p, i)
         /\ \A q \in Procs : q # p => Holders(i) >= Mine(p, i) + Mine(q, i)
<1> DEFINE A1 == {q \in Procs : cwd[q] = i}
           A2 == {q \in Procs : fd[q] = i}
           A3 == {q \in Procs : proc[q].cur = i}
           A4 == {q \in Procs : proc[q].ip = i}
           A5 == {q \in Procs : proc[q].put = i}
           A6 == {q \in Procs : proc[q].later = i}
<1>2. ASSUME NEW q \in Procs
      PROVE  Mine(q, i) = One(q \in A1) + One(q \in A2) + One(q \in A3) + One(q \in A4)
                        + One(q \in A5) + One(q \in A6)
  <2>1. /\ q \in A1 <=> cwd[q] = i
        /\ q \in A2 <=> fd[q] = i
        /\ q \in A3 <=> proc[q].cur = i
        /\ q \in A4 <=> proc[q].ip = i
        /\ q \in A5 <=> proc[q].put = i
        /\ q \in A6 <=> proc[q].later = i
    OBVIOUS
  <2> HIDE DEF A1, A2, A3, A4, A5, A6
  <2> QED
    BY <2>1 DEF Mine
<1>4. /\ A1 \in SUBSET Procs /\ A2 \in SUBSET Procs /\ A3 \in SUBSET Procs
      /\ A4 \in SUBSET Procs /\ A5 \in SUBSET Procs /\ A6 \in SUBSET Procs
  OBVIOUS
<1>5. IsFiniteSet(Procs)
  BY NameAssumption
<1>12. Holders(i) = Cardinality(A1) + Cardinality(A2) + Cardinality(A3)
                  + Cardinality(A4) + Cardinality(A5) + Cardinality(A6)
  BY DEF Holders
<1> HIDE DEF A1, A2, A3, A4, A5, A6
<1>6. ASSUME NEW A \in SUBSET Procs
      PROVE  /\ Cardinality(A) \in Nat /\ Cardinality(A) >= One(p \in A)
             /\ \A q \in Procs : q # p => Cardinality(A) >= One(p \in A) + One(q \in A)
  BY <1>5, Members
<1>7. /\ Cardinality(A1) \in Nat /\ Cardinality(A1) >= One(p \in A1)
      /\ Cardinality(A2) \in Nat /\ Cardinality(A2) >= One(p \in A2)
      /\ Cardinality(A3) \in Nat /\ Cardinality(A3) >= One(p \in A3)
      /\ Cardinality(A4) \in Nat /\ Cardinality(A4) >= One(p \in A4)
      /\ Cardinality(A5) \in Nat /\ Cardinality(A5) >= One(p \in A5)
      /\ Cardinality(A6) \in Nat /\ Cardinality(A6) >= One(p \in A6)
  BY <1>4, <1>6
<1>8. Holders(i) \in Nat /\ Holders(i) >= Mine(p, i)
  BY <1>2, <1>7, <1>12 DEF One
<1>9. ASSUME NEW q \in Procs, q # p
      PROVE  Holders(i) >= Mine(p, i) + Mine(q, i)
  <2>1. /\ Cardinality(A1) >= One(p \in A1) + One(q \in A1)
        /\ Cardinality(A2) >= One(p \in A2) + One(q \in A2)
        /\ Cardinality(A3) >= One(p \in A3) + One(q \in A3)
        /\ Cardinality(A4) >= One(p \in A4) + One(q \in A4)
        /\ Cardinality(A5) >= One(p \in A5) + One(q \in A5)
        /\ Cardinality(A6) >= One(p \in A6) + One(q \in A6)
    BY <1>4, <1>6, <1>9
  <2> QED
    BY <1>2, <1>7, <1>12, <2>1 DEF One
<1> QED
  BY <1>8, <1>9

LEMMA HeldMine ==
  ASSUME TypeInv, NEW p \in Procs, NEW i \in Inums
  PROVE  /\ Mine(p, i) \in Nat
         /\ Held(p, i) => Mine(p, i) >= 1
         /\ proc[p].put = i => Mine(p, i) >= 1
BY DEF Held, Mine, One
-----------------------------------------------------------------------------
(* The inductive invariant.  It has a part about each process by itself,   *)
(* parts about the tree, and parts about an inode that one process has in  *)
(* hand, because it is new or because it is being freed, and the others.   *)
Walking == {"walk", "found"}
Entering == {"ialloc", "init", "child"}

\* What a process has in hand at each place.
PlaceOK(p) ==
  /\ proc[p].cur # 0 <=> proc[p].pc \in Walking \cup Entering
  /\ proc[p].pc \in {"exists", "init", "child", "drop", "bad"} => proc[p].ip # 0
  /\ proc[p].pc \in {"user", "ialloc"} => proc[p].ip = 0
  /\ proc[p].pc \in Walking /\ proc[p].ip # 0 => proc[p].call = "link"
  /\ proc[p].call = "link" => proc[p].pc \in Walking \cup {"bad"}
  /\ proc[p].pc = "bad" => proc[p].call = "link"
  /\ proc[p].pc \in {"child", "drop"} => proc[p].call = "unlink"
  /\ proc[p].pc \in {"exists", "ialloc", "init"} => Creates(p)
  /\ proc[p].pc = "walk" => proc[p].path # <<>>
  /\ proc[p].pc = "found" /\ StopsEarly(p) => proc[p].path # <<>>
  /\ proc[p].pc \in Entering => /\ proc[p].path # <<>> /\ LastName(p) \in Names
                                /\ proc[p].put = 0
  /\ proc[p].put = 0 => proc[p].later = 0 /\ proc[p].freeing = "no"
  /\ proc[p].pc = "drop" /\ proc[p].freeing # "no" => proc[p].ip # proc[p].put

\* The directory it is to change and what it has found there.
DirOK(p) ==
  /\ proc[p].pc = "found" /\ StopsEarly(p) => type[proc[p].cur] = "dir"
  /\ proc[p].pc \in Entering => type[proc[p].cur] = "dir"
  /\ proc[p].pc \in {"ialloc", "init"} => Entry(p) = 0
  /\ proc[p].pc = "child" => Entry(p) = proc[p].ip
  /\ proc[p].call = "link" /\ proc[p].ip # 0 => type[proc[p].ip] = "file"

RefTyped(p) == \A i \in Inums : Held(p, i) => type[i] # "free"
InUseTyped(p) == type[cwd[p]] = "dir" /\ (fd[p] # 0 => type[fd[p]] # "free")

\* Who has set the flag of an inode.
Locks(p, i) == \/ proc[p].pc \in Entering /\ proc[p].cur = i
               \/ proc[p].pc = "drop" /\ proc[p].ip = i
               \/ proc[p].freeing # "no" /\ proc[p].put = i
BusyInv == \A i \in Inums, p \in Procs : busy[i] = p <=> Locks(p, i)

\* Between ialloc and the first entry nobody else knows a new inode, except
\* for a process that has just freed it.
FreshInode(r, i) == /\ type[i] = NewType(r) /\ nlink[i] = 0 /\ lost[i] = 0 /\ i # Root
                    /\ \A n \in Links : ents[i][n] = 0
                    /\ \A j \in Inums : \A n \in Links : ents[j][n] # i
FreshInv(r) == proc[r].pc = "init" =>
  /\ FreshInode(r, proc[r].ip)
  /\ cwd[r] # proc[r].ip /\ fd[r] # proc[r].ip /\ proc[r].cur # proc[r].ip
  /\ \A q \in Procs \ {r} : ~Held(q, proc[r].ip)
Fresh(i) == \E r \in Procs : proc[r].pc = "init" /\ proc[r].ip = i

\* While an inode is truncated others can only be on their way to it.
FreeFor(p, i, q) == /\ cwd[q] # i /\ fd[q] # i
                    /\ proc[q].cur = i => proc[q].pc \in Walking
                    /\ proc[q].ip = i => proc[q].pc = "exists"
                    /\ proc[q].put = i => q = p
                    /\ proc[q].later # i
FreeInv(p) == proc[p].freeing = "itrunc" =>
  /\ nlink[proc[p].put] = 0 /\ proc[p].put # Root /\ type[proc[p].put] # "free"
  /\ \A q \in Procs : FreeFor(p, proc[p].put, q)

TreeInv == /\ type[Root] = "dir"
           /\ \A i \in Inums : /\ type[i] # "dir" => \A n \in Links : ents[i][n] = 0
                               /\ type[i] = "free" => lost[i] = 0
                               /\ type[i] = "dir" /\ ~Fresh(i) => ents[i][".."] # 0
EntriesTyped == \A i \in Inums, n \in Names : ents[i][n] # 0 => type[ents[i][n]] # "free"
UpTyped == \A i \in Inums : ents[i][".."] # 0 => type[ents[i][".."]] # "free"

\* Every set of inodes has one without an entry for another of the set.
Acyclic == \A S \in SUBSET Inums : S # {} =>
  \E i \in S : \A n \in Names : ents[i][n] \notin S

ProcInv(p) == /\ PlaceOK(p) /\ InUseTyped(p) /\ FreshInv(p) /\ FreeInv(p)
              /\ DirOK(p) /\ RefTyped(p)

Panics1 == {"none", "ialloc: no inodes"}
IInv == /\ RefInv /\ LinksCounted
        /\ \A p \in Procs : ProcInv(p)
        /\ BusyInv
        /\ TreeInv /\ EntriesTyped /\ UpTyped
        /\ Acyclic
        /\ panic \in Panics1
-----------------------------------------------------------------------------
LEMMA NatCounts ==
  ASSUME NEW f \in [Inums -> Nat]
  PROVE  f \in [Inums -> Int]
OBVIOUS

LEMMA Basics ==
  /\ Inums \subseteq Nat \ {0} /\ Root \in Inums /\ IsFiniteSet(Inums)
  /\ IsFiniteSet(Names) /\ IsFiniteSet(Procs) /\ None \notin Procs
  /\ Names \subseteq Links /\ ".." \in Links /\ ".." \notin Names
  /\ NInodes \in Nat
<1>1. NInodes \in Int /\ 1 \in Int
  BY DiskAssumption
<1>2. IsFiniteSet(1..NInodes)
  BY <1>1, FS_Interval
<1> QED
  BY <1>2, DiskAssumption, NameAssumption DEF Inums, Root, Links

\* References given away by Drops are those dropped, but for the last ones.
Dropped(p, a, b, refs, r) ==
  /\ proc' \in [Procs -> Process]
  /\ \A q \in Procs \ {p} : proc'[q] = proc[q]
  /\ proc'[p].pc = r.pc /\ proc'[p].call = r.call /\ proc'[p].cur = r.cur
  /\ proc'[p].path = r.path /\ proc'[p].ip = r.ip /\ proc'[p].freeing = r.freeing
  /\ proc'[p].put \in {0, a, b} /\ proc'[p].later \in {0, b}
  /\ proc'[p].put = 0 => proc'[p].later = 0
  /\ ref' \in [Inums -> Int]
  /\ \A i \in Inums : ref'[i] = refs[i] - One(a = i) - One(b = i)
                              + One(proc'[p].put = i) + One(proc'[p].later = i)

LEMMA DropsEffect ==
  ASSUME proc \in [Procs -> Process], NEW p \in Procs,
         NEW a \in Inums \cup {0}, NEW b \in Inums \cup {0}, a = b => a = 0,
         NEW refs \in [Inums -> Int], NEW r \in Process, Drops(p, a, b, refs, r)
  PROVE  Dropped(p, a, b, refs, r)
<1> DEFINE last(i) == i # 0 /\ LastRef(refs, nlink', i)
           x == IF last(a) THEN a ELSE IF last(b) THEN b ELSE 0
           y == IF last(a) /\ last(b) THEN b ELSE 0
           s == [r EXCEPT !.put = x, !.later = y]
<1>1. /\ ref' = [i \in Inums |-> IF i \in {a, b} /\ ~last(i) THEN refs[i] - 1 ELSE refs[i]]
      /\ proc' = [proc EXCEPT ![p] = s]
  BY DEF Drops
<1>2. x \in {0, a, b} /\ y \in {0, b} /\ (x = 0 => y = 0)
  OBVIOUS
<1>3. /\ s \in Process
      /\ s.pc = r.pc /\ s.call = r.call /\ s.cur = r.cur /\ s.path = r.path /\ s.ip = r.ip
      /\ s.freeing = r.freeing /\ s.put = x /\ s.later = y
  <2> HIDE DEF x, y
  <2> QED
    BY <1>2 DEF Process
<1>4. proc' \in [Procs -> Process] /\ proc'[p] = s /\ \A q \in Procs \ {p} : proc'[q] = proc[q]
  <2> HIDE DEF s
  <2> QED
    BY <1>1, <1>3
<1>5. ASSUME NEW i \in Inums
      PROVE  /\ ref'[i] \in Int
             /\ ref'[i] = refs[i] - One(a = i) - One(b = i) + One(x = i) + One(y = i)
  <2>1. ref'[i] = IF i \in {a, b} /\ ~last(i) THEN refs[i] - 1 ELSE refs[i]
    BY <1>1
  <2>2. i # 0 /\ refs[i] \in Int
    BY Basics
  <2> HIDE DEF last
  <2>3. (last(a) => a # 0) /\ (last(b) => b # 0)
    BY DEF last
  <2> QED
    BY <2>1, <2>2, <2>3 DEF One
<1>6. ref' \in [Inums -> Int]
  <2>1. \A i \in Inums : (IF i \in {a, b} /\ ~last(i) THEN refs[i] - 1 ELSE refs[i]) \in Int
    BY <1>1, <1>5
  <2> QED
    BY <1>1, <2>1
<1> QED
  BY <1>2, <1>3, <1>4, <1>5, <1>6 DEF Dropped

\* The links on their way and the entries erased, before and after a step of p.
LEMMA LinkingChange ==
  ASSUME TypeInv, NEW p \in Procs, Only(p), NEW i \in Inums
  PROVE  /\ Linking(i) \in Nat /\ Linking(i)' \in Nat
         /\ Linking(i)' = Linking(i) - One(LinkOf(p) = i) + One(LinkOf(p)' = i)
         /\ Linking(i) >= One(LinkOf(p) = i)
<1> DEFINE A == {q \in Procs : proc[q].call = "link" /\ proc[q].ip = i}
<1>1. /\ A \ {p} = A' \ {p} /\ A \in SUBSET Procs /\ A' \in SUBSET Procs
      /\ p \in A <=> LinkOf(p) = i
      /\ p \in A' <=> LinkOf(p)' = i
      /\ IsFiniteSet(Procs)
  BY Basics DEF Only, LinkOf
<1>2. Linking(i) = Cardinality(A) /\ Linking(i)' = Cardinality(A)'
  BY DEF Linking
<1> HIDE DEF A
<1>3. /\ Cardinality(A) \in Nat /\ Cardinality(A)' \in Nat
      /\ Cardinality(A)' = Cardinality(A) - One(p \in A) + One(p \in A')
  BY <1>1, Differ
<1>4. Cardinality(A) >= One(p \in A)
  BY <1>1, Members
<1> QED
  BY <1>1, <1>2, <1>3, <1>4 DEF One

LEMMA ErasingChange ==
  ASSUME TypeInv, NEW p \in Procs, Only(p), NEW i \in Inums
  PROVE  /\ Erasing(i) \in Nat /\ Erasing(i)' \in Nat
         /\ Erasing(i)' = Erasing(i) - One(DropOf(p) = i) + One(DropOf(p)' = i)
         /\ Erasing(i) >= One(DropOf(p) = i)
<1> DEFINE A == {q \in Procs : proc[q].pc = "drop" /\ proc[q].ip = i}
<1>1. /\ A \ {p} = A' \ {p} /\ A \in SUBSET Procs /\ A' \in SUBSET Procs
      /\ p \in A <=> DropOf(p) = i
      /\ p \in A' <=> DropOf(p)' = i
      /\ IsFiniteSet(Procs)
  BY Basics DEF Only, DropOf
<1>2. Erasing(i) = Cardinality(A) /\ Erasing(i)' = Cardinality(A)'
  BY DEF Erasing
<1> HIDE DEF A
<1>3. /\ Cardinality(A) \in Nat /\ Cardinality(A)' \in Nat
      /\ Cardinality(A)' = Cardinality(A) - One(p \in A) + One(p \in A')
  BY <1>1, Differ
<1>4. Cardinality(A) >= One(p \in A)
  BY <1>1, Members
<1> QED
  BY <1>1, <1>2, <1>3, <1>4 DEF One

\* Entries and subdirectories are finitely many, and one that is there counts.
LEMMA TreeCounts ==
  ASSUME ents \in [Inums -> [Links -> Inums \cup {0}]], NEW i \in Inums
  PROVE  /\ Entries(i) \in Nat /\ Subdirs(i) \in Nat
         /\ \A j \in Inums, n \in Names : ents[j][n] = i => Entries(i) >= 1
         /\ \A n \in Names : ents[i][n] # 0 /\ type[ents[i][n]] = "dir" => Subdirs(i) >= 1
<1> DEFINE A == {x \in Inums \X Names : ents[x[1]][x[2]] = i}
           B == {n \in Names : ents[i][n] # 0 /\ type[ents[i][n]] = "dir"}
<1>1. IsFiniteSet(Inums \X Names)
  BY Basics, FS_Product
<1>2. A \in SUBSET (Inums \X Names) /\ B \in SUBSET Names
  OBVIOUS
<1>3. /\ Cardinality(A) \in Nat /\ \A x \in Inums \X Names : Cardinality(A) >= One(x \in A)
      /\ Cardinality(B) \in Nat /\ \A n \in Names : Cardinality(B) >= One(n \in B)
  <2> HIDE DEF A, B
  <2> QED
    BY <1>1, <1>2, Basics, Members
<1>4. ASSUME NEW j \in Inums, NEW n \in Names, ents[j][n] = i PROVE Entries(i) >= 1
  <2>1. <<j, n>> \in A /\ <<j, n>> \in Inums \X Names
    BY <1>4
  <2>2. Cardinality(A) >= One(<<j, n>> \in A)
    BY <1>3, <2>1
  <2> QED
    BY <1>3, <2>1, <2>2 DEF Entries, One
<1>5. ASSUME NEW n \in Names, ents[i][n] # 0 /\ type[ents[i][n]] = "dir" PROVE Subdirs(i) >= 1
  <2>1. n \in B
    BY <1>5
  <2> QED
    BY <1>3, <2>1 DEF Subdirs, One
<1> QED
  BY <1>3, <1>4, <1>5 DEF Entries, Subdirs
-----------------------------------------------------------------------------
LEMMA RefStep ==
  ASSUME RefInv, NEW p \in Procs, Only(p), RefMoves(p)
  PROVE  /\ ref' \in [Inums -> Nat]
         /\ \A i \in Inums : ref'[i] = Holders(i)'
<1>1. ASSUME NEW i \in Inums PROVE ref'[i] = Holders(i)' /\ ref'[i] \in Nat
  <2>1. /\ Holders(i) \in Nat /\ Holders(i)' \in Nat
        /\ Holders(i)' = Holders(i) - Mine(p, i) + Mine(p, i)'
    BY HoldersChange DEF RefInv
  <2>2. ref[i] = Holders(i) /\ ref'[i] = ref[i] - Mine(p, i) + Mine(p, i)'
    BY DEF RefInv, RefMoves
  <2> QED
    BY <2>1, <2>2
<1> QED
  BY <1>1 DEF RefMoves

LEMMA LinkSame ==
  ASSUME TypeInv, LinksCounted, UNCHANGED <<tree, lost, dangling>>, NEW p \in Procs, Only(p),
         LinkOf(p)' = LinkOf(p), DropOf(p)' = DropOf(p)
  PROVE  LinksCounted'
<1> SUFFICES ASSUME NEW i \in Inums, type'[i] # "free"
             PROVE  nlink'[i] = Entries(i)' + Subdirs(i)' + Linking(i)' + Erasing(i)'
                              + lost'[i] + (IF i = Root THEN 1 ELSE 0)
  BY DEF LinksCounted
<1>1. Linking(i)' = Linking(i) /\ Erasing(i)' = Erasing(i)
  BY LinkingChange, ErasingChange DEF One
<1>2. Entries(i)' = Entries(i) /\ Subdirs(i)' = Subdirs(i)
  BY DEF Entries, Subdirs, tree
<1> QED
  BY <1>1, <1>2 DEF LinksCounted, tree

\* A step that takes flags or gives them back.
BusyMoves(p) ==
  /\ busy' \in [Inums -> Procs \cup {None}]
  /\ \A i \in Inums : /\ busy'[i] = busy[i] \/ (busy[i] \in {p, None} /\ busy'[i] \in {p, None})
                      /\ busy'[i] = p <=> Locks(p, i)'

LEMMA BusyStep ==
  ASSUME BusyInv, NEW p \in Procs, Only(p), BusyMoves(p)
  PROVE  BusyInv'
<1> SUFFICES ASSUME NEW i \in Inums, NEW q \in Procs
             PROVE  (busy'[i] = q) <=> Locks(q, i)'
  BY DEF BusyInv
<1>1. CASE q = p
  BY <1>1 DEF BusyMoves
<1>2. CASE q # p
  <2>1. Locks(q, i)' <=> Locks(q, i)
    BY <1>2 DEF Locks, Only
  <2>2. busy'[i] = q <=> busy[i] = q
    BY <1>2, NameAssumption DEF BusyMoves
  <2> QED
    BY <2>1, <2>2 DEF BusyInv
<1> QED
  BY <1>1, <1>2

\* p refers to nothing but what it did or found in the tree.
Finds(p) == \A i \in Inums : Held(p, i)' =>
  Held(p, i) \/ i = Root \/ \E j \in Inums, n \in Links : ents[j][n] = i

\* p changes counts only of an inode it holds and nobody has locked.
Counts(p) == /\ nlink' \in [Inums -> Nat]
             /\ \A i \in Inums : nlink'[i] = nlink[i] \/ (Held(p, i) /\ busy[i] \in {p, None})

\* Steps that leave the types and the entries alone.
LEMMA QuietStep ==
  ASSUME IInv, panic = "none", UNCHANGED <<type, ents, panic, lost, dangling>>,
         NEW p \in Procs, Only(p), RefMoves(p), BusyMoves(p), Finds(p), Counts(p), LinksCounted',
         proc[p].pc # "init", proc'[p].pc # "init",
         PlaceOK(p)', DirOK(p)', InUseTyped(p)', FreeInv(p)',
         \A r \in Procs \ {p} : proc[r].freeing = "itrunc" => FreeFor(r, proc[r].put, p)'
  PROVE  IInv'
<1>0. TypeInv
  BY DEF IInv, RefInv
<1>1. RefInv'
  <2>1. TypeInv'
    BY <1>0, RefStep, NatCounts DEF TypeInv, TypeOK, IInv, Only, BusyMoves, Counts
  <2> QED
    BY <2>1, RefStep DEF RefInv, IInv
<1>2. BusyInv'
  BY BusyStep DEF IInv
<1>3. ASSUME NEW q \in Procs, q # p
      PROVE  PlaceOK(q)' /\ InUseTyped(q)' /\ DirOK(q)' /\ RefTyped(q)'
  <2>1. proc'[q] = proc[q] /\ cwd'[q] = cwd[q] /\ fd'[q] = fd[q] /\ ProcInv(q)
    BY <1>3 DEF Only, IInv
  <2>2. PlaceOK(q)'
    BY <2>1 DEF PlaceOK, ProcInv, StopsEarly, Parent, Creates, LastName
  <2>3. DirOK(q)'
    BY <1>0, <2>1 DEF DirOK, ProcInv, StopsEarly, Parent, Entry, LastName
  <2> QED
    BY <1>0, <2>1, <2>2, <2>3 DEF ProcInv, RefTyped, Held, InUseTyped
<1>4. RefTyped(p)'
  <2> SUFFICES ASSUME NEW i \in Inums, Held(p, i)' PROVE type[i] # "free"
    BY DEF RefTyped
  <2>1. CASE Held(p, i)
    BY <1>0, <2>1 DEF IInv, ProcInv, RefTyped
  <2>2. CASE i = Root
    BY <2>2 DEF IInv, TreeInv
  <2>3. ASSUME NEW j \in Inums, NEW n \in Links, ents[j][n] = i PROVE type[i] # "free"
    <3>1. i # 0
      BY Basics
    <3> QED
      BY <1>0, <2>3, <3>1 DEF IInv, EntriesTyped, UpTyped, Links
  <2> QED
    BY <2>1, <2>2, <2>3 DEF Finds
<1>5. ASSUME NEW r \in Procs, r # p, proc[r].pc = "init"
      PROVE  FreshInv(r)'
  <2> DEFINE i == proc[r].ip
  <2>1. /\ proc'[r] = proc[r] /\ cwd'[r] = cwd[r] /\ fd'[r] = fd[r]
        /\ ProcInv(r) /\ FreshInv(r) /\ i \in Inums
    BY <1>0, <1>5 DEF Only, IInv, ProcInv, TypeInv, TypeOK, Process, PlaceOK
  <2>2. /\ FreshInode(r, i) /\ ~Held(p, i)
        /\ cwd[r] # i /\ fd[r] # i /\ proc[r].cur # i
        /\ \A q \in Procs \ {r} : ~Held(q, i)
    BY <1>5, <2>1 DEF FreshInv
  <2>3. ~Held(p, i)'
    BY <2>1, <2>2 DEF Finds, FreshInode
  <2>4. ASSUME NEW q \in Procs, q # r PROVE ~Held(q, i)'
    <3>1. CASE q = p
      BY <2>3, <3>1
    <3>2. CASE q # p
      BY <2>1, <2>2, <2>4, <3>2 DEF Held, Only
    <3> QED
      BY <3>1, <3>2
  <2>5. FreshInode(r, i)'
    BY <2>1, <2>2 DEF FreshInode, NewType, Counts
  <2> QED
    BY <2>1, <2>2, <2>4, <2>5 DEF FreshInv
<1>6. ASSUME NEW r \in Procs, r # p PROVE FreshInv(r)'
  <2>1. proc'[r] = proc[r]
    BY <1>6 DEF Only
  <2> QED
    BY <1>5, <1>6, <2>1 DEF FreshInv
<1>7. FreshInv(p)'
  BY DEF FreshInv
<1>8. ASSUME NEW r \in Procs, r # p PROVE FreeInv(r)'
  <2> DEFINE i == proc[r].put
  <2>1. /\ proc'[r] = proc[r] /\ ProcInv(r) /\ BusyInv
    BY <1>8 DEF Only, IInv
  <2> SUFFICES ASSUME proc[r].freeing = "itrunc" PROVE FreeInv(r)'
    BY <2>1 DEF FreeInv
  <2>2. /\ i \in Inums /\ nlink[i] = 0 /\ i # Root /\ type[i] # "free"
        /\ \A q \in Procs : FreeFor(r, i, q)
    BY <1>0, <2>1 DEF ProcInv, PlaceOK, FreeInv, TypeInv, TypeOK, Process
  <2>3. busy[i] = r
    BY <2>1, <2>2 DEF BusyInv, Locks
  <2>4. nlink'[i] = 0
    BY <1>8, <2>2, <2>3, Basics DEF Counts
  <2>5. ASSUME NEW q \in Procs PROVE FreeFor(r, i, q)'
    <3>1. CASE q = p
      BY <1>8, <2>1, <3>1 DEF FreeFor
    <3>2. CASE q # p
      BY <2>1, <2>2, <3>2 DEF FreeFor, Only
    <3> QED
      BY <3>1, <3>2
  <2> QED
    BY <2>1, <2>2, <2>4, <2>5 DEF FreeInv
<1>9. \A q \in Procs : ProcInv(q)'
  BY <1>3, <1>4, <1>6, <1>7, <1>8 DEF ProcInv
<1>10. TreeInv'
  <2>1. ASSUME NEW i \in Inums PROVE Fresh(i) => Fresh(i)'
    BY DEF Fresh, Only
  <2> QED
    BY <2>1 DEF IInv, TreeInv
<1>11. EntriesTyped' /\ UpTyped' /\ Acyclic' /\ (panic \in Panics1)'
  BY <1>0 DEF IInv, EntriesTyped, UpTyped, Acyclic
<1> QED
  BY <1>1, <1>2, <1>9, <1>10, <1>11 DEF IInv
-----------------------------------------------------------------------------
\* An inode that another process truncates, seen from p.
Shunned(p, x) == /\ busy[x] \notin {p, None} /\ x # Root
                 /\ cwd[p] # x /\ fd[p] # x
                 /\ proc[p].cur = x => proc[p].pc \in Walking
                 /\ proc[p].ip = x => proc[p].pc = "exists"
                 /\ proc[p].put # x /\ proc[p].later # x
                 /\ \A j \in Inums, n \in Names : ents[j][n] # x

LEMMA LinkingNat ==
  ASSUME NEW i
  PROVE  Linking(i) \in Nat /\ Erasing(i) \in Nat
<1>1. {q \in Procs : proc[q].call = "link" /\ proc[q].ip = i} \in SUBSET Procs
  OBVIOUS
<1>2. {q \in Procs : proc[q].pc = "drop" /\ proc[q].ip = i} \in SUBSET Procs
  OBVIOUS
<1> QED
  BY <1>1, <1>2, Basics, Members DEF Linking, Erasing

\* What is counted in a link count.
LEMMA LinkParts ==
  ASSUME IInv, NEW i \in Inums, type[i] # "free"
  PROVE  /\ nlink[i] \in Nat /\ lost[i] \in Nat
         /\ Entries(i) \in Nat /\ Subdirs(i) \in Nat /\ Linking(i) \in Nat /\ Erasing(i) \in Nat
         /\ nlink[i] >= Entries(i) /\ nlink[i] >= Subdirs(i) /\ nlink[i] >= Linking(i)
         /\ nlink[i] >= Erasing(i) /\ nlink[i] >= lost[i] /\ (i = Root => nlink[i] >= 1)
<1> DEFINE root == IF i = Root THEN 1 ELSE 0
           two == Entries(i) + Subdirs(i)
           three == two + Linking(i)
           four == three + Erasing(i)
           five == four + lost[i]
<1>1. nlink[i] = five + root /\ TypeInv /\ lost[i] \in Nat /\ nlink[i] \in Nat
  BY DEF IInv, LinksCounted, RefInv, TypeInv, TypeOK
<1>2. Entries(i) \in Nat /\ Subdirs(i) \in Nat
  BY <1>1, TreeCounts DEF TypeInv, TypeOK
<1>3. Linking(i) \in Nat /\ Erasing(i) \in Nat
  BY LinkingNat
<1>4. root \in Nat /\ (i = Root => root = 1)
  OBVIOUS
<1>5. two \in Nat /\ two >= Entries(i) /\ two >= Subdirs(i)
  BY <1>2
<1>6. three \in Nat /\ three >= two /\ three >= Linking(i)
  <2> HIDE DEF two
  <2> QED
    BY <1>3, <1>5
<1>7. four \in Nat /\ four >= three /\ four >= Erasing(i)
  <2> HIDE DEF three
  <2> QED
    BY <1>3, <1>6
<1>8. five \in Nat /\ five >= four /\ five >= lost[i]
  <2> HIDE DEF four
  <2> QED
    BY <1>1, <1>7
<1>9. nlink[i] >= five /\ nlink[i] >= root
  <2> HIDE DEF five, root
  <2> QED
    BY <1>1, <1>4, <1>8
<1> HIDE DEF two, three, four, five, root
<1> QED
  BY <1>1, <1>2, <1>3, <1>4, <1>5, <1>6, <1>7, <1>8, <1>9

LEMMA NoEntry ==
  ASSUME IInv, NEW i \in Inums, nlink[i] = 0, type[i] # "free"
  PROVE  /\ i # Root /\ lost[i] = 0 /\ Entries(i) = 0 /\ Subdirs(i) = 0
         /\ \A j \in Inums, n \in Names : ents[j][n] # i
<1>1. \A j \in Inums, n \in Names : ents[j][n] = i => Entries(i) >= 1
  BY TreeCounts DEF IInv, RefInv, TypeInv, TypeOK
<1> QED
  BY <1>1, LinkParts

LEMMA FreedShunned ==
  ASSUME IInv, NEW p \in Procs, NEW q \in Procs, q # p, proc[q].freeing = "itrunc"
  PROVE  proc[q].put \in Inums /\ Shunned(p, proc[q].put)
<1> DEFINE x == proc[q].put
<1>1. TypeInv /\ ProcInv(q) /\ BusyInv
  BY DEF IInv, RefInv
<1>2. x \in Inums
  BY <1>1 DEF ProcInv, PlaceOK, TypeInv, TypeOK, Process
<1>3. FreeFor(q, x, p) /\ x # Root /\ nlink[x] = 0 /\ type[x] # "free"
  BY <1>1 DEF ProcInv, FreeInv
<1>4. busy[x] = q
  BY <1>1, <1>2 DEF BusyInv, Locks
<1>5. \A j \in Inums, n \in Names : ents[j][n] # x
  BY <1>2, <1>3, NoEntry
<1> QED
  BY <1>2, <1>3, <1>4, <1>5, Basics DEF FreeFor, Shunned

\* What p refers to besides what it is about to drop.
Base(p, i) == One(cwd[p] = i) + One(fd[p] = i) + One(proc[p].cur = i) + One(proc[p].ip = i)
Found(p, i) == Held(p, i) \/ i = Root \/ \E j \in Inums, n \in Links : ents[j][n] = i

\* p goes on with the record r, after dropping a and b from the references
\* refs: every reference it gives up or takes is counted, ...
Balance(p, a, b, refs, r) ==
  \A i \in Inums : refs[i] - One(a = i) - One(b = i) = ref[i] - Base(p, i) 
    + One(cwd'[p] = i) + One(fd'[p] = i) + One(r.cur = i) + One(r.ip = i)
\* ... it has come by them as it should, ...
Knows(p, a, b, r) == \A i \in Inums : i \in {a, b, cwd'[p], fd'[p], r.cur, r.ip} => Found(p, i)
\* ... and none is to an inode that another process truncates.
Shuns(p, a, b, r) ==
  \A x \in Inums : Shunned(p, x) => /\ x \notin {a, b, cwd'[p], fd'[p]}
                                    /\ r.cur = x => r.pc \in Walking
                                    /\ r.ip = x => r.pc = "exists"
Flags(p, r) ==
  /\ busy' \in [Inums -> Procs \cup {None}]
  /\ \A i \in Inums : /\ busy'[i] = busy[i] \/ (busy[i] \in {p, None} /\ busy'[i] \in {p, None})
                      /\ busy'[i] = p <=> (r.pc = "drop" /\ r.ip = i)

\* Steps that end in iput.
LEMMA DropParts ==
  ASSUME IInv, panic = "none", NEW p \in Procs,
         NEW a \in Inums \cup {0}, NEW b \in Inums \cup {0}, a = b => a = 0,
         NEW refs \in [Inums -> Int], NEW r \in Process, Drops(p, a, b, refs, r),
         proc[p].put = 0, r.freeing = "no",
         r.pc \notin {"init", "ialloc", "child"},
         cwd' \in [Procs -> Inums], fd' \in [Procs -> Inums \cup {0}],
         \A q \in Procs \ {p} : cwd'[q] = cwd[q] /\ fd'[q] = fd[q],
         Balance(p, a, b, refs, r), Knows(p, a, b, r), Shuns(p, a, b, r), Flags(p, r)
  PROVE  /\ Only(p) /\ RefMoves(p) /\ BusyMoves(p) /\ Finds(p) /\ FreeInv(p)'
         /\ \A q \in Procs \ {p} : proc[q].freeing = "itrunc" => FreeFor(q, proc[q].put, p)'
         /\ proc'[p].pc = r.pc /\ proc'[p].call = r.call /\ proc'[p].cur = r.cur
         /\ proc'[p].path = r.path /\ proc'[p].ip = r.ip /\ proc'[p].freeing = "no"
         /\ proc'[p].put = 0 => proc'[p].later = 0
<1> DEFINE s == proc'[p]
<1>0. TypeInv /\ PlaceOK(p) /\ proc[p].later = 0 /\ proc[p].freeing = "no"
  BY DEF IInv, RefInv, ProcInv, PlaceOK
<1>1. /\ proc' \in [Procs -> Process]
      /\ \A q \in Procs \ {p} : proc'[q] = proc[q]
      /\ proc'[p].pc = r.pc /\ proc'[p].call = r.call /\ proc'[p].cur = r.cur
      /\ proc'[p].path = r.path /\ proc'[p].ip = r.ip /\ proc'[p].freeing = r.freeing
      /\ proc'[p].put \in {0, a, b} /\ proc'[p].later \in {0, b}
      /\ proc'[p].put = 0 => proc'[p].later = 0
      /\ ref' \in [Inums -> Int]
      /\ \A i \in Inums : ref'[i] = refs[i] - One(a = i) - One(b = i)
                                  + One(proc'[p].put = i) + One(proc'[p].later = i)
  <2>1. proc \in [Procs -> Process]
    BY <1>0 DEF TypeInv, TypeOK
  <2>2. Dropped(p, a, b, refs, r)
    BY <2>1, DropsEffect
  <2> QED
    BY <2>2 DEF Dropped
<1>2. Only(p)
  BY <1>1 DEF Only
<1>3. RefMoves(p)
  <2>1. ASSUME NEW i \in Inums PROVE ref'[i] = ref[i] - Mine(p, i) + Mine(p, i)'
    <3>1. Mine(p, i) = Base(p, i)
      BY <1>0, Basics DEF Mine, Base, One
    <3>2. Mine(p, i)' = One(cwd'[p] = i) + One(fd'[p] = i) + One(r.cur = i) + One(r.ip = i)
                      + One(s.put = i) + One(s.later = i)
      BY <1>1 DEF Mine
    <3>3. ref[i] \in Int /\ Base(p, i) \in Int /\ refs[i] - One(a = i) - One(b = i) \in Int
      BY <1>0 DEF TypeInv, TypeOK, Base, One
    <3>4. /\ One(cwd'[p] = i) \in Int /\ One(fd'[p] = i) \in Int /\ One(r.cur = i) \in Int
          /\ One(r.ip = i) \in Int /\ One(s.put = i) \in Int /\ One(s.later = i) \in Int
      BY DEF One
    <3>5. refs[i] - One(a = i) - One(b = i) = ref[i] - Base(p, i) 
            + One(cwd'[p] = i) + One(fd'[p] = i) + One(r.cur = i) + One(r.ip = i)
      BY DEF Balance
    <3>6. ref'[i] = refs[i] - One(a = i) - One(b = i) + One(s.put = i) + One(s.later = i)
      BY <1>1
    <3> HIDE DEF s
    <3> QED
      BY <3>1, <3>2, <3>3, <3>4, <3>5, <3>6
  <2> QED
    BY <1>1, <2>1 DEF RefMoves
<1>4. BusyMoves(p)
  BY <1>1 DEF BusyMoves, Locks, Entering, Flags
<1>5. Finds(p)
  <2> SUFFICES ASSUME NEW i \in Inums, Held(p, i)' PROVE Found(p, i)
    BY DEF Finds, Found
  <2>1. i \in {a, b, cwd'[p], fd'[p], r.cur, r.ip}
    BY <1>1, Basics DEF Held
  <2> QED
    BY <2>1 DEF Knows
<1>6. FreeInv(p)'
  BY <1>1 DEF FreeInv
<1>7. ASSUME NEW q \in Procs \ {p}, proc[q].freeing = "itrunc"
      PROVE  FreeFor(q, proc[q].put, p)'
  <2> DEFINE x == proc[q].put
  <2>1. x \in Inums /\ Shunned(p, x) /\ proc'[q] = proc[q]
    BY <1>1, <1>7, FreedShunned
  <2>2. x # 0
    BY <2>1, Basics
  <2>3. /\ x \notin {a, b, cwd'[p], fd'[p]}
        /\ r.cur = x => r.pc \in Walking
        /\ r.ip = x => r.pc = "exists"
    BY <2>1 DEF Shuns
  <2> QED
    BY <1>1, <2>1, <2>2, <2>3 DEF FreeFor
<1> QED
  BY <1>1, <1>2, <1>3, <1>4, <1>5, <1>6, <1>7

\* Such steps that leave the tree alone.
LEMMA DropStep ==
  ASSUME IInv, panic = "none", UNCHANGED <<type, ents, panic, lost, dangling>>, NEW p \in Procs,
         NEW a \in Inums \cup {0}, NEW b \in Inums \cup {0}, a = b => a = 0,
         NEW refs \in [Inums -> Int], NEW r \in Process, Drops(p, a, b, refs, r),
         proc[p].put = 0, r.freeing = "no",
         proc[p].pc # "init", r.pc \notin {"init", "ialloc", "child"},
         cwd' \in [Procs -> Inums], fd' \in [Procs -> Inums \cup {0}],
         \A q \in Procs \ {p} : cwd'[q] = cwd[q] /\ fd'[q] = fd[q],
         Balance(p, a, b, refs, r), Knows(p, a, b, r), Shuns(p, a, b, r), Flags(p, r),
         Counts(p), LinksCounted', PlaceOK(p)', DirOK(p)', InUseTyped(p)'
  PROVE  IInv'
<1>1. /\ Only(p) /\ RefMoves(p) /\ BusyMoves(p) /\ Finds(p) /\ FreeInv(p)'
      /\ \A q \in Procs \ {p} : proc[q].freeing = "itrunc" => FreeFor(q, proc[q].put, p)'
      /\ proc'[p].pc = r.pc /\ proc'[p].call = r.call /\ proc'[p].cur = r.cur
      /\ proc'[p].path = r.path /\ proc'[p].ip = r.ip /\ proc'[p].freeing = "no"
      /\ proc'[p].put = 0 => proc'[p].later = 0
  BY DropParts
<1> QED
  BY <1>1, QuietStep
-----------------------------------------------------------------------------
\* The invariant as p sees it before a step.
LEMMA Here ==
  ASSUME IInv, NEW p \in Procs, panic = "none"
  PROVE  /\ TypeInv /\ PlaceOK(p) /\ DirOK(p) /\ RefTyped(p) /\ InUseTyped(p)
         /\ FreshInv(p) /\ FreeInv(p) /\ BusyInv
         /\ proc \in [Procs -> Process] /\ proc[p] \in Process
         /\ cwd[p] \in Inums /\ fd[p] \in Inums \cup {0}
         /\ proc[p].cur \in Inums \cup {0} /\ proc[p].ip \in Inums \cup {0}
         /\ proc[p].put \in Inums \cup {0} /\ proc[p].later \in Inums \cup {0}
         /\ proc[p].path \in Seq(Links)
         /\ proc[p].put = 0 => proc[p].later = 0 /\ proc[p].freeing = "no"
         /\ ref \in [Inums -> Int] /\ 0 \notin Inums
         /\ type \in [Inums -> {"free", "file", "dir"}]
         /\ ents \in [Inums -> [Links -> Inums \cup {0}]]
<1>1. TypeInv /\ ProcInv(p) /\ BusyInv
  BY DEF IInv, RefInv
<1>2. proc[p] \in Process /\ proc \in [Procs -> Process]
  BY <1>1 DEF TypeInv, TypeOK
<1>3. /\ proc[p].cur \in Inums \cup {0} /\ proc[p].ip \in Inums \cup {0}
      /\ proc[p].put \in Inums \cup {0} /\ proc[p].later \in Inums \cup {0}
      /\ proc[p].path \in Seq(Links)
  BY <1>2 DEF Process
<1>4. proc[p].put = 0 => proc[p].later = 0 /\ proc[p].freeing = "no"
  BY <1>1 DEF ProcInv, PlaceOK
<1>5. ref \in [Inums -> Int] /\ cwd[p] \in Inums /\ fd[p] \in Inums \cup {0}
  BY <1>1 DEF TypeInv, TypeOK
<1> QED
  BY <1>1, <1>2, <1>3, <1>4, <1>5, Basics DEF ProcInv, TypeInv, TypeOK

LEMMA CountsSame ==
  ASSUME IInv, NEW p, nlink' = nlink
  PROVE  Counts(p)
BY DEF Counts, IInv, RefInv, TypeInv, TypeOK

LinkIn(r) == IF r.call = "link" THEN r.ip ELSE 0
DropIn(r) == IF r.pc = "drop" THEN r.ip ELSE 0

\* Such steps that change neither flags nor links.
LEMMA PlainStep ==
  ASSUME IInv, panic = "none", UNCHANGED <<tree, busy, panic, lost, dangling>>, NEW p \in Procs,
         NEW a \in Inums \cup {0}, NEW b \in Inums \cup {0}, a = b => a = 0,
         NEW refs \in [Inums -> Int], NEW r \in Process, Drops(p, a, b, refs, r),
         proc[p].put = 0, r.freeing = "no",
         proc[p].pc \notin Entering \cup {"drop"}, r.pc \notin Entering \cup {"drop"},
         LinkIn(r) = LinkOf(p),
         cwd' \in [Procs -> Inums], fd' \in [Procs -> Inums \cup {0}],
         \A q \in Procs \ {p} : cwd'[q] = cwd[q] /\ fd'[q] = fd[q],
         Balance(p, a, b, refs, r), Knows(p, a, b, r), Shuns(p, a, b, r),
         PlaceOK(p)', DirOK(p)', InUseTyped(p)'
  PROVE  IInv'
<1>1. /\ TypeInv /\ BusyInv /\ proc[p].later = 0 /\ proc[p].freeing = "no"
      /\ proc \in [Procs -> Process]
  BY Here
<1>2. Dropped(p, a, b, refs, r)
  BY <1>1, DropsEffect
<1>3. Flags(p, r)
  <2>1. \A i \in Inums : busy[i] # p
    BY <1>1 DEF BusyInv, Locks
  <2> QED
    BY <1>1, <2>1 DEF Flags, TypeInv, TypeOK
<1>4. Counts(p)
  BY CountsSame DEF tree
<1>5. Only(p)
  BY <1>2 DEF Only, Dropped
<1>6. LinksCounted'
  <2>1. LinkOf(p)' = LinkOf(p) /\ DropOf(p)' = DropOf(p)
    BY <1>2 DEF LinkOf, LinkIn, DropOf, Dropped
  <2> QED
    BY <1>1, <1>5, <2>1, LinkSame DEF IInv
<1>7. UNCHANGED <<type, ents, panic, lost, dangling>> /\ proc[p].pc # "init" /\ r.pc \notin {"init", "ialloc", "child"}
  BY DEF tree, Entering
<1> QED
  BY <1>3, <1>4, <1>6, <1>7, DropStep

\* The end of a call.
Settles(p, a, b) ==
  /\ \A i \in Inums : One(a = i) + One(b = i) = Base(p, i) - One(cwd'[p] = i) - One(fd'[p] = i)
  /\ \A i \in Inums : i \in {a, b, cwd'[p], fd'[p]} => Found(p, i)
  /\ \A x \in Inums : Shunned(p, x) => x \notin {a, b, cwd'[p], fd'[p]}

LEMMA IdleProcess == Idle \in Process /\ Idle.pc = "user" /\ Idle.call = "open" /\ Idle.cur = 0
                     /\ Idle.ip = 0 /\ Idle.put = 0 /\ Idle.later = 0 /\ Idle.freeing = "no"
<1>1. <<>> \in Seq(Links)
  OBVIOUS
<1> QED
  BY <1>1 DEF Idle, Process, Places, Calls

LEMMA IdleSettles ==
  ASSUME IInv, panic = "none", NEW p \in Procs, NEW a, NEW b, Settles(p, a, b)
  PROVE  Balance(p, a, b, ref, Idle) /\ Knows(p, a, b, Idle) /\ Shuns(p, a, b, Idle)
<1>1. Idle.cur = 0 /\ Idle.ip = 0
  BY IdleProcess
<1>2. ASSUME NEW i \in Inums
      PROVE  ref[i] - One(a = i) - One(b = i) = ref[i] - Base(p, i) 
                + One(cwd'[p] = i) + One(fd'[p] = i) + One(Idle.cur = i) + One(Idle.ip = i)
  <2>1. ref[i] \in Int /\ i # 0
    BY Here
  <2>2. One(Idle.cur = i) = 0 /\ One(Idle.ip = i) = 0
    BY <1>1, <2>1 DEF One
  <2>3. /\ Base(p, i) \in Int /\ One(a = i) \in Int /\ One(b = i) \in Int
        /\ One(cwd'[p] = i) \in Int /\ One(fd'[p] = i) \in Int
    BY DEF Base, One
  <2>4. One(a = i) + One(b = i) = Base(p, i) - One(cwd'[p] = i) - One(fd'[p] = i)
    BY DEF Settles
  <2>5. ref[i] - One(a = i) - One(b = i) = ref[i] - (One(a = i) + One(b = i))
    BY <2>1, <2>3
  <2>6. ref[i] - (Base(p, i) - One(cwd'[p] = i) - One(fd'[p] = i))
          = ref[i] - Base(p, i) + One(cwd'[p] = i) + One(fd'[p] = i)
    BY <2>1, <2>3
  <2>7. \A x \in Int : x + 0 + 0 = x
    OBVIOUS
  <2>8. ref[i] - Base(p, i) + One(cwd'[p] = i) + One(fd'[p] = i) \in Int
    BY <2>1, <2>3
  <2> QED
    BY <2>2, <2>4, <2>5, <2>6, <2>7, <2>8
<1>3. 0 \notin Inums
  BY Here
<1> QED
  BY <1>1, <1>2, <1>3 DEF Balance, Knows, Shuns, Settles

LEMMA IdleOK ==
  ASSUME IInv, panic = "none", NEW p \in Procs, NEW a, NEW b, 
         NEW refs, Dropped(p, a, b, refs, Idle)
  PROVE  PlaceOK(p)' /\ DirOK(p)'
<1>1. /\ proc'[p].pc = "user" /\ proc'[p].call = "open" /\ proc'[p].cur = 0
      /\ proc'[p].ip = 0 /\ proc'[p].freeing = "no" 
      /\ proc'[p].put = 0 => proc'[p].later = 0
  BY IdleProcess DEF Dropped
<1> QED
  BY <1>1 DEF PlaceOK, DirOK, StopsEarly, Parent, Creates, Walking, Entering

LEMMA ReturnStep ==
  ASSUME IInv, panic = "none", UNCHANGED <<tree, busy, panic, lost, dangling>>, NEW p \in Procs,
         NEW a \in Inums \cup {0}, NEW b \in Inums \cup {0}, a = b => a = 0,
         Return(p, a, b), proc[p].put = 0,
         proc[p].pc \notin Entering \cup {"drop"}, LinkOf(p) = 0,
         cwd' \in [Procs -> Inums], fd' \in [Procs -> Inums \cup {0}],
         \A q \in Procs \ {p} : cwd'[q] = cwd[q] /\ fd'[q] = fd[q],
         Settles(p, a, b), InUseTyped(p)'
  PROVE  IInv'
<1>1. ref \in [Inums -> Int] /\ proc \in [Procs -> Process]
  BY Here
<1>2. Idle \in Process /\ Idle.pc \notin Entering \cup {"drop"} /\ Idle.freeing = "no" 
      /\ LinkIn(Idle) = LinkOf(p)
  BY IdleProcess DEF Entering, LinkIn
<1>3. Drops(p, a, b, ref, Idle)
  BY DEF Return
<1>4. Balance(p, a, b, ref, Idle) /\ Knows(p, a, b, Idle) /\ Shuns(p, a, b, Idle)
  BY IdleSettles
<1>5. PlaceOK(p)' /\ DirOK(p)'
  <2>1. Dropped(p, a, b, ref, Idle)
    BY <1>1, <1>2, <1>3, DropsEffect
  <2> QED
    BY <2>1, IdleOK
<1> QED
  BY <1>1, <1>2, <1>3, <1>4, <1>5, PlainStep
-----------------------------------------------------------------------------
\* A step without iput is one that drops nothing.
LEMMA DropsNone ==
  ASSUME proc \in [Procs -> Process], NEW p \in Procs, NEW refs \in [Inums -> Int], NEW r \in Process, 
         r.put = 0, r.later = 0, ref' = refs, proc' = [proc EXCEPT ![p] = r]
  PROVE  Drops(p, 0, 0, refs, r)
<1>1. 0 \notin Inums
  BY Basics
<1>2. ref' = [i \in Inums |-> refs[i]]
  OBVIOUS
<1>3. [r EXCEPT !.put = 0, !.later = 0] = r
  BY DEF Process
<1> QED
  BY <1>1, <1>2, <1>3 DEF Drops

LEMMA GetOne ==
  ASSUME ref \in [Inums -> Int], NEW j \in Inums
  PROVE  /\ Get(j) \in [Inums -> Int]
         /\ \A i \in Inums : Get(j)[i] = ref[i] + One(j = i)
BY DEF Get, One

LEMMA PathOK ==
  ASSUME NEW q, IsPath(q)
  PROVE  q.names \in Seq(Links)
BY DEF IsPath, Links

LEMMA StartOK ==
  ASSUME IInv, panic = "none", NEW p \in Procs, NEW path
  PROVE  Start(p, path) \in Inums /\ Start(p, path) \in {Root, cwd[p]} /\ Found(p, Start(p, path))
BY Here, Basics DEF Start, Found, Held

LEMMA CallStep ==
  ASSUME IInv, NEW p \in Procs, Call(p)
  PROVE  IInv'
<1>1. panic = "none" /\ proc[p].pc = "user" /\ proc[p].put = 0
  BY DEF Call, At
<1> PICK call \in Calls : \E path \in Paths[call] :
        /\ Parent(call) => path.names # <<>>
        /\ proc' = [proc EXCEPT ![p] = [Idle EXCEPT !.pc = AfterStart(path), !.call = call,
                                                    !.cur = Start(p, path), !.path = path.names]]
        /\ ref' = Get(Start(p, path))
  BY DEF Call
<1>2. PICK path \in Paths[call] :
        /\ Parent(call) => path.names # <<>>
        /\ proc' = [proc EXCEPT ![p] = [Idle EXCEPT !.pc = AfterStart(path), !.call = call,
                                                    !.cur = Start(p, path), !.path = path.names]]
        /\ ref' = Get(Start(p, path))
  OBVIOUS
<1> DEFINE r == [Idle EXCEPT !.pc = AfterStart(path), !.call = call, !.cur = Start(p, path), !.path = path.names]
           s == Start(p, path)
<1>3. s \in Inums /\ s \in {Root, cwd[p]} /\ Found(p, s)
  BY <1>1, StartOK
<1>4. /\ path.names \in Seq(Links)
      /\ AfterStart(path) \in Walking /\ (AfterStart(path) = "walk" <=> path.names # <<>>)
  BY PathAssumption, PathOK DEF AfterStart, Walking
<1>5. /\ r \in Process /\ r.pc = AfterStart(path) /\ r.pc \in Walking /\ r.call = call /\ r.cur = s /\ r.path = path.names
      /\ r.ip = 0 /\ r.put = 0 /\ r.later = 0 /\ r.freeing = "no"
  BY <1>3, <1>4, IdleProcess DEF Idle, Process, Places, Walking
<1> HIDE DEF r, s
<1>6. /\ proc[p].cur = 0 /\ proc[p].ip = 0 /\ ref \in [Inums -> Int] /\ proc \in [Procs -> Process]
      /\ cwd[p] \in Inums /\ fd[p] \in Inums \cup {0} /\ 0 \notin Inums /\ TypeInv /\ InUseTyped(p)
  BY <1>1, Here DEF PlaceOK, Walking, Entering
<1>7. Get(s) \in [Inums -> Int] /\ \A i \in Inums : Get(s)[i] = ref[i] + One(s = i)
  BY <1>3, <1>6, GetOne
<1>8. Drops(p, 0, 0, Get(s), r)
  <2>1. ref' = Get(s) /\ proc' = [proc EXCEPT ![p] = r]
    BY <1>2 DEF r, s
  <2> QED
    BY <1>5, <1>6, <1>7, <2>1, DropsNone
<1>9. UNCHANGED <<tree, busy, cwd, fd, panic, lost, dangling>>
  BY DEF Call
<1>10. Balance(p, 0, 0, Get(s), r)
  <2>1. ASSUME NEW i \in Inums
        PROVE  Get(s)[i] - One(0 = i) - One(0 = i) = ref[i] - Base(p, i) 
                 + One(cwd'[p] = i) + One(fd'[p] = i) + One(r.cur = i) + One(r.ip = i)
    <3>1. Get(s)[i] = ref[i] + One(s = i) /\ ref[i] \in Int /\ i # 0
      BY <1>6, <1>7
    <3> QED
      BY <1>5, <1>6, <1>9, <3>1 DEF Base, One
  <2> QED
    BY <2>1 DEF Balance
<1>11. Knows(p, 0, 0, r) /\ Shuns(p, 0, 0, r)
  BY <1>3, <1>5, <1>6, <1>9 DEF Knows, Shuns, Shunned, Found, Held, Walking
<1>12. PlaceOK(p)' /\ DirOK(p)' /\ InUseTyped(p)'
  <2>1. Dropped(p, 0, 0, Get(s), r)
    BY <1>5, <1>6, <1>7, <1>8, DropsEffect
  <2>2. /\ proc'[p].pc \in Walking /\ proc'[p].cur # 0 /\ proc'[p].call = call
        /\ proc'[p].pc = "walk" => proc'[p].path # <<>>
        /\ Parent(call) => proc'[p].pc = "walk"
        /\ proc'[p].ip = 0 /\ proc'[p].freeing = "no"
        /\ proc'[p].put = 0 => proc'[p].later = 0
    BY <1>2, <1>3, <1>4, <1>5, <1>6, <2>1 DEF Dropped
  <2>3. (StopsEarly(p)' => Parent(call))
    BY <2>2 DEF StopsEarly, Parent
  <2>4. PlaceOK(p)'
    BY <2>2, <2>3 DEF PlaceOK, Walking, Entering
  <2>5. DirOK(p)'
    <3>1. StopsEarly(p)' => proc'[p].pc # "found"
      BY <2>2, <2>3
    <3> QED
      BY <2>2, <3>1 DEF DirOK, Walking, Entering
  <2> QED
    BY <1>6, <1>9, <2>4, <2>5 DEF InUseTyped, tree
<1>13. LinkIn(r) = LinkOf(p)
  BY <1>5, <1>6 DEF LinkIn, LinkOf
<1>14. r.pc \notin Entering \cup {"drop"} /\ proc[p].pc \notin Entering \cup {"drop"}
  BY <1>1, <1>5 DEF Entering, Walking
<1>15. cwd' \in [Procs -> Inums] /\ fd' \in [Procs -> Inums \cup {0}]
  BY <1>6, <1>9 DEF TypeInv, TypeOK
<1> QED
  BY <1>1, <1>5, <1>7, <1>8, <1>9, <1>10, <1>11, <1>12, <1>13, <1>14, <1>15, PlainStep

LEMMA CloseStep ==
  ASSUME IInv, NEW p \in Procs, Close(p)
  PROVE  IInv'
<1>1. /\ panic = "none" /\ proc[p].pc = "user" /\ proc[p].put = 0 /\ fd[p] # 0
      /\ fd' = [fd EXCEPT ![p] = 0] /\ UNCHANGED <<tree, busy, cwd, panic, lost, dangling>>
      /\ Return(p, fd[p], 0)
  BY DEF Close, At
<1>2. /\ proc[p].cur = 0 /\ proc[p].ip = 0 /\ TypeInv /\ InUseTyped(p)
      /\ cwd[p] \in Inums /\ fd[p] \in Inums /\ 0 \notin Inums
  BY <1>1, Here DEF PlaceOK, Walking, Entering
<1>3. cwd' = cwd /\ fd'[p] = 0 /\ fd' \in [Procs -> Inums \cup {0}] /\ \A q \in Procs \ {p} : fd'[q] = fd[q]
  BY <1>1, <1>2 DEF TypeInv, TypeOK
<1>4. Settles(p, fd[p], 0)
  <2>1. ASSUME NEW i \in Inums
        PROVE  One(fd[p] = i) + One(0 = i) = Base(p, i) - One(cwd'[p] = i) - One(fd'[p] = i)
    BY <1>2, <1>3 DEF Base, One
  <2> QED
    BY <1>2, <1>3, <2>1 DEF Settles, Found, Held, Shunned
<1>5. InUseTyped(p)'
  BY <1>1, <1>2, <1>3 DEF InUseTyped, tree
<1>6. proc[p].pc \notin Entering \cup {"drop"} /\ LinkOf(p) = 0 /\ cwd' \in [Procs -> Inums]
  BY <1>1, <1>2, <1>3 DEF Entering, LinkOf, TypeInv, TypeOK
<1> QED
  BY <1>1, <1>2, <1>3, <1>4, <1>5, <1>6, ReturnStep
-----------------------------------------------------------------------------
\* A process that goes on dropping: the rest of its record stays.
SameCall(p) == /\ proc'[p].pc = proc[p].pc /\ proc'[p].call = proc[p].call
               /\ proc'[p].cur = proc[p].cur /\ proc'[p].ip = proc[p].ip
               /\ proc'[p].path = proc[p].path

LEMMA SameCallOK ==
  ASSUME IInv, NEW p \in Procs, panic = "none", SameCall(p), UNCHANGED <<tree, lost, dangling>>, 
         proc'[p].put = 0 => proc'[p].later = 0 /\ proc'[p].freeing = "no",
         proc[p].put # 0,
         proc[p].pc = "drop" /\ proc'[p].freeing # "no" => proc[p].ip # proc'[p].put
  PROVE  /\ PlaceOK(p)' /\ DirOK(p)'
         /\ LinkOf(p)' = LinkOf(p) /\ DropOf(p)' = DropOf(p)
         /\ proc[p].pc # "init" /\ proc'[p].pc # "init"
<1>1. PlaceOK(p) /\ DirOK(p)
  BY Here
<1>2. proc[p].pc \notin Entering
  BY <1>1 DEF PlaceOK
<1>3. PlaceOK(p)'
  BY <1>1, <1>2 DEF PlaceOK, SameCall, StopsEarly, Parent, Creates, LastName
<1>4. DirOK(p)'
  BY <1>1, <1>2 DEF DirOK, SameCall, StopsEarly, Parent, Entering, tree
<1> QED
  BY <1>2, <1>3, <1>4 DEF SameCall, LinkOf, DropOf, Entering

\* One reference less and its inode no longer to be dropped.
LEMMA PutNextEffect ==
  ASSUME IInv, NEW p \in Procs, panic = "none", UNCHANGED <<cwd, fd>>,
         proc[p].put # 0, ref' = [ref EXCEPT ![proc[p].put] = @ - 1],
         proc' = [proc EXCEPT ![p] = PutNext(@)]
  PROVE  /\ Only(p) /\ RefMoves(p) /\ SameCall(p)
         /\ proc'[p].put = proc[p].later /\ proc'[p].later = 0 /\ proc'[p].freeing = "no"
<1> DEFINE i == proc[p].put
<1>1. /\ TypeInv /\ proc \in [Procs -> Process] /\ proc[p] \in Process /\ i \in Inums 
      /\ proc[p].later \in Inums \cup {0} /\ ref \in [Inums -> Int] /\ 0 \notin Inums
  BY Here
<1>2. /\ PutNext(proc[p]) \in Process /\ SameCall(p)
      /\ proc'[p].put = proc[p].later /\ proc'[p].later = 0 /\ proc'[p].freeing = "no"
  BY <1>1 DEF PutNext, Process, SameCall
<1>3. Only(p)
  BY <1>1, <1>2 DEF Only, TypeInv, TypeOK
<1>4. ASSUME NEW j \in Inums PROVE ref'[j] = ref[j] - Mine(p, j) + Mine(p, j)'
  <2>1. ref'[j] = ref[j] - One(i = j) /\ ref[j] \in Int
    BY <1>1 DEF One
  <2> DEFINE m == One(cwd[p] = j) + One(fd[p] = j) + One(proc[p].cur = j) + One(proc[p].ip = j)
  <2>2. m \in Int /\ One(i = j) \in Int /\ One(proc[p].later = j) \in Int /\ One(0 = j) = 0
    BY <1>1 DEF One
  <2>3. Mine(p, j) = m + One(i = j) + One(proc[p].later = j)
    BY DEF Mine
  <2>4. Mine(p, j)' = m + One(proc[p].later = j) + One(0 = j)
    BY <1>2 DEF Mine, SameCall
  <2> HIDE DEF m, i
  <2> QED
    BY <2>1, <2>2, <2>3, <2>4
<1> QED
  BY <1>1, <1>2, <1>3, <1>4 DEF RefMoves

LEMMA LastHolder ==
  ASSUME IInv, NEW p \in Procs, panic = "none", NEW i \in Inums, ref[i] = 1, Mine(p, i) >= 1
  PROVE  Mine(p, i) = 1 /\ \A q \in Procs : q # p => Mine(q, i) = 0
<1>1. TypeInv /\ Holders(i) = 1
  BY DEF IInv, RefInv
<1>2. /\ Holders(i) \in Nat /\ Holders(i) >= Mine(p, i)
      /\ \A q \in Procs : q # p => Holders(i) >= Mine(p, i) + Mine(q, i)
  BY <1>1, Sole
<1>3. Mine(p, i) \in Nat /\ \A q \in Procs : Mine(q, i) \in Nat
  BY <1>1, HeldMine
<1> QED
  BY <1>1, <1>2, <1>3

LEMMA MineNone ==
  ASSUME NEW p, NEW i, Mine(p, i) = 0
  PROVE  /\ cwd[p] # i /\ fd[p] # i /\ proc[p].cur # i /\ proc[p].ip # i
         /\ proc[p].put # i /\ proc[p].later # i
BY DEF Mine, One

LEMMA MineOne ==
  ASSUME NEW p, NEW i, Mine(p, i) = 1, proc[p].put = i
  PROVE  cwd[p] # i /\ fd[p] # i /\ proc[p].cur # i /\ proc[p].ip # i /\ proc[p].later # i
BY DEF Mine, One

LEMMA IputStep ==
  ASSUME IInv, NEW p \in Procs, Iput(p)
  PROVE  IInv'
<1> DEFINE i == proc[p].put
<1>1. panic = "none" /\ i # 0 /\ proc[p].freeing = "no"
  BY DEF Iput
<1>2. /\ TypeInv /\ BusyInv /\ PlaceOK(p) /\ proc \in [Procs -> Process] /\ proc[p] \in Process /\ i \in Inums 
      /\ proc[p].later \in Inums \cup {0} /\ ref \in [Inums -> Int] /\ 0 \notin Inums
      /\ InUseTyped(p) /\ RefTyped(p)
  BY <1>1, Here
<1>3. proc[p].pc \notin Entering
  BY <1>1, <1>2 DEF PlaceOK
<1>4. Held(p, i) /\ Mine(p, i) >= 1
  BY <1>1, <1>2, HeldMine DEF Held
<1>5. CASE /\ ~LastRef(ref, nlink, i)
           /\ ref' = [ref EXCEPT ![i] = @ - 1]
           /\ proc' = [proc EXCEPT ![p] = PutNext(@)]
           /\ UNCHANGED <<tree, busy, cwd, fd, panic, lost, dangling>>
  <2>1. /\ Only(p) /\ RefMoves(p) /\ SameCall(p)
        /\ proc'[p].put = proc[p].later /\ proc'[p].later = 0 /\ proc'[p].freeing = "no"
    BY <1>1, <1>5, PutNextEffect
  <2>2. /\ PlaceOK(p)' /\ DirOK(p)' /\ LinkOf(p)' = LinkOf(p) /\ DropOf(p)' = DropOf(p)
        /\ proc[p].pc # "init" /\ proc'[p].pc # "init"
    BY <1>1, <1>5, <2>1, SameCallOK
  <2>3. LinksCounted'
    BY <1>2, <1>5, <2>1, <2>2, LinkSame DEF IInv
  <2>4. BusyMoves(p)
    BY <1>1, <1>2, <1>5, <2>1 DEF BusyMoves, BusyInv, Locks, SameCall, TypeInv, TypeOK
  <2>5. Finds(p)
    BY <1>1, <1>2, <1>5, <2>1 DEF Finds, Held, SameCall
  <2>6. Counts(p)
    BY <1>5, CountsSame DEF tree
  <2>7. InUseTyped(p)' /\ FreeInv(p)'
    BY <1>2, <1>5, <2>1 DEF InUseTyped, FreeInv, tree
  <2>8. ASSUME NEW q \in Procs \ {p}, proc[q].freeing = "itrunc"
        PROVE  FreeFor(q, proc[q].put, p)'
    <3>1. Shunned(p, proc[q].put) /\ proc'[q] = proc[q] /\ proc[q].put \in Inums
      BY <2>1, <2>8, FreedShunned DEF Only
    <3> QED
      BY <1>2, <1>5, <2>1, <3>1 DEF Shunned, FreeFor, SameCall
  <2> QED
    BY <1>1, <1>5, <2>1, <2>2, <2>3, <2>4, <2>5, <2>6, <2>7, <2>8, QuietStep DEF tree
<1>6. CASE /\ LastRef(ref, nlink, i) /\ CanLock(i)
           /\ busy' = [busy EXCEPT ![i] = p]
           /\ proc' = [proc EXCEPT ![p].freeing = "itrunc"]
           /\ UNCHANGED <<tree, ref, cwd, fd, panic, lost, dangling>>
  <2>0. ref[i] = 1 /\ nlink[i] = 0 /\ busy[i] = None
    BY <1>6 DEF LastRef, CanLock
  <2>1. /\ SameCall(p) /\ proc'[p].put = i /\ proc'[p].later = proc[p].later
        /\ proc'[p].freeing = "itrunc"
        /\ proc' \in [Procs -> Process] /\ \A q \in Procs \ {p} : proc'[q] = proc[q]
    BY <1>2, <1>6 DEF SameCall, Process
  <2>2. Only(p)
    BY <1>2, <1>6, <2>1 DEF Only, TypeInv, TypeOK
  <2>3. RefMoves(p)
    <3>1. ASSUME NEW j \in Inums PROVE ref'[j] = ref[j] - Mine(p, j) + Mine(p, j)'
      <4>1. Mine(p, j)' = Mine(p, j)
        BY <1>6, <2>1 DEF Mine, SameCall
      <4>2. Mine(p, j) \in Int /\ ref[j] \in Int
        BY <1>2, HeldMine
      <4> QED
        BY <1>6, <4>1, <4>2
    <3> QED
      BY <1>2, <1>6, <3>1 DEF RefMoves
  <2>4. /\ Mine(p, i) = 1 /\ \A q \in Procs : q # p => Mine(q, i) = 0
    BY <1>1, <1>2, <1>4, <2>0, LastHolder
  <2>5. cwd[p] # i /\ fd[p] # i /\ proc[p].cur # i /\ proc[p].ip # i /\ proc[p].later # i
    BY <2>4, MineOne
  <2>6. FreeInv(p)'
    <3>1. type[i] # "free"
      BY <1>2, <1>4 DEF RefTyped
    <3>2. i # Root
      BY <1>2, <2>0, <3>1, NoEntry
    <3>3. ASSUME NEW q \in Procs PROVE FreeFor(p, i, q)'
      <4>1. CASE q = p
        BY <1>6, <2>1, <2>5, <4>1 DEF FreeFor, SameCall
      <4>2. CASE q # p
        <5>1. Mine(q, i) = 0 /\ proc'[q] = proc[q]
          BY <2>1, <2>4, <4>2
        <5>2. /\ cwd[q] # i /\ fd[q] # i /\ proc[q].cur # i /\ proc[q].ip # i
              /\ proc[q].put # i /\ proc[q].later # i
          BY <5>1, MineNone
        <5> QED
          BY <1>6, <2>1, <5>1, <5>2 DEF FreeFor
      <4> QED
        BY <4>1, <4>2
    <3> QED
      BY <1>6, <2>0, <2>1, <3>1, <3>2, <3>3 DEF FreeInv, tree
  <2>7. /\ PlaceOK(p)' /\ DirOK(p)' /\ LinkOf(p)' = LinkOf(p) /\ DropOf(p)' = DropOf(p)
        /\ proc[p].pc # "init" /\ proc'[p].pc # "init"
    BY <1>1, <1>6, <2>1, <2>5, SameCallOK
  <2>8. LinksCounted'
    BY <1>2, <1>6, <2>2, <2>7, LinkSame DEF IInv
  <2>9. BusyMoves(p)
    <3>1. ASSUME NEW j \in Inums
          PROVE  /\ busy'[j] = busy[j] \/ (busy[j] \in {p, None} /\ busy'[j] \in {p, None})
                 /\ busy'[j] = p <=> Locks(p, j)'
      <4>1. busy[j] = p <=> Locks(p, j)
        BY <1>2 DEF BusyInv
      <4>2. busy'[j] = IF j = i THEN p ELSE busy[j]
        BY <1>2, <1>6 DEF TypeInv, TypeOK
      <4> QED
        BY <1>1, <1>2, <2>0, <2>1, <4>1, <4>2 DEF Locks, SameCall
    <3>2. busy' \in [Inums -> Procs \cup {None}]
      BY <1>2, <1>6 DEF TypeInv, TypeOK
    <3> QED
      BY <3>1, <3>2 DEF BusyMoves
  <2>10. Finds(p)
    BY <1>1, <1>2, <1>6, <2>1 DEF Finds, Held, SameCall
  <2>11. Counts(p)
    BY <1>6, CountsSame DEF tree
  <2>12. InUseTyped(p)'
    BY <1>2, <1>6, <2>1 DEF InUseTyped, tree
  <2>13. ASSUME NEW q \in Procs \ {p}, proc[q].freeing = "itrunc"
         PROVE  FreeFor(q, proc[q].put, p)'
    <3>1. Shunned(p, proc[q].put) /\ proc'[q] = proc[q] /\ proc[q].put \in Inums
      BY <2>1, <2>13, FreedShunned
    <3> QED
      BY <1>6, <2>1, <3>1 DEF Shunned, FreeFor, SameCall
  <2> QED
    BY <1>1, <1>6, <2>2, <2>3, <2>6, <2>7, <2>8, <2>9, <2>10, <2>11, <2>12, <2>13, QuietStep DEF tree
<1>7. CASE LastRef(ref, nlink, i) /\ ~CanLock(i)
  <2>1. ref[i] = 1 /\ busy[i] # None
    BY <1>7 DEF LastRef, CanLock
  <2>2. PICK q \in Procs : busy[i] = q
    BY <1>2, <2>1 DEF TypeInv, TypeOK
  <2>3. Locks(q, i)
    BY <1>2, <2>2 DEF BusyInv
  <2>4. Mine(p, i) = 1 /\ \A o \in Procs : o # p => Mine(o, i) = 0
    BY <1>1, <1>2, <1>4, <2>1, LastHolder
  <2>5. proc[q].cur = i \/ proc[q].ip = i \/ (proc[q].put = i /\ q # p)
    BY <1>1, <2>3 DEF Locks
  <2>6. CASE q = p
    BY <2>4, <2>5, <2>6, MineOne
  <2>7. CASE q # p
    <3>1. Mine(q, i) = 0
      BY <2>4, <2>7
    <3> QED
      BY <2>5, <3>1, MineNone
  <2> QED
    BY <2>6, <2>7
<1> QED
  BY <1>5, <1>6, <1>7 DEF Iput

LEMMA IputReturnsStep ==
  ASSUME IInv, NEW p \in Procs, IputReturns(p)
  PROVE  IInv'
<1> DEFINE i == proc[p].put
<1>1. /\ panic = "none" /\ proc[p].freeing = "flags"
      /\ busy' = [busy EXCEPT ![i] = None] /\ ref' = [ref EXCEPT ![i] = @ - 1]
      /\ proc' = [proc EXCEPT ![p] = PutNext(@)]
      /\ UNCHANGED <<tree, cwd, fd, panic, lost, dangling>>
  BY DEF IputReturns
<1>2. /\ TypeInv /\ BusyInv /\ PlaceOK(p) /\ InUseTyped(p) /\ 0 \notin Inums
      /\ i \in Inums /\ proc[p].later \in Inums \cup {0}
  BY <1>1, Here DEF PlaceOK
<1>3. proc[p].pc \notin Entering /\ (proc[p].pc = "drop" => proc[p].ip # i)
  BY <1>1, <1>2 DEF PlaceOK
<1>4. /\ Only(p) /\ RefMoves(p) /\ SameCall(p)
      /\ proc'[p].put = proc[p].later /\ proc'[p].later = 0 /\ proc'[p].freeing = "no"
  BY <1>1, <1>2, PutNextEffect
<1>5. /\ PlaceOK(p)' /\ DirOK(p)' /\ LinkOf(p)' = LinkOf(p) /\ DropOf(p)' = DropOf(p)
      /\ proc[p].pc # "init" /\ proc'[p].pc # "init"
  BY <1>1, <1>2, <1>4, SameCallOK
<1>6. LinksCounted'
  BY <1>1, <1>2, <1>4, <1>5, LinkSame DEF IInv
<1>7. BusyMoves(p)
  <2>1. ASSUME NEW j \in Inums
        PROVE  /\ busy'[j] = busy[j] \/ (busy[j] \in {p, None} /\ busy'[j] \in {p, None})
               /\ busy'[j] = p <=> Locks(p, j)'
    <3>1. busy[j] = p <=> Locks(p, j)
      BY <1>2 DEF BusyInv
    <3>2. busy'[j] = IF j = i THEN None ELSE busy[j]
      BY <1>1, <1>2 DEF TypeInv, TypeOK
    <3>3. busy[i] = p
      BY <1>1, <1>2 DEF BusyInv, Locks
    <3> QED
      BY <1>1, <1>2, <1>3, <1>4, <3>1, <3>2, <3>3, Basics DEF Locks, SameCall
  <2>2. busy' \in [Inums -> Procs \cup {None}]
    BY <1>1, <1>2 DEF TypeInv, TypeOK
  <2> QED
    BY <2>1, <2>2 DEF BusyMoves
<1>8. Finds(p)
  BY <1>1, <1>2, <1>4 DEF Finds, Held, SameCall
<1>9. Counts(p)
  BY <1>1, CountsSame DEF tree
<1>10. InUseTyped(p)' /\ FreeInv(p)'
  BY <1>1, <1>2, <1>4 DEF InUseTyped, FreeInv, tree
<1>11. ASSUME NEW q \in Procs \ {p}, proc[q].freeing = "itrunc"
      PROVE  FreeFor(q, proc[q].put, p)'
  <2>1. Shunned(p, proc[q].put) /\ proc'[q] = proc[q] /\ proc[q].put \in Inums
    BY <1>4, <1>11, FreedShunned DEF Only
  <2> QED
    BY <1>1, <1>2, <1>4, <2>1 DEF Shunned, FreeFor, SameCall
<1> QED
  BY <1>1, <1>4, <1>5, <1>6, <1>7, <1>8, <1>9, <1>10, <1>11, QuietStep DEF tree
-----------------------------------------------------------------------------
\* What p may lock is not being truncated, and what it refers to is not free.
LEMMA NotShunned ==
  ASSUME NEW p, NEW x, CanLock(x)
  PROVE  ~Shunned(p, x)
BY DEF CanLock, Shunned

LEMMA HasType ==
  ASSUME IInv, NEW p \in Procs, panic = "none", NEW i \in Inums, Held(p, i)
  PROVE  ~NoType(i)
BY Here DEF RefTyped, NoType

LEMMA PathParts ==
  ASSUME NEW s \in Seq(Links), s # <<>>
  PROVE  /\ Head(s) \in Links /\ Tail(s) \in Seq(Links)
         /\ Len(s) # 1 => Tail(s) # <<>>
<1>1. Len(s) \in Nat /\ Len(s) # 0
  OBVIOUS
<1>2. Head(s) \in Links /\ Tail(s) \in Seq(Links) /\ Len(Tail(s)) = Len(s) - 1
  BY <1>1
<1>3. Len(<<>>) = 0
  OBVIOUS
<1>4. Tail(s) = <<>> => Len(s) = 1
  <2> SUFFICES ASSUME Tail(s) = <<>> PROVE Len(s) = 1
    OBVIOUS
  <2>1. Len(s) - 1 = 0
    BY <1>2, <1>3
  <2> QED
    BY <1>1, <2>1
<1> QED
  BY <1>2, <1>4

\* A call that ends and drops the inode it has reached.
LEMMA ReturnCur ==
  ASSUME IInv, NEW p \in Procs, panic = "none", proc[p].put = 0,
         proc[p].pc \in Walking, proc[p].ip = 0, CanLock(proc[p].cur),
         UNCHANGED <<tree, busy, cwd, fd, panic, lost, dangling>>, Return(p, proc[p].cur, 0)
  PROVE  IInv'
<1>1. /\ TypeInv /\ InUseTyped(p) /\ 0 \notin Inums /\ proc[p].cur \in Inums
      /\ cwd[p] \in Inums /\ fd[p] \in Inums \cup {0}
  BY Here DEF PlaceOK
<1>2. Settles(p, proc[p].cur, 0)
  <2>1. ASSUME NEW i \in Inums
        PROVE  One(proc[p].cur = i) + One(0 = i) = Base(p, i) - One(cwd'[p] = i) - One(fd'[p] = i)
    BY <1>1 DEF Base, One
  <2>2. ~Shunned(p, proc[p].cur)
    BY NotShunned
  <2> QED
    BY <1>1, <2>1, <2>2 DEF Settles, Found, Held, Shunned
<1>3. InUseTyped(p)'
  BY <1>1 DEF InUseTyped, tree
<1>4. /\ proc[p].pc \notin Entering \cup {"drop"} /\ LinkOf(p) = 0
      /\ cwd' \in [Procs -> Inums] /\ fd' \in [Procs -> Inums \cup {0}]
      /\ \A q \in Procs \ {p} : cwd'[q] = cwd[q] /\ fd'[q] = fd[q]
  BY <1>1 DEF Entering, Walking, LinkOf, TypeInv, TypeOK
<1> QED
  BY <1>1, <1>2, <1>3, <1>4, ReturnStep

LEMMA ReturnIp ==
  ASSUME IInv, NEW p \in Procs, panic = "none", proc[p].put = 0,
         proc[p].pc = "exists", CanLock(proc[p].ip),
         UNCHANGED <<tree, busy, cwd, fd, panic, lost, dangling>>, Return(p, proc[p].ip, 0)
  PROVE  IInv'
<1>1. /\ TypeInv /\ InUseTyped(p) /\ 0 \notin Inums /\ proc[p].ip \in Inums /\ proc[p].cur = 0
      /\ cwd[p] \in Inums /\ fd[p] \in Inums \cup {0} /\ LinkOf(p) = 0
  BY Here DEF PlaceOK, Walking, Entering, LinkOf
<1>2. Settles(p, proc[p].ip, 0)
  <2>1. ASSUME NEW i \in Inums
        PROVE  One(proc[p].ip = i) + One(0 = i) = Base(p, i) - One(cwd'[p] = i) - One(fd'[p] = i)
    BY <1>1 DEF Base, One
  <2>2. ~Shunned(p, proc[p].ip)
    BY NotShunned
  <2> QED
    BY <1>1, <2>1, <2>2 DEF Settles, Found, Held, Shunned
<1>3. InUseTyped(p)'
  BY <1>1 DEF InUseTyped, tree
<1>4. /\ proc[p].pc \notin Entering \cup {"drop"}
      /\ cwd' \in [Procs -> Inums] /\ fd' \in [Procs -> Inums \cup {0}]
      /\ \A q \in Procs \ {p} : cwd'[q] = cwd[q] /\ fd'[q] = fd[q]
  BY <1>1 DEF Entering, TypeInv, TypeOK
<1> QED
  BY <1>1, <1>2, <1>3, <1>4, ReturnStep

LEMMA GoesBadStep ==
  ASSUME IInv, NEW p \in Procs, panic = "none", proc[p].put = 0,
         proc[p].pc \in Walking, proc[p].ip # 0, CanLock(proc[p].cur),
         UNCHANGED <<tree, busy, cwd, fd, panic, lost, dangling>>, GoesBad(p, proc[p].cur)
  PROVE  IInv'
<1> DEFINE d == proc[p].cur
           r == [proc[p] EXCEPT !.pc = "bad", !.cur = 0, !.path = <<>>]
<1>1. /\ TypeInv /\ PlaceOK(p) /\ DirOK(p) /\ InUseTyped(p) /\ 0 \notin Inums /\ d \in Inums /\ d # 0
      /\ cwd[p] \in Inums /\ fd[p] \in Inums \cup {0} /\ proc[p].ip \in Inums
      /\ proc[p].call = "link" /\ proc[p] \in Process /\ proc[p].freeing = "no" /\ proc[p].later = 0
      /\ ref \in [Inums -> Int] /\ proc \in [Procs -> Process]
  BY Here DEF PlaceOK
<1>2. /\ r \in Process /\ r.pc = "bad" /\ r.call = "link" /\ r.cur = 0 /\ r.path = <<>>
      /\ r.ip = proc[p].ip /\ r.put = 0 /\ r.later = 0 /\ r.freeing = "no"
  <2>1. <<>> \in Seq(Links)
    OBVIOUS
  <2> QED
    BY <1>1, <2>1 DEF Process, Places
<1>3. Drops(p, d, 0, ref, r)
  BY DEF GoesBad
<1> HIDE DEF r
<1>4. Dropped(p, d, 0, ref, r)
  BY <1>1, <1>2, <1>3, DropsEffect
<1>5. Balance(p, d, 0, ref, r)
  <2>1. ASSUME NEW i \in Inums
        PROVE  ref[i] - One(d = i) - One(0 = i) = ref[i] - Base(p, i) 
                 + One(cwd'[p] = i) + One(fd'[p] = i) + One(r.cur = i) + One(r.ip = i)
    <3>1. ref[i] \in Int /\ i # 0 /\ One(0 = i) = 0
      BY <1>1 DEF One
    <3>2. Base(p, i) = One(cwd'[p] = i) + One(fd'[p] = i) + One(d = i) + One(r.ip = i)
      BY <1>2 DEF Base
    <3> HIDE DEF d
    <3> QED
      BY <1>2, <3>1, <3>2 DEF One
  <2> QED
    BY <2>1 DEF Balance
<1>6. Knows(p, d, 0, r)
  BY <1>1, <1>2 DEF Knows, Found, Held
<1>7. Shuns(p, d, 0, r)
  <2>1. ~Shunned(p, d)
    BY NotShunned
  <2> QED
    BY <1>1, <1>2, <2>1 DEF Shuns, Shunned, Walking
<1>8. PlaceOK(p)' /\ DirOK(p)' /\ InUseTyped(p)'
  BY <1>1, <1>2, <1>4 DEF Dropped, PlaceOK, DirOK, InUseTyped, Walking, Entering, tree
<1>9. /\ LinkIn(r) = LinkOf(p) /\ r.pc \notin Entering \cup {"drop"}
      /\ proc[p].pc \notin Entering \cup {"drop"}
      /\ cwd' \in [Procs -> Inums] /\ fd' \in [Procs -> Inums \cup {0}]
      /\ \A q \in Procs \ {p} : cwd'[q] = cwd[q] /\ fd'[q] = fd[q]
  BY <1>1, <1>2 DEF LinkIn, LinkOf, Entering, Walking, TypeInv, TypeOK
<1>10. d \in Inums \cup {0} /\ 0 \in Inums \cup {0} /\ (d = 0 => d = 0)
  BY <1>1
<1> QED
  BY <1>1, <1>2, <1>3, <1>5, <1>6, <1>7, <1>8, <1>9, <1>10, PlainStep

LEMMA NamexFinds ==
  ASSUME IInv, NEW p \in Procs, At(p, "walk"), type[proc[p].cur] = "dir", StopsEarly(p),
         proc' = [proc EXCEPT ![p].pc = "found"], UNCHANGED <<tree, ref, busy, cwd, fd, panic, lost, dangling>>
  PROVE  IInv'
<1> DEFINE r == [proc[p] EXCEPT !.pc = "found"]
<1>0. panic = "none" /\ proc[p].put = 0 /\ proc[p].pc = "walk"
  BY DEF At
<1>1. /\ TypeInv /\ PlaceOK(p) /\ DirOK(p) /\ InUseTyped(p) /\ 0 \notin Inums /\ proc[p].cur \in Inums
      /\ proc[p].cur # 0
      /\ cwd[p] \in Inums /\ fd[p] \in Inums \cup {0} /\ proc[p].ip \in Inums \cup {0}
      /\ proc[p] \in Process /\ proc[p].freeing = "no" /\ proc[p].later = 0
      /\ ref \in [Inums -> Int] /\ proc \in [Procs -> Process]
  BY <1>0, Here DEF PlaceOK, Walking
<1>2. /\ r \in Process /\ r.pc = "found" /\ r.call = proc[p].call /\ r.cur = proc[p].cur
      /\ r.path = proc[p].path /\ r.ip = proc[p].ip /\ r.put = 0 /\ r.later = 0 /\ r.freeing = "no"
  BY <1>0, <1>1 DEF Process, Places
<1>3. proc' = [proc EXCEPT ![p] = r]
  OBVIOUS
<1> HIDE DEF r
<1>4. Drops(p, 0, 0, ref, r)
  BY <1>1, <1>2, <1>3, DropsNone
<1>5. Dropped(p, 0, 0, ref, r)
  BY <1>1, <1>2, <1>4, DropsEffect
<1>6. Balance(p, 0, 0, ref, r)
  <2>1. ASSUME NEW i \in Inums
        PROVE  ref[i] - One(0 = i) - One(0 = i) = ref[i] - Base(p, i) 
                 + One(cwd'[p] = i) + One(fd'[p] = i) + One(r.cur = i) + One(r.ip = i)
    <3>1. ref[i] \in Int /\ i # 0 /\ One(0 = i) = 0
      BY <1>1 DEF One
    <3>2. Base(p, i) = One(cwd'[p] = i) + One(fd'[p] = i) + One(r.cur = i) + One(r.ip = i)
      BY <1>2 DEF Base
    <3> QED
      BY <3>1, <3>2 DEF One
  <2> QED
    BY <2>1 DEF Balance
<1>7. Knows(p, 0, 0, r) /\ Shuns(p, 0, 0, r)
  BY <1>0, <1>1, <1>2 DEF Knows, Found, Held, Shuns, Shunned, Walking
<1>8. PlaceOK(p)' /\ DirOK(p)' /\ InUseTyped(p)'
  BY <1>0, <1>1, <1>2, <1>5 DEF Dropped, PlaceOK, DirOK, InUseTyped, Walking, Entering, tree
<1>9. /\ LinkIn(r) = LinkOf(p) /\ r.pc \notin Entering \cup {"drop"}
      /\ proc[p].pc \notin Entering \cup {"drop"}
      /\ cwd' \in [Procs -> Inums] /\ fd' \in [Procs -> Inums \cup {0}]
      /\ \A q \in Procs \ {p} : cwd'[q] = cwd[q] /\ fd'[q] = fd[q]
  BY <1>0, <1>1, <1>2 DEF LinkIn, LinkOf, Entering, TypeInv, TypeOK
<1> QED
  BY <1>0, <1>1, <1>2, <1>4, <1>6, <1>7, <1>8, <1>9, PlainStep
-----------------------------------------------------------------------------
LEMMA NamexGoesOn ==
  ASSUME IInv, NEW p \in Procs, At(p, "walk"), CanLock(proc[p].cur), type[proc[p].cur] = "dir",
         ~(StopsEarly(p) /\ AtLast(p)), NEW next \in Inums,
         next = ents[proc[p].cur][Head(proc[p].path)],
         UNCHANGED <<tree, busy, cwd, fd, panic, lost, dangling>>,
         Drops(p, proc[p].cur, 0, Get(next), [proc[p] EXCEPT !.pc = IF AtLast(p) THEN "found" ELSE "walk",
                                                             !.cur = next, !.path = Tail(@)])
  PROVE  IInv'
<1> DEFINE d == proc[p].cur
           there == IF AtLast(p) THEN "found" ELSE "walk"
           r == [proc[p] EXCEPT !.pc = there, !.cur = next, !.path = Tail(@)]
<1>0. panic = "none" /\ proc[p].put = 0 /\ proc[p].pc = "walk"
  BY DEF At
<1>1. /\ TypeInv /\ PlaceOK(p) /\ DirOK(p) /\ InUseTyped(p) /\ 0 \notin Inums /\ d \in Inums
      /\ cwd[p] \in Inums /\ fd[p] \in Inums \cup {0} /\ proc[p].ip \in Inums \cup {0}
      /\ proc[p] \in Process /\ proc[p].freeing = "no" /\ proc[p].later = 0
      /\ ref \in [Inums -> Int] /\ proc \in [Procs -> Process]
      /\ proc[p].path \in Seq(Links) /\ proc[p].path # <<>>
  BY <1>0, Here DEF PlaceOK, Walking
<1>2. /\ Head(proc[p].path) \in Links /\ Tail(proc[p].path) \in Seq(Links)
      /\ Len(proc[p].path) # 1 => Tail(proc[p].path) # <<>>
  BY <1>1, PathParts
<1>3. there \in {"walk", "found"} /\ (there = "walk" => ~AtLast(p))
  OBVIOUS
<1> HIDE DEF there
<1>4. /\ r \in Process /\ r.pc = there /\ r.call = proc[p].call /\ r.cur = next
      /\ r.path = Tail(proc[p].path) /\ r.ip = proc[p].ip /\ r.put = 0 /\ r.later = 0 /\ r.freeing = "no"
  BY <1>0, <1>1, <1>2, <1>3 DEF Process, Places
<1>5. Drops(p, d, 0, Get(next), r)
  BY DEF there
<1> HIDE DEF r
<1>6. Get(next) \in [Inums -> Int] /\ \A i \in Inums : Get(next)[i] = ref[i] + One(next = i)
  BY <1>1, GetOne
<1>7. Dropped(p, d, 0, Get(next), r)
  BY <1>1, <1>4, <1>5, <1>6, DropsEffect
<1>8. Balance(p, d, 0, Get(next), r)
  <2>1. ASSUME NEW i \in Inums
        PROVE  Get(next)[i] - One(d = i) - One(0 = i) = ref[i] - Base(p, i) 
                 + One(cwd'[p] = i) + One(fd'[p] = i) + One(r.cur = i) + One(r.ip = i)
    <3>1. ref[i] \in Int /\ i # 0 /\ One(0 = i) = 0 /\ Get(next)[i] = ref[i] + One(next = i)
      BY <1>1, <1>6 DEF One
    <3>2. Base(p, i) = One(cwd'[p] = i) + One(fd'[p] = i) + One(d = i) + One(r.ip = i)
      BY <1>4 DEF Base
    <3>3. One(r.cur = i) = One(next = i)
      BY <1>4
    <3>4. /\ One(cwd'[p] = i) \in Int /\ One(fd'[p] = i) \in Int /\ One(d = i) \in Int
          /\ One(r.ip = i) \in Int /\ One(next = i) \in Int
      BY DEF One
    <3> DEFINE a == One(cwd'[p] = i)
               b == One(fd'[p] = i)
               c == One(d = i)
               e == One(r.ip = i)
               f == One(next = i)
               g == ref[i]
    <3>5. a \in Int /\ b \in Int /\ c \in Int /\ e \in Int /\ f \in Int /\ g \in Int
      BY <3>1, <3>4
    <3> HIDE DEF a, b, c, e, f, g
    <3>6. (g + f) - c - 0 = g - (a + b + c + e) + a + b + f + e
      BY <3>5
    <3> QED
      BY <3>1, <3>2, <3>3, <3>6, Zenon DEF a, b, c, e, f, g
  <2> QED
    BY <2>1 DEF Balance
<1>9. Knows(p, d, 0, r)
  BY <1>1, <1>2, <1>4 DEF Knows, Found, Held
<1>10. Shuns(p, d, 0, r)
  <2>1. ~Shunned(p, d)
    BY NotShunned
  <2> QED
    BY <1>0, <1>1, <1>3, <1>4, <2>1 DEF Shuns, Shunned, Walking
<1>11. PlaceOK(p)' /\ DirOK(p)' /\ InUseTyped(p)'
  <2>1. /\ proc'[p].pc = there /\ proc'[p].call = proc[p].call /\ proc'[p].cur = next
        /\ proc'[p].path = Tail(proc[p].path) /\ proc'[p].ip = proc[p].ip /\ proc'[p].freeing = "no"
        /\ proc'[p].put = 0 => proc'[p].later = 0
    BY <1>4, <1>7 DEF Dropped
  <2>2. StopsEarly(p)' <=> StopsEarly(p)
    BY <2>1 DEF StopsEarly
  <2>3. there = "found" => ~StopsEarly(p)
    BY DEF there
  <2>4. there = "walk" => Tail(proc[p].path) # <<>>
    BY <1>2, <1>3 DEF AtLast
  <2> QED
    BY <1>0, <1>1, <1>3, <2>1, <2>2, <2>3, <2>4 DEF PlaceOK, DirOK, InUseTyped, Walking, Entering, tree
<1>12. /\ LinkIn(r) = LinkOf(p) /\ r.pc \notin Entering \cup {"drop"}
       /\ proc[p].pc \notin Entering \cup {"drop"}
       /\ cwd' \in [Procs -> Inums] /\ fd' \in [Procs -> Inums \cup {0}]
       /\ \A q \in Procs \ {p} : cwd'[q] = cwd[q] /\ fd'[q] = fd[q]
  BY <1>0, <1>1, <1>3, <1>4 DEF LinkIn, LinkOf, Entering, TypeInv, TypeOK
<1>13. d \in Inums \cup {0} /\ 0 \in Inums \cup {0} /\ (d = 0 => d = 0)
  BY <1>1
<1> QED
  BY <1>0, <1>4, <1>5, <1>6, <1>8, <1>9, <1>10, <1>11, <1>12, <1>13, PlainStep

LEMMA NamexStep ==
  ASSUME IInv, NEW p \in Procs, Namex(p)
  PROVE  IInv'
<1> DEFINE i == proc[p].cur
           next == ents[i][Head(proc[p].path)]
<1>0. /\ At(p, "walk") /\ panic = "none" /\ proc[p].put = 0 /\ proc[p].pc = "walk" /\ CanLock(i)
      /\ proc[p].pc \in Walking
  BY DEF Namex, At, Walking
<1>1. /\ i \in Inums /\ proc[p].path \in Seq(Links) /\ proc[p].path # <<>>
      /\ ents \in [Inums -> [Links -> Inums \cup {0}]]
  BY <1>0, Here DEF PlaceOK
<1>2. next \in Inums \cup {0}
  BY <1>1, PathParts
<1>3. ~NoType(i)
  BY <1>0, <1>1, HasType DEF Held
<1>4. CASE UNCHANGED <<tree, busy, cwd, fd, panic, lost, dangling>> /\ NamexFails(p, i)
  <2>1. CASE proc[p].ip # 0
    BY <1>0, <1>4, <2>1, GoesBadStep DEF NamexFails
  <2>2. CASE proc[p].ip = 0
    BY <1>0, <1>4, <2>2, ReturnCur DEF NamexFails
  <2> QED
    BY <2>1, <2>2
<1>5. CASE /\ type[i] = "dir" /\ StopsEarly(p) /\ AtLast(p)
           /\ proc' = [proc EXCEPT ![p].pc = "found"]
           /\ UNCHANGED <<tree, ref, busy, cwd, fd, panic, lost, dangling>>
  BY <1>0, <1>5, NamexFinds
<1>6. CASE /\ type[i] = "dir" /\ ~(StopsEarly(p) /\ AtLast(p)) /\ next # 0
           /\ UNCHANGED <<tree, busy, cwd, fd, panic, lost, dangling>>
           /\ Drops(p, i, 0, Get(next), [proc[p] EXCEPT !.pc = IF AtLast(p) THEN "found" ELSE "walk",
                                                        !.cur = next, !.path = Tail(@)])
  <2>1. next \in Inums
    BY <1>2, <1>6
  <2> QED
    BY <1>0, <1>6, <2>1, NamexGoesOn
<1> QED
  BY <1>3, <1>4, <1>5, <1>6 DEF Namex

LEMMA OpenFileStep ==
  ASSUME IInv, NEW p \in Procs, panic = "none", proc[p].put = 0, NEW i \in Inums,
         \/ proc[p].pc = "found" /\ proc[p].cur = i /\ proc[p].ip = 0
         \/ proc[p].pc = "exists" /\ proc[p].ip = i,
         CanLock(i), UNCHANGED <<tree, busy, cwd, panic, lost, dangling>>, OpenFile(p, i)
  PROVE  IInv'
<1>1. CASE fd[p] # 0
  <2>1. fd' = fd /\ Return(p, i, 0)
    BY <1>1 DEF OpenFile
  <2> QED
    BY <2>1, ReturnCur, ReturnIp DEF Walking
<1>2. CASE fd[p] = 0
  <2>1. fd' = [fd EXCEPT ![p] = i] /\ Return(p, 0, 0)
    BY <1>2 DEF OpenFile
  <2>2. /\ TypeInv /\ InUseTyped(p) /\ RefTyped(p) /\ 0 \notin Inums /\ cwd[p] \in Inums
        /\ proc[p].pc = "found" => proc[p].cur = i /\ proc[p].ip = 0
        /\ proc[p].pc = "exists" => proc[p].ip = i /\ proc[p].cur = 0 /\ LinkOf(p) = 0
    BY Here DEF PlaceOK, Walking, Entering, LinkOf
  <2>3. /\ fd'[p] = i /\ fd' \in [Procs -> Inums \cup {0}] /\ cwd' = cwd
        /\ \A q \in Procs \ {p} : fd'[q] = fd[q]
    BY <2>1, <2>2 DEF TypeInv, TypeOK
  <2>4. Held(p, i) /\ ~Shunned(p, i)
    BY <2>2, NotShunned DEF Held
  <2>5. Settles(p, 0, 0)
    <3>1. ASSUME NEW j \in Inums
          PROVE  One(0 = j) + One(0 = j) = Base(p, j) - One(cwd'[p] = j) - One(fd'[p] = j)
      BY <1>2, <2>2, <2>3 DEF Base, One
    <3> QED
      BY <2>2, <2>3, <2>4, <3>1 DEF Settles, Found, Held, Shunned
  <2>6. InUseTyped(p)'
    BY <2>2, <2>3, <2>4 DEF InUseTyped, RefTyped, tree
  <2>7. /\ proc[p].pc \notin Entering \cup {"drop"} /\ LinkOf(p) = 0
        /\ cwd' \in [Procs -> Inums]
    BY <2>2, <2>3 DEF Entering, LinkOf, TypeInv, TypeOK
  <2> QED
    BY <2>1, <2>3, <2>5, <2>6, <2>7, ReturnStep
<1> QED
  BY <1>1, <1>2

LEMMA OpenStep ==
  ASSUME IInv, NEW p \in Procs, Open(p)
  PROVE  IInv'
<1> DEFINE i == proc[p].cur
<1>1. /\ panic = "none" /\ proc[p].put = 0 /\ proc[p].pc = "found" /\ CanLock(i)
      /\ proc[p].call = "open" /\ proc[p].pc \in Walking
  BY DEF Open, In, At, Walking
<1>2. proc[p].ip = 0 /\ i \in Inums
  BY <1>1, Here DEF PlaceOK
<1>3. ~NoType(i)
  BY <1>1, <1>2, HasType DEF Held
<1>4. CASE UNCHANGED <<tree, busy, cwd, panic, lost, dangling>> /\ OpenFile(p, i)
  BY <1>1, <1>2, <1>4, OpenFileStep
<1>5. CASE UNCHANGED <<tree, busy, cwd, fd, panic, lost, dangling>> /\ Return(p, i, 0)
  BY <1>1, <1>2, <1>5, ReturnCur
<1> QED
  BY <1>3, <1>4, <1>5 DEF Open

LEMMA ChdirStep ==
  ASSUME IInv, NEW p \in Procs, Chdir(p)
  PROVE  IInv'
<1> DEFINE i == proc[p].cur
<1>1. /\ panic = "none" /\ proc[p].put = 0 /\ proc[p].pc = "found" /\ CanLock(i)
      /\ proc[p].call = "chdir" /\ proc[p].pc \in Walking
  BY DEF Chdir, In, At, Walking
<1>2. /\ proc[p].ip = 0 /\ i \in Inums /\ TypeInv /\ InUseTyped(p) /\ 0 \notin Inums
      /\ cwd[p] \in Inums /\ fd[p] \in Inums \cup {0} /\ LinkOf(p) = 0
  BY <1>1, Here DEF PlaceOK, LinkOf
<1>3. ~NoType(i)
  BY <1>1, <1>2, HasType DEF Held
<1>4. CASE /\ type[i] = "dir"
           /\ cwd' = [cwd EXCEPT ![p] = i]
           /\ UNCHANGED <<tree, busy, fd, panic, lost, dangling>>
           /\ Return(p, cwd[p], 0)
  <2>1. /\ cwd'[p] = i /\ cwd' \in [Procs -> Inums] /\ fd' = fd
        /\ \A q \in Procs \ {p} : cwd'[q] = cwd[q]
    BY <1>2, <1>4 DEF TypeInv, TypeOK
  <2>2. ~Shunned(p, i)
    BY <1>1, NotShunned
  <2>3. Settles(p, cwd[p], 0)
    <3>1. ASSUME NEW j \in Inums
          PROVE  One(cwd[p] = j) + One(0 = j) = Base(p, j) - One(cwd'[p] = j) - One(fd'[p] = j)
      BY <1>2, <2>1 DEF Base, One
    <3> QED
      BY <1>2, <2>1, <2>2, <3>1 DEF Settles, Found, Held, Shunned
  <2>4. InUseTyped(p)'
    BY <1>2, <1>4, <2>1 DEF InUseTyped, tree
  <2>5. proc[p].pc \notin Entering \cup {"drop"} /\ fd' \in [Procs -> Inums \cup {0}]
    BY <1>1, <1>2, <2>1 DEF Entering, TypeInv, TypeOK
  <2> QED
    BY <1>1, <1>2, <1>4, <2>1, <2>3, <2>4, <2>5, ReturnStep
<1>5. CASE UNCHANGED <<tree, busy, cwd, fd, panic, lost, dangling>> /\ Return(p, i, 0)
  BY <1>1, <1>2, <1>5, ReturnCur
<1> QED
  BY <1>3, <1>4, <1>5 DEF Chdir

LEMMA CreateExistsStep ==
  ASSUME IInv, NEW p \in Procs, CreateExists(p)
  PROVE  IInv'
<1> DEFINE i == proc[p].ip
<1>1. /\ panic = "none" /\ proc[p].put = 0 /\ proc[p].pc = "exists" /\ CanLock(i)
  BY DEF CreateExists, At
<1>2. i \in Inums
  BY <1>1, Here DEF PlaceOK
<1>3. ~NoType(i)
  BY <1>1, <1>2, HasType DEF Held
<1>4. CASE UNCHANGED <<tree, busy, cwd, panic, lost, dangling>> /\ OpenFile(p, i)
  BY <1>1, <1>2, <1>4, OpenFileStep
<1>5. CASE UNCHANGED <<tree, busy, cwd, fd, panic, lost, dangling>> /\ Return(p, i, 0)
  BY <1>1, <1>2, <1>5, ReturnIp
<1> QED
  BY <1>3, <1>4, <1>5 DEF CreateExists
-----------------------------------------------------------------------------
\* Taking the flag of the directory that is to be changed.
LEMMA TakesFlag ==
  ASSUME IInv, NEW p \in Procs, panic = "none", proc[p].put = 0, proc[p].pc = "found",
         CanLock(proc[p].cur), busy' = [busy EXCEPT ![proc[p].cur] = p],
         proc'[p].pc \in Entering, proc'[p].cur = proc[p].cur, proc'[p].freeing = "no"
  PROVE  BusyMoves(p)
<1> DEFINE d == proc[p].cur
<1>1. /\ TypeInv /\ BusyInv /\ proc[p].freeing = "no" /\ d \in Inums
  BY Here DEF PlaceOK, Walking
<1>2. busy' \in [Inums -> Procs \cup {None}] /\ busy[d] = None
  BY <1>1 DEF TypeInv, TypeOK, CanLock
<1>3. ASSUME NEW i \in Inums
      PROVE  /\ busy'[i] = busy[i] \/ (busy[i] \in {p, None} /\ busy'[i] \in {p, None})
             /\ busy'[i] = p <=> Locks(p, i)'
  <2>1. busy[i] # p
    BY <1>1 DEF BusyInv, Locks, Entering
  <2>2. busy'[i] = IF i = d THEN p ELSE busy[i]
    BY <1>1 DEF TypeInv, TypeOK
  <2>3. Locks(p, i)' <=> i = d
    BY DEF Locks, Entering
  <2> QED
    BY <1>2, <2>1, <2>2, <2>3
<1> QED
  BY <1>2, <1>3 DEF BusyMoves

\* The name ".." is always there, for nobody has reached a new directory.
LEMMA MissingName ==
  ASSUME IInv, NEW p \in Procs, panic = "none", proc[p].pc = "found", StopsEarly(p), Entry(p) = 0
  PROVE  LastName(p) \in Names
<1> DEFINE d == proc[p].cur
<1>1. /\ d \in Inums /\ proc[p].path \in Seq(Links) /\ proc[p].path # <<>> /\ type[d] = "dir"
  BY Here DEF PlaceOK, DirOK, Walking
<1>2. ~Fresh(d)
  <2> SUFFICES ASSUME NEW r \in Procs, proc[r].pc = "init", proc[r].ip = d PROVE FALSE
    BY DEF Fresh
  <2>1. FreshInv(r) /\ r # p /\ Held(p, d)
    BY Here DEF Held
  <2> QED
    BY <2>1 DEF FreshInv
<1>3. ents[d][".."] # 0
  BY <1>1, <1>2 DEF IInv, TreeInv
<1>4. LastName(p) \in Links
  BY <1>1, PathParts DEF LastName
<1> QED
  BY <1>3, <1>4 DEF Entry, Links

LEMMA CreateLooksStep ==
  ASSUME IInv, NEW p \in Procs, CreateLooks(p)
  PROVE  IInv'
<1> DEFINE d == proc[p].cur
           e == Entry(p)
<1>0. /\ panic = "none" /\ proc[p].put = 0 /\ proc[p].pc = "found" /\ Creates(p) /\ CanLock(d)
      /\ StopsEarly(p) /\ proc[p].call \in {"create", "mkdir"}
  BY DEF CreateLooks, At, StopsEarly, Parent, Creates
<1>1. /\ TypeInv /\ PlaceOK(p) /\ DirOK(p) /\ InUseTyped(p) /\ 0 \notin Inums /\ d \in Inums
      /\ cwd[p] \in Inums /\ fd[p] \in Inums \cup {0} /\ proc[p].ip = 0
      /\ proc[p] \in Process /\ proc[p].freeing = "no" /\ proc[p].later = 0
      /\ ref \in [Inums -> Int] /\ proc \in [Procs -> Process]
      /\ proc[p].path \in Seq(Links) /\ proc[p].path # <<>> /\ type[d] = "dir"
      /\ ents \in [Inums -> [Links -> Inums \cup {0}]]
  BY <1>0, Here DEF PlaceOK, DirOK, Walking
<1>2. LastName(p) \in Links /\ e \in Inums \cup {0} /\ e = ents[d][LastName(p)]
  BY <1>1, PathParts DEF LastName, Entry
<1>3. CASE /\ e # 0
           /\ UNCHANGED <<tree, busy, cwd, fd, panic, lost, dangling>>
           /\ Drops(p, d, 0, Get(e), [proc[p] EXCEPT !.pc = "exists", !.ip = e, !.cur = 0, !.path = <<>>])
  <2> DEFINE r == [proc[p] EXCEPT !.pc = "exists", !.ip = e, !.cur = 0, !.path = <<>>]
  <2>0. e \in Inums
    BY <1>2, <1>3
  <2> HIDE DEF e
  <2>1. /\ r \in Process /\ r.pc = "exists" /\ r.call = proc[p].call /\ r.cur = 0 /\ r.path = <<>>
        /\ r.ip = e /\ r.put = 0 /\ r.later = 0 /\ r.freeing = "no"
    <3>1. <<>> \in Seq(Links)
      OBVIOUS
    <3> QED
      BY <1>0, <1>1, <2>0, <3>1 DEF Process, Places
  <2>2. Drops(p, d, 0, Get(e), r)
    BY <1>3
  <2> HIDE DEF r
  <2>3. Get(e) \in [Inums -> Int] /\ \A i \in Inums : Get(e)[i] = ref[i] + One(e = i)
    BY <1>1, <2>0, GetOne
  <2>4. Dropped(p, d, 0, Get(e), r)
    BY <1>1, <2>1, <2>2, <2>3, DropsEffect
  <2>5. Balance(p, d, 0, Get(e), r)
    <3>1. ASSUME NEW i \in Inums
          PROVE  Get(e)[i] - One(d = i) - One(0 = i) = ref[i] - Base(p, i) 
                   + One(cwd'[p] = i) + One(fd'[p] = i) + One(r.cur = i) + One(r.ip = i)
      <4>1. ref[i] \in Int /\ i # 0 /\ One(0 = i) = 0 /\ Get(e)[i] = ref[i] + One(e = i)
        BY <1>1, <2>3 DEF One
      <4>2. Base(p, i) = One(cwd'[p] = i) + One(fd'[p] = i) + One(d = i) + One(0 = i)
        BY <1>1, <1>3 DEF Base
      <4> HIDE DEF d
      <4> QED
        BY <2>1, <4>1, <4>2 DEF One
    <3> QED
      BY <3>1 DEF Balance
  <2>6. Knows(p, d, 0, r)
    BY <1>1, <1>2, <1>3, <2>1 DEF Knows, Found, Held
  <2>7. Shuns(p, d, 0, r)
    <3>1. ~Shunned(p, d)
      BY <1>0, NotShunned
    <3> QED
      BY <1>1, <1>3, <2>1, <3>1 DEF Shuns, Shunned
  <2>8. PlaceOK(p)' /\ DirOK(p)' /\ InUseTyped(p)'
    <3>1. /\ proc'[p].pc = "exists" /\ proc'[p].call = proc[p].call /\ proc'[p].cur = 0
          /\ proc'[p].ip = e /\ proc'[p].freeing = "no"
          /\ proc'[p].put = 0 => proc'[p].later = 0
      BY <2>1, <2>4 DEF Dropped
    <3> QED
      BY <1>0, <1>1, <1>3, <2>0, <3>1 DEF PlaceOK, DirOK, InUseTyped, Walking, Entering, Creates, tree
  <2>9. /\ LinkIn(r) = LinkOf(p) /\ r.pc \notin Entering \cup {"drop"}
        /\ proc[p].pc \notin Entering \cup {"drop"}
        /\ cwd' \in [Procs -> Inums] /\ fd' \in [Procs -> Inums \cup {0}]
        /\ \A q \in Procs \ {p} : cwd'[q] = cwd[q] /\ fd'[q] = fd[q]
    BY <1>0, <1>1, <1>3, <2>1 DEF LinkIn, LinkOf, Entering, TypeInv, TypeOK
  <2>10. d \in Inums \cup {0} /\ 0 \in Inums \cup {0} /\ (d = 0 => d = 0)
    BY <1>1
  <2> QED
    BY <1>0, <1>3, <2>1, <2>2, <2>3, <2>5, <2>6, <2>7, <2>8, <2>9, <2>10, PlainStep
<1>4. CASE /\ e = 0
           /\ busy' = [busy EXCEPT ![d] = p]
           /\ proc' = [proc EXCEPT ![p].pc = "ialloc"]
           /\ UNCHANGED <<tree, ref, cwd, fd, panic, lost, dangling>>
  <2>1. /\ proc' \in [Procs -> Process] /\ \A q \in Procs \ {p} : proc'[q] = proc[q]
        /\ proc'[p].pc = "ialloc" /\ proc'[p].call = proc[p].call /\ proc'[p].cur = d
        /\ proc'[p].path = proc[p].path /\ proc'[p].ip = 0 /\ proc'[p].put = 0
        /\ proc'[p].later = 0 /\ proc'[p].freeing = "no"
    BY <1>0, <1>1, <1>4 DEF Process, Places
  <2>2. Only(p)
    BY <1>1, <1>4, <2>1 DEF Only, TypeInv, TypeOK
  <2>3. RefMoves(p)
    <3>1. ASSUME NEW i \in Inums PROVE ref'[i] = ref[i] - Mine(p, i) + Mine(p, i)'
      <4>1. Mine(p, i)' = Mine(p, i)
        BY <1>0, <1>1, <1>4, <2>1 DEF Mine
      <4>2. Mine(p, i) \in Int /\ ref[i] \in Int
        BY <1>1, HeldMine
      <4> QED
        BY <1>4, <4>1, <4>2
    <3> QED
      BY <1>1, <1>4, <3>1 DEF RefMoves
  <2>4. BusyMoves(p)
    BY <1>0, <1>4, <2>1, TakesFlag DEF Entering
  <2>5. Finds(p)
    BY <1>0, <1>1, <1>4, <2>1 DEF Finds, Held
  <2>6. Counts(p)
    BY <1>4, CountsSame DEF tree
  <2>7. LinksCounted'
    <3>1. LinkOf(p)' = LinkOf(p) /\ DropOf(p)' = DropOf(p)
      BY <1>0, <1>1, <2>1 DEF LinkOf, DropOf
    <3> QED
      BY <1>1, <1>4, <2>2, <3>1, LinkSame DEF IInv
  <2>8. LastName(p) \in Names
    BY <1>0, <1>4, MissingName
  <2>9. PlaceOK(p)' /\ InUseTyped(p)' /\ FreeInv(p)'
    BY <1>0, <1>1, <1>4, <2>1, <2>8 
       DEF PlaceOK, InUseTyped, FreeInv, Walking, Entering, Creates, LastName, tree
  <2>10. DirOK(p)'
    <3>1. Entry(p)' = e
      BY <1>4, <2>1 DEF Entry, LastName, tree
    <3> QED
      BY <1>0, <1>1, <1>4, <2>1, <3>1 DEF DirOK, tree
  <2>11. ASSUME NEW q \in Procs \ {p}, proc[q].freeing = "itrunc"
         PROVE  FreeFor(q, proc[q].put, p)'
    <3>1. Shunned(p, proc[q].put) /\ proc'[q] = proc[q] /\ proc[q].put \in Inums
      BY <2>1, <2>11, FreedShunned
    <3>2. ~Shunned(p, d)
      BY <1>0, NotShunned
    <3> QED
      BY <1>1, <1>4, <2>1, <3>1, <3>2 DEF Shunned, FreeFor
  <2> QED
    BY <1>0, <1>4, <2>1, <2>2, <2>3, <2>4, <2>5, <2>6, <2>7, <2>9, <2>10, <2>11, QuietStep DEF tree
<1> QED
  BY <1>3, <1>4 DEF CreateLooks

LEMMA UnlinkLooksStep ==
  ASSUME IInv, NEW p \in Procs, UnlinkLooks(p)
  PROVE  IInv'
<1> DEFINE d == proc[p].cur
           e == Entry(p)
<1>0. /\ panic = "none" /\ proc[p].put = 0 /\ proc[p].pc = "found" /\ proc[p].call = "unlink"
      /\ StopsEarly(p) /\ CanLock(d) /\ proc[p].pc \in Walking
  BY DEF UnlinkLooks, In, At, StopsEarly, Parent, Walking
<1>1. /\ TypeInv /\ PlaceOK(p) /\ DirOK(p) /\ InUseTyped(p) /\ 0 \notin Inums /\ d \in Inums
      /\ cwd[p] \in Inums /\ fd[p] \in Inums \cup {0} /\ proc[p].ip = 0
      /\ proc[p] \in Process /\ proc[p].freeing = "no" /\ proc[p].later = 0
      /\ ref \in [Inums -> Int] /\ proc \in [Procs -> Process]
      /\ proc[p].path \in Seq(Links) /\ proc[p].path # <<>> /\ type[d] = "dir"
      /\ ents \in [Inums -> [Links -> Inums \cup {0}]]
  BY <1>0, Here DEF PlaceOK, DirOK, Walking
<1>2. LastName(p) \in Links /\ e \in Inums \cup {0} /\ e = ents[d][LastName(p)]
  BY <1>1, PathParts DEF LastName, Entry
<1>3. CASE UNCHANGED <<tree, busy, cwd, fd, panic, lost, dangling>> /\ Return(p, d, 0)
  BY <1>0, <1>1, <1>3, ReturnCur
<1>4. CASE /\ ~Protected(LastName(p)) /\ e # 0
           /\ busy' = [busy EXCEPT ![d] = p]
           /\ ref' = Get(e)
           /\ proc' = [proc EXCEPT ![p].pc = "child", ![p].ip = e]
           /\ UNCHANGED <<tree, cwd, fd, panic, lost, dangling>>
  <2>0. e \in Inums /\ LastName(p) \in Names
    BY <1>2, <1>4 DEF Protected, Links
  <2> HIDE DEF e
  <2>1. /\ proc' \in [Procs -> Process] /\ \A q \in Procs \ {p} : proc'[q] = proc[q]
        /\ proc'[p].pc = "child" /\ proc'[p].call = proc[p].call /\ proc'[p].cur = d
        /\ proc'[p].path = proc[p].path /\ proc'[p].ip = e /\ proc'[p].put = 0
        /\ proc'[p].later = 0 /\ proc'[p].freeing = "no"
    BY <1>0, <1>1, <1>4, <2>0 DEF Process, Places
  <2>2. Only(p)
    BY <1>1, <1>4, <2>1 DEF Only, TypeInv, TypeOK
  <2>3. RefMoves(p)
    <3>0. Get(e) \in [Inums -> Int] /\ \A i \in Inums : Get(e)[i] = ref[i] + One(e = i)
      BY <1>1, <2>0, GetOne
    <3>1. ASSUME NEW i \in Inums PROVE ref'[i] = ref[i] - Mine(p, i) + Mine(p, i)'
      <4>1. Mine(p, i)' = Mine(p, i) + One(e = i)
        BY <1>0, <1>1, <1>4, <2>1 DEF Mine, One
      <4>2. Mine(p, i) \in Int /\ ref[i] \in Int /\ One(e = i) \in Int
        BY <1>1, HeldMine DEF One
      <4> QED
        BY <1>4, <3>0, <4>1, <4>2
    <3> QED
      BY <1>4, <3>0, <3>1 DEF RefMoves
  <2>4. BusyMoves(p)
    BY <1>0, <1>4, <2>1, TakesFlag DEF Entering
  <2>5. Finds(p)
    BY <1>0, <1>1, <1>2, <1>4, <2>1 DEF Finds, Held
  <2>6. Counts(p)
    BY <1>4, CountsSame DEF tree
  <2>7. LinksCounted'
    <3>1. LinkOf(p)' = LinkOf(p) /\ DropOf(p)' = DropOf(p)
      BY <1>0, <1>1, <2>1 DEF LinkOf, DropOf
    <3> QED
      BY <1>1, <1>4, <2>2, <3>1, LinkSame DEF IInv
  <2>9. PlaceOK(p)' /\ InUseTyped(p)' /\ FreeInv(p)'
    BY <1>0, <1>1, <1>4, <2>0, <2>1
       DEF PlaceOK, InUseTyped, FreeInv, Walking, Entering, Creates, LastName, tree
  <2>10. DirOK(p)'
    <3>1. Entry(p)' = e
      BY <1>2, <1>4, <2>1 DEF Entry, LastName, tree
    <3> QED
      BY <1>0, <1>1, <1>4, <2>1, <3>1 DEF DirOK, tree
  <2>11. ASSUME NEW q \in Procs \ {p}, proc[q].freeing = "itrunc"
         PROVE  FreeFor(q, proc[q].put, p)'
    <3>1. Shunned(p, proc[q].put) /\ proc'[q] = proc[q] /\ proc[q].put \in Inums
      BY <2>1, <2>11, FreedShunned
    <3>2. ~Shunned(p, d)
      BY <1>0, NotShunned
    <3>3. e # proc[q].put
      BY <1>1, <1>2, <2>0, <3>1 DEF Shunned
    <3> QED
      BY <1>1, <1>4, <2>1, <3>1, <3>2, <3>3 DEF Shunned, FreeFor
  <2> QED
    BY <1>0, <1>4, <2>1, <2>2, <2>3, <2>4, <2>5, <2>6, <2>7, <2>9, <2>10, <2>11, QuietStep DEF tree
<1> QED
  BY <1>3, <1>4 DEF UnlinkLooks
-----------------------------------------------------------------------------
\* Links move between counts, links on their way and erased entries.
LEMMA LinkMove ==
  ASSUME TypeInv, LinksCounted, UNCHANGED <<type, ents, lost, dangling>>, NEW p \in Procs, Only(p),
         nlink' \in [Inums -> Int],
         \A i \in Inums : nlink'[i] = nlink[i] - One(LinkOf(p) = i) + One(LinkOf(p)' = i)
                                               - One(DropOf(p) = i) + One(DropOf(p)' = i)
  PROVE  LinksCounted'
<1> SUFFICES ASSUME NEW i \in Inums, type'[i] # "free"
             PROVE  nlink'[i] = Entries(i)' + Subdirs(i)' + Linking(i)' + Erasing(i)'
                              + lost'[i] + (IF i = Root THEN 1 ELSE 0)
  BY DEF LinksCounted
<1> DEFINE root == IF i = Root THEN 1 ELSE 0
           two == Entries(i) + Subdirs(i)
           x == One(LinkOf(p)' = i) - One(LinkOf(p) = i)
           y == One(DropOf(p)' = i) - One(DropOf(p) = i)
<1>1. root \in Int /\ x \in Int /\ y \in Int
  BY DEF One
<1>2. two \in Int
  BY TreeCounts DEF TypeInv, TypeOK
<1>3. Linking(i) \in Int /\ Linking(i)' = Linking(i) + x
  <2>1. /\ Linking(i) \in Nat /\ Linking(i)' = Linking(i) - One(LinkOf(p) = i) + One(LinkOf(p)' = i)
    BY LinkingChange
  <2>2. One(LinkOf(p) = i) \in Int /\ One(LinkOf(p)' = i) \in Int
    BY DEF One
  <2> QED
    BY <2>1, <2>2
<1>4. Erasing(i) \in Int /\ Erasing(i)' = Erasing(i) + y
  <2>1. /\ Erasing(i) \in Nat /\ Erasing(i)' = Erasing(i) - One(DropOf(p) = i) + One(DropOf(p)' = i)
    BY ErasingChange
  <2>2. One(DropOf(p) = i) \in Int /\ One(DropOf(p)' = i) \in Int
    BY DEF One
  <2> QED
    BY <2>1, <2>2
<1>5. two' = two
  BY DEF Entries, Subdirs
<1>6. lost'[i] = lost[i] /\ lost[i] \in Int /\ nlink[i] \in Int
  BY DEF TypeInv, TypeOK
<1>7. nlink[i] = two + Linking(i) + Erasing(i) + lost[i] + root
  BY DEF LinksCounted
<1>8. nlink'[i] = nlink[i] + x + y
  <2>1. nlink'[i] = nlink[i] - One(LinkOf(p) = i) + One(LinkOf(p)' = i)
                             - One(DropOf(p) = i) + One(DropOf(p)' = i)
    OBVIOUS
  <2>2. /\ One(LinkOf(p) = i) \in Int /\ One(LinkOf(p)' = i) \in Int
        /\ One(DropOf(p) = i) \in Int /\ One(DropOf(p)' = i) \in Int
    BY DEF One
  <2> QED
    BY <1>6, <2>1, <2>2
<1>9. nlink'[i] = two' + Linking(i)' + Erasing(i)' + lost'[i] + root
  <2> DEFINE l == Linking(i)
             e == Erasing(i)
  <2>1. l \in Int /\ e \in Int
    BY <1>3, <1>4
  <2>2. Linking(i)' = l + x /\ Erasing(i)' = e + y /\ nlink[i] = two + l + e + lost[i] + root
    BY <1>3, <1>4, <1>7
  <2> HIDE DEF root, two, x, y, l, e
  <2> QED
    BY <1>1, <1>2, <1>5, <1>6, <1>8, <2>1, <2>2
<1> QED
  BY <1>9

LEMMA LinkEntersBad ==
  ASSUME IInv, NEW p \in Procs, In(p, "link", "found"), proc[p].ip # 0,
         UNCHANGED <<tree, busy, cwd, fd, panic, lost, dangling>>, GoesBad(p, proc[p].cur)
  PROVE  IInv'
BY GoesBadStep DEF In, At, Walking

LEMMA LinkCountsStep ==
  ASSUME IInv, NEW p \in Procs, LinkCounts(p)
  PROVE  IInv'
<1> DEFINE i == proc[p].cur
<1>0. /\ panic = "none" /\ proc[p].put = 0 /\ proc[p].pc = "found" /\ proc[p].call = "link"
      /\ CanLock(i) /\ proc[p].pc \in Walking /\ proc[p].ip = 0
  BY DEF LinkCounts, In, At, Walking
<1>1. /\ TypeInv /\ PlaceOK(p) /\ InUseTyped(p) /\ BusyInv /\ 0 \notin Inums /\ i \in Inums
      /\ cwd[p] \in Inums /\ fd[p] \in Inums \cup {0}
      /\ proc[p] \in Process /\ proc[p].freeing = "no" /\ proc[p].later = 0
      /\ ref \in [Inums -> Int] /\ proc \in [Procs -> Process]
  BY <1>0, Here DEF PlaceOK
<1>2. ~NoType(i) /\ Held(p, i)
  BY <1>0, <1>1, HasType DEF Held
<1>3. CASE UNCHANGED <<tree, busy, cwd, fd, panic, lost, dangling>> /\ Return(p, i, 0)
  BY <1>0, <1>3, ReturnCur
<1>4. CASE /\ type[i] = "file" /\ nlink[i] < MaxLinks
           /\ nlink' = [nlink EXCEPT ![i] = @ + 1]
           /\ \E path \in NewPaths :
                /\ path.names # <<>>
                /\ proc' = [proc EXCEPT ![p] = [@ EXCEPT !.pc = "walk", !.ip = i,
                                                         !.cur = Start(p, path), !.path = path.names]]
                /\ ref' = Get(Start(p, path))
           /\ UNCHANGED <<type, ents, busy, cwd, fd, panic, lost, dangling>>
  <2>1. PICK path \in NewPaths :
          /\ path.names # <<>>
          /\ proc' = [proc EXCEPT ![p] = [@ EXCEPT !.pc = "walk", !.ip = i,
                                                   !.cur = Start(p, path), !.path = path.names]]
          /\ ref' = Get(Start(p, path))
    BY <1>4
  <2> DEFINE s == Start(p, path)
             r == [proc[p] EXCEPT !.pc = "walk", !.ip = i, !.cur = s, !.path = path.names]
  <2>2. s \in Inums /\ s \in {Root, cwd[p]} /\ Found(p, s)
    BY <1>0, StartOK
  <2>3. path.names \in Seq(Links) /\ path.names # <<>>
    BY <2>1, PathAssumption, PathOK
  <2>4. ref' = Get(s) /\ proc' = [proc EXCEPT ![p] = r]
    BY <2>1
  <2> HIDE DEF s
  <2>5. /\ r \in Process /\ r.pc = "walk" /\ r.call = "link" /\ r.cur = s /\ r.path = path.names
        /\ r.ip = i /\ r.put = 0 /\ r.later = 0 /\ r.freeing = "no"
    BY <1>0, <1>1, <2>2, <2>3 DEF Process, Places
  <2> HIDE DEF r
  <2>6. Get(s) \in [Inums -> Int] /\ \A j \in Inums : Get(s)[j] = ref[j] + One(s = j)
    BY <1>1, <2>2, GetOne
  <2>7. Drops(p, 0, 0, Get(s), r)
    BY <1>1, <2>4, <2>5, <2>6, DropsNone
  <2>8. Dropped(p, 0, 0, Get(s), r)
    BY <1>1, <2>5, <2>6, <2>7, DropsEffect
  <2>9. Balance(p, 0, 0, Get(s), r)
    <3>1. ASSUME NEW j \in Inums
          PROVE  Get(s)[j] - One(0 = j) - One(0 = j) = ref[j] - Base(p, j) 
                   + One(cwd'[p] = j) + One(fd'[p] = j) + One(r.cur = j) + One(r.ip = j)
      <4>1. ref[j] \in Int /\ One(0 = j) = 0 /\ Get(s)[j] = ref[j] + One(s = j)
        BY <1>1, <2>6 DEF One
      <4>2. Base(p, j) = One(cwd'[p] = j) + One(fd'[p] = j) + One(i = j) + One(0 = j)
        BY <1>0, <1>4 DEF Base
      <4> HIDE DEF i
      <4> QED
        BY <2>5, <4>1, <4>2 DEF One
    <3> QED
      BY <3>1 DEF Balance
  <2>10. Knows(p, 0, 0, r)
    BY <1>1, <1>2, <1>4, <2>2, <2>5 DEF Knows, Found, Held
  <2>11. Shuns(p, 0, 0, r)
    <3>1. ~Shunned(p, i)
      BY <1>0, NotShunned
    <3> QED
      BY <1>1, <1>4, <2>5, <3>1 DEF Shuns, Shunned, Walking
  <2>12. PlaceOK(p)' /\ DirOK(p)' /\ InUseTyped(p)'
    <3>1. /\ proc'[p].pc = "walk" /\ proc'[p].call = "link" /\ proc'[p].cur = s
          /\ proc'[p].path # <<>> /\ proc'[p].ip = i /\ proc'[p].freeing = "no"
          /\ proc'[p].put = 0 => proc'[p].later = 0
      BY <2>3, <2>5, <2>8 DEF Dropped
    <3> QED
      BY <1>0, <1>1, <1>4, <2>2, <3>1 DEF PlaceOK, DirOK, InUseTyped, Walking, Entering
  <2>13. Counts(p)
    <3>1. busy[i] = None
      BY <1>0 DEF CanLock
    <3> QED
      BY <1>1, <1>2, <1>4, <3>1 DEF Counts, TypeInv, TypeOK
  <2>14. Only(p)
    BY <1>1, <1>4, <2>8 DEF Only, Dropped, TypeInv, TypeOK
  <2>15. LinksCounted'
    <3>1. LinkOf(p) = 0 /\ LinkOf(p)' = i /\ DropOf(p) = 0 /\ DropOf(p)' = 0
      BY <1>0, <2>5, <2>8 DEF LinkOf, DropOf, Dropped
    <3>2. nlink' \in [Inums -> Int]
      BY <1>1, <1>4 DEF TypeInv, TypeOK
    <3>3. ASSUME NEW j \in Inums
          PROVE  nlink'[j] = nlink[j] - One(LinkOf(p) = j) + One(LinkOf(p)' = j)
                                      - One(DropOf(p) = j) + One(DropOf(p)' = j)
      <4>1. nlink'[j] = nlink[j] + One(i = j) /\ nlink[j] \in Int
        BY <1>1, <1>4 DEF TypeInv, TypeOK, One
      <4>2. One(0 = j) = 0 /\ One(i = j) \in Int
        BY <1>1 DEF One
      <4> QED
        BY <3>1, <4>1, <4>2
    <3> QED
      BY <1>1, <1>4, <2>14, <3>2, <3>3, LinkMove DEF IInv
  <2>16. Flags(p, r)
    <3>1. \A j \in Inums : busy[j] # p
      BY <1>0, <1>1 DEF BusyInv, Locks, Entering
    <3> QED
      BY <1>1, <1>4, <2>5, <3>1 DEF Flags, TypeInv, TypeOK
  <2>17. /\ cwd' \in [Procs -> Inums] /\ fd' \in [Procs -> Inums \cup {0}]
         /\ \A q \in Procs \ {p} : cwd'[q] = cwd[q] /\ fd'[q] = fd[q]
    BY <1>1, <1>4 DEF TypeInv, TypeOK
  <2> QED
    BY <1>0, <1>4, <2>5, <2>6, <2>7, <2>9, <2>10, <2>11, <2>12, <2>13, <2>15, <2>16, <2>17, DropStep
<1>5. CASE /\ type[i] = "file" /\ nlink[i] < MaxLinks
           /\ nlink' = [nlink EXCEPT ![i] = @ + 1]
           /\ proc' = [proc EXCEPT ![p] = [@ EXCEPT !.pc = "bad", !.ip = i, !.cur = 0]]
           /\ ref' = ref
           /\ UNCHANGED <<type, ents, busy, cwd, fd, panic, lost, dangling>>
  <2> DEFINE r == [proc[p] EXCEPT !.pc = "bad", !.ip = i, !.cur = 0]
  <2>4. proc' = [proc EXCEPT ![p] = r]
    BY <1>5
  <2>5. /\ r \in Process /\ r.pc = "bad" /\ r.call = "link" /\ r.cur = 0
        /\ r.ip = i /\ r.put = 0 /\ r.later = 0 /\ r.freeing = "no"
    BY <1>0, <1>1 DEF Process, Places
  <2> HIDE DEF r
  <2>7. Drops(p, 0, 0, ref, r)
    BY <1>1, <1>5, <2>4, <2>5, DropsNone
  <2>8. Dropped(p, 0, 0, ref, r)
    BY <1>1, <2>5, <2>7, DropsEffect
  <2>9. Balance(p, 0, 0, ref, r)
    <3>1. ASSUME NEW j \in Inums
          PROVE  ref[j] - One(0 = j) - One(0 = j) = ref[j] - Base(p, j) 
                   + One(cwd'[p] = j) + One(fd'[p] = j) + One(r.cur = j) + One(r.ip = j)
      <4>1. ref[j] \in Int /\ One(0 = j) = 0 
        BY <1>1 DEF One
      <4>2. Base(p, j) = One(cwd'[p] = j) + One(fd'[p] = j) + One(i = j) + One(0 = j)
        BY <1>0, <1>5 DEF Base
      <4> HIDE DEF i
      <4> QED
        BY <2>5, <4>1, <4>2 DEF One
    <3> QED
      BY <3>1 DEF Balance
  <2>10. Knows(p, 0, 0, r)
    BY <1>1, <1>2, <1>5, <2>5 DEF Knows, Found, Held
  <2>11. Shuns(p, 0, 0, r)
    <3>1. ~Shunned(p, i)
      BY <1>0, NotShunned
    <3> QED
      BY <1>1, <1>5, <2>5, <3>1 DEF Shuns, Shunned, Walking
  <2>12. PlaceOK(p)' /\ DirOK(p)' /\ InUseTyped(p)'
    <3>1. /\ proc'[p].pc = "bad" /\ proc'[p].call = "link" /\ proc'[p].cur = 0
          /\ proc'[p].ip = i /\ proc'[p].freeing = "no"
          /\ proc'[p].put = 0 => proc'[p].later = 0
      BY <2>5, <2>8 DEF Dropped
    <3> QED
      BY <1>0, <1>1, <1>5, <3>1 DEF PlaceOK, DirOK, InUseTyped, Walking, Entering
  <2>13. Counts(p)
    <3>1. busy[i] = None
      BY <1>0 DEF CanLock
    <3> QED
      BY <1>1, <1>2, <1>5, <3>1 DEF Counts, TypeInv, TypeOK
  <2>14. Only(p)
    BY <1>1, <1>5, <2>8 DEF Only, Dropped, TypeInv, TypeOK
  <2>15. LinksCounted'
    <3>1. LinkOf(p) = 0 /\ LinkOf(p)' = i /\ DropOf(p) = 0 /\ DropOf(p)' = 0
      BY <1>0, <2>5, <2>8 DEF LinkOf, DropOf, Dropped
    <3>2. nlink' \in [Inums -> Int]
      BY <1>1, <1>5 DEF TypeInv, TypeOK
    <3>3. ASSUME NEW j \in Inums
          PROVE  nlink'[j] = nlink[j] - One(LinkOf(p) = j) + One(LinkOf(p)' = j)
                                      - One(DropOf(p) = j) + One(DropOf(p)' = j)
      <4>1. nlink'[j] = nlink[j] + One(i = j) /\ nlink[j] \in Int
        BY <1>1, <1>5 DEF TypeInv, TypeOK, One
      <4>2. One(0 = j) = 0 /\ One(i = j) \in Int
        BY <1>1 DEF One
      <4> QED
        BY <3>1, <4>1, <4>2
    <3> QED
      BY <1>1, <1>5, <2>14, <3>2, <3>3, LinkMove DEF IInv
  <2>16. Flags(p, r)
    <3>1. \A j \in Inums : busy[j] # p
      BY <1>0, <1>1 DEF BusyInv, Locks, Entering
    <3> QED
      BY <1>1, <1>5, <2>5, <3>1 DEF Flags, TypeInv, TypeOK
  <2>17. /\ cwd' \in [Procs -> Inums] /\ fd' \in [Procs -> Inums \cup {0}]
         /\ \A q \in Procs \ {p} : cwd'[q] = cwd[q] /\ fd'[q] = fd[q]
    BY <1>1, <1>5 DEF TypeInv, TypeOK
  <2> QED
    BY <1>0, <1>1, <1>5, <2>5, <2>7, <2>9, <2>10, <2>11, <2>12, <2>13, <2>15, <2>16, <2>17, DropStep
<1> QED
  BY <1>2, <1>3, <1>4, <1>5 DEF LinkCounts
-----------------------------------------------------------------------------
\* The end of a call that has changed a count or gives a flag back.
LEMMA IdleStep ==
  ASSUME IInv, panic = "none", UNCHANGED <<type, ents, cwd, fd, panic, lost, dangling>>, NEW p \in Procs,
         NEW a \in Inums \cup {0}, NEW b \in Inums \cup {0}, a = b => a = 0,
         Return(p, a, b), proc[p].put = 0, proc[p].pc # "init",
         Settles(p, a, b), Counts(p), LinksCounted',
         busy' \in [Inums -> Procs \cup {None}],
         \A i \in Inums : /\ busy'[i] # p
                          /\ busy'[i] = busy[i] \/ (busy[i] \in {p, None} /\ busy'[i] = None)
  PROVE  IInv'
<1>1. /\ ref \in [Inums -> Int] /\ proc \in [Procs -> Process] /\ InUseTyped(p)
      /\ cwd \in [Procs -> Inums] /\ fd \in [Procs -> Inums \cup {0}]
  BY Here DEF TypeInv, TypeOK
<1>2. Idle \in Process /\ Idle.pc = "user" /\ Idle.freeing = "no"
  BY IdleProcess
<1>3. Drops(p, a, b, ref, Idle)
  BY DEF Return
<1>4. Balance(p, a, b, ref, Idle) /\ Knows(p, a, b, Idle) /\ Shuns(p, a, b, Idle)
  BY IdleSettles
<1>5. PlaceOK(p)' /\ DirOK(p)'
  <2>1. Dropped(p, a, b, ref, Idle)
    BY <1>1, <1>2, <1>3, DropsEffect
  <2> QED
    BY <2>1, IdleOK
<1>6. Flags(p, Idle)
  BY <1>2 DEF Flags
<1>7. InUseTyped(p)'
  BY <1>1 DEF InUseTyped
<1>8. /\ cwd' \in [Procs -> Inums] /\ fd' \in [Procs -> Inums \cup {0}]
      /\ \A q \in Procs \ {p} : cwd'[q] = cwd[q] /\ fd'[q] = fd[q]
      /\ Idle.pc \notin {"init", "ialloc", "child"} /\ UNCHANGED <<type, ents, panic, lost, dangling>>
  BY <1>1, <1>2
<1> QED
  BY <1>1, <1>2, <1>3, <1>4, <1>5, <1>6, <1>7, <1>8, DropStep

\* What a call is then rid of.
LEMMA IdleOf ==
  ASSUME IInv, panic = "none", UNCHANGED <<cwd, fd>>, NEW p \in Procs,
         NEW a \in Inums \cup {0}, NEW b \in Inums \cup {0}, a = b => a = 0,
         Return(p, a, b)
  PROVE  Only(p) /\ LinkOf(p)' = 0 /\ DropOf(p)' = 0
<1>1. /\ ref \in [Inums -> Int] /\ proc \in [Procs -> Process] 
      /\ cwd \in [Procs -> Inums] /\ fd \in [Procs -> Inums \cup {0}]
  BY Here DEF TypeInv, TypeOK
<1>2. Idle \in Process /\ Idle.pc = "user" /\ Idle.call = "open"
  BY IdleProcess
<1>3. Dropped(p, a, b, ref, Idle)
  BY <1>1, <1>2, DropsEffect DEF Return
<1> QED
  BY <1>1, <1>2, <1>3 DEF Only, Dropped, LinkOf, DropOf

LEMMA LinkBadStep ==
  ASSUME IInv, NEW p \in Procs, LinkBad(p)
  PROVE  IInv'
<1> DEFINE i == proc[p].ip
<1>0. /\ panic = "none" /\ proc[p].put = 0 /\ proc[p].pc = "bad" /\ CanLock(i)
      /\ nlink' = [nlink EXCEPT ![i] = @ - 1]
      /\ UNCHANGED <<type, ents, busy, cwd, fd, panic, lost, dangling>> /\ Return(p, i, 0)
  BY DEF LinkBad, At
<1>1. /\ TypeInv /\ BusyInv /\ 0 \notin Inums /\ i \in Inums /\ proc[p].freeing = "no"
      /\ cwd[p] \in Inums /\ fd[p] \in Inums \cup {0} /\ proc[p].cur = 0 /\ LinkOf(p) = i
      /\ DropOf(p) = 0 /\ Held(p, i) /\ type[i] # "free"
  BY <1>0, Here DEF PlaceOK, Walking, Entering, LinkOf, DropOf, RefTyped, Held
<1>2. Only(p) /\ LinkOf(p)' = 0 /\ DropOf(p)' = 0
  BY <1>0, <1>1, IdleOf
<1>3. nlink[i] \in Nat /\ nlink[i] >= 1
  <2>1. Linking(i) \in Nat /\ Linking(i) >= One(LinkOf(p) = i)
    BY <1>1, <1>2, LinkingChange
  <2>2. nlink[i] \in Nat /\ nlink[i] >= Linking(i)
    BY <1>1, LinkParts
  <2> QED
    BY <1>1, <2>1, <2>2 DEF One
<1>4. nlink' \in [Inums -> Nat] /\ \A j \in Inums : nlink'[j] = nlink[j] - One(i = j)
  BY <1>0, <1>1, <1>3 DEF TypeInv, TypeOK, One
<1>5. LinksCounted'
  <2>1. ASSUME NEW j \in Inums
        PROVE  nlink'[j] = nlink[j] - One(LinkOf(p) = j) + One(LinkOf(p)' = j)
                                    - One(DropOf(p) = j) + One(DropOf(p)' = j)
    <3>1. nlink'[j] = nlink[j] - One(i = j) /\ nlink[j] \in Int
      BY <1>1, <1>4 DEF TypeInv, TypeOK
    <3>2. One(0 = j) = 0 /\ One(i = j) \in Int
      BY <1>1 DEF One
    <3> QED
      BY <1>1, <1>2, <3>1, <3>2
  <2>2. nlink' \in [Inums -> Int]
    BY <1>4
  <2> QED
    BY <1>0, <1>1, <1>2, <2>1, <2>2, LinkMove DEF IInv
<1>6. Counts(p)
  <2>1. busy[i] = None
    BY <1>0 DEF CanLock
  <2> QED
    BY <1>0, <1>1, <1>4, <2>1 DEF Counts, TypeInv, TypeOK
<1>7. Settles(p, i, 0)
  <2>1. ASSUME NEW j \in Inums
        PROVE  One(i = j) + One(0 = j) = Base(p, j) - One(cwd'[p] = j) - One(fd'[p] = j)
    BY <1>0, <1>1 DEF Base, One
  <2>2. ~Shunned(p, i)
    BY <1>0, NotShunned
  <2> QED
    BY <1>0, <1>1, <2>1, <2>2 DEF Settles, Found, Held, Shunned
<1>8. /\ busy' \in [Inums -> Procs \cup {None}] 
      /\ \A j \in Inums : busy'[j] # p /\ busy'[j] = busy[j]
  BY <1>0, <1>1 DEF TypeInv, TypeOK, BusyInv, Locks, Entering
<1>9. proc[p].pc # "init" /\ i \in Inums \cup {0} /\ 0 \in Inums \cup {0} /\ i # 0
  BY <1>0, <1>1
<1> QED
  BY <1>0, <1>5, <1>6, <1>7, <1>8, <1>9, IdleStep

LEMMA UnlinkDropsStep ==
  ASSUME IInv, NEW p \in Procs, UnlinkDrops(p)
  PROVE  IInv'
<1> DEFINE i == proc[p].ip
<1>0. /\ panic = "none" /\ proc[p].put = 0 /\ proc[p].pc = "drop"
      /\ nlink' = [nlink EXCEPT ![i] = @ - 1] /\ busy' = [busy EXCEPT ![i] = None]
      /\ UNCHANGED <<type, ents, cwd, fd, panic, lost, dangling>> /\ Return(p, i, 0)
  BY DEF UnlinkDrops, At
<1>1. /\ TypeInv /\ BusyInv /\ 0 \notin Inums /\ i \in Inums /\ proc[p].freeing = "no"
      /\ cwd[p] \in Inums /\ fd[p] \in Inums \cup {0} /\ proc[p].cur = 0 /\ LinkOf(p) = 0
      /\ DropOf(p) = i /\ Held(p, i) /\ type[i] # "free"
  BY <1>0, Here DEF PlaceOK, Walking, Entering, LinkOf, DropOf, RefTyped, Held
<1>2. Only(p) /\ LinkOf(p)' = 0 /\ DropOf(p)' = 0
  BY <1>0, <1>1, IdleOf
<1>3. nlink[i] \in Nat /\ nlink[i] >= 1
  <2>1. Erasing(i) \in Nat /\ Erasing(i) >= One(DropOf(p) = i)
    BY <1>1, <1>2, ErasingChange
  <2>2. nlink[i] \in Nat /\ nlink[i] >= Erasing(i)
    BY <1>1, LinkParts
  <2> QED
    BY <1>1, <2>1, <2>2 DEF One
<1>4. nlink' \in [Inums -> Nat] /\ \A j \in Inums : nlink'[j] = nlink[j] - One(i = j)
  BY <1>0, <1>1, <1>3 DEF TypeInv, TypeOK, One
<1>5. LinksCounted'
  <2>1. ASSUME NEW j \in Inums
        PROVE  nlink'[j] = nlink[j] - One(LinkOf(p) = j) + One(LinkOf(p)' = j)
                                    - One(DropOf(p) = j) + One(DropOf(p)' = j)
    <3>1. nlink'[j] = nlink[j] - One(i = j) /\ nlink[j] \in Int
      BY <1>1, <1>4 DEF TypeInv, TypeOK
    <3>2. One(0 = j) = 0 /\ One(i = j) \in Int
      BY <1>1 DEF One
    <3> QED
      BY <1>1, <1>2, <3>1, <3>2
  <2>2. nlink' \in [Inums -> Int]
    BY <1>4
  <2> QED
    BY <1>0, <1>1, <1>2, <2>1, <2>2, LinkMove DEF IInv
<1>6. busy[i] = p
  BY <1>0, <1>1 DEF BusyInv, Locks
<1>7. Counts(p)
  BY <1>0, <1>1, <1>4, <1>6 DEF Counts, TypeInv, TypeOK
<1>8. Settles(p, i, 0)
  <2>1. ASSUME NEW j \in Inums
        PROVE  One(i = j) + One(0 = j) = Base(p, j) - One(cwd'[p] = j) - One(fd'[p] = j)
    BY <1>0, <1>1 DEF Base, One
  <2>2. ~Shunned(p, i)
    BY <1>6 DEF Shunned
  <2> QED
    BY <1>0, <1>1, <2>1, <2>2 DEF Settles, Found, Held, Shunned
<1>9. /\ busy' \in [Inums -> Procs \cup {None}] 
      /\ \A j \in Inums : /\ busy'[j] # p 
                          /\ busy'[j] = busy[j] \/ (busy[j] \in {p, None} /\ busy'[j] = None)
  <2>1. ASSUME NEW j \in Inums
        PROVE  /\ busy'[j] # p 
               /\ busy'[j] = busy[j] \/ (busy[j] \in {p, None} /\ busy'[j] = None)
    <3>1. busy'[j] = IF j = i THEN None ELSE busy[j]
      BY <1>0, <1>1 DEF TypeInv, TypeOK
    <3>2. busy[j] = p => j = i
      BY <1>0, <1>1 DEF BusyInv, Locks, Entering
    <3> QED
      BY <1>6, <3>1, <3>2, Basics
  <2> QED
    BY <1>0, <1>1, <2>1 DEF TypeInv, TypeOK
<1>10. proc[p].pc # "init" /\ i \in Inums \cup {0} /\ 0 \in Inums \cup {0} /\ i # 0
  BY <1>0, <1>1
<1> QED
  BY <1>0, <1>5, <1>7, <1>8, <1>9, <1>10, IdleStep

\* What unlink knows once it has the directory's flag.
LEMMA ChildFacts ==
  ASSUME IInv, NEW p \in Procs, At(p, "child"), CanLock(proc[p].ip)
  PROVE  /\ panic = "none" /\ proc[p].put = 0 /\ proc[p].pc = "child" /\ TypeInv /\ BusyInv
         /\ 0 \notin Inums /\ proc[p].ip \in Inums /\ proc[p].cur \in Inums
         /\ cwd[p] \in Inums /\ fd[p] \in Inums \cup {0} /\ proc[p].freeing = "no" /\ proc[p].later = 0
         /\ proc[p].call = "unlink" /\ LinkOf(p) = 0 /\ DropOf(p) = 0
         /\ LastName(p) \in Names /\ Entry(p) = proc[p].ip /\ type[proc[p].cur] = "dir"
         /\ busy[proc[p].cur] = p /\ busy[proc[p].ip] = None /\ proc[p].ip # proc[p].cur
         /\ type[proc[p].ip] # "free" /\ nlink[proc[p].ip] >= 1
         /\ \A j \in Inums : busy[j] = p => j = proc[p].cur
<1> DEFINE i == proc[p].ip
           d == proc[p].cur
<1>1. panic = "none" /\ proc[p].put = 0 /\ proc[p].pc = "child" /\ busy[i] = None
  BY DEF At, CanLock
<1>2. /\ TypeInv /\ BusyInv /\ 0 \notin Inums /\ i \in Inums /\ d \in Inums
      /\ cwd[p] \in Inums /\ fd[p] \in Inums \cup {0} /\ proc[p].freeing = "no" /\ proc[p].later = 0
      /\ proc[p].call = "unlink" /\ LinkOf(p) = 0 /\ DropOf(p) = 0
      /\ LastName(p) \in Names /\ Entry(p) = i /\ type[d] = "dir" /\ type[i] # "free"
  BY <1>1, Here DEF PlaceOK, DirOK, Entering, LinkOf, DropOf, RefTyped, Held
<1>3. busy[d] = p /\ \A j \in Inums : busy[j] = p => j = d
  BY <1>1, <1>2 DEF BusyInv, Locks, Entering
<1>4. i # d
  BY <1>1, <1>3, Basics
<1>5. nlink[i] >= 1
  <2>1. Entries(i) >= 1 /\ Entries(i) \in Nat
    BY <1>2, TreeCounts DEF Entry, TypeInv, TypeOK
  <2>2. nlink[i] \in Nat /\ nlink[i] >= Entries(i)
    BY <1>2, LinkParts
  <2> QED
    BY <2>1, <2>2
<1> QED
  BY <1>1, <1>2, <1>3, <1>4, <1>5

LEMMA UnlinkFails ==
  ASSUME IInv, NEW p \in Procs, At(p, "child"), CanLock(proc[p].ip),
         busy' = [busy EXCEPT ![proc[p].cur] = None],
         UNCHANGED <<tree, cwd, fd, panic, lost, dangling>>, Return(p, proc[p].ip, proc[p].cur)
  PROVE  IInv'
<1> DEFINE i == proc[p].ip
           d == proc[p].cur
<1>1. /\ panic = "none" /\ proc[p].put = 0 /\ proc[p].pc = "child" /\ TypeInv /\ BusyInv
      /\ 0 \notin Inums /\ i \in Inums /\ d \in Inums
      /\ cwd[p] \in Inums /\ fd[p] \in Inums \cup {0} /\ LinkOf(p) = 0 /\ DropOf(p) = 0
      /\ busy[d] = p /\ busy[i] = None /\ i # d /\ \A j \in Inums : busy[j] = p => j = d
  BY ChildFacts
<1>2. Only(p) /\ LinkOf(p)' = 0 /\ DropOf(p)' = 0
  BY <1>1, IdleOf
<1>3. LinksCounted'
  BY <1>1, <1>2, LinkSame DEF IInv
<1>4. Counts(p)
  BY CountsSame DEF tree
<1>5. Settles(p, i, d)
  <2>1. ASSUME NEW j \in Inums
        PROVE  One(i = j) + One(d = j) = Base(p, j) - One(cwd'[p] = j) - One(fd'[p] = j)
    BY <1>1 DEF Base, One
  <2>2. ~Shunned(p, i) /\ ~Shunned(p, d)
    BY <1>1 DEF Shunned
  <2> QED
    BY <1>1, <2>1, <2>2 DEF Settles, Found, Held, Shunned
<1>6. /\ busy' \in [Inums -> Procs \cup {None}] 
      /\ \A j \in Inums : /\ busy'[j] # p 
                          /\ busy'[j] = busy[j] \/ (busy[j] \in {p, None} /\ busy'[j] = None)
  <2>1. \A j \in Inums : busy'[j] = IF j = d THEN None ELSE busy[j]
    BY <1>1 DEF TypeInv, TypeOK
  <2> QED
    BY <1>1, <2>1, Basics DEF TypeInv, TypeOK
<1>7. proc[p].pc # "init" /\ i \in Inums \cup {0} /\ d \in Inums \cup {0} /\ UNCHANGED <<type, ents>>
  BY <1>1 DEF tree
<1> QED
  BY <1>1, <1>3, <1>4, <1>5, <1>6, <1>7, IdleStep
-----------------------------------------------------------------------------
\* The steps that change the tree: nothing in use becomes free, and p writes
\* only into inodes it holds and nobody else has locked, and enters only
\* inodes it holds, which for a name have no entries themselves.
Grows(p) ==
  /\ type' \in [Inums -> {"free", "file", "dir"}] /\ nlink' \in [Inums -> Nat]
  /\ ents' \in [Inums -> [Links -> Inums \cup {0}]]
  /\ \A j \in Inums :
       /\ type[j] # "free" => type'[j] = type[j]
       /\ nlink'[j] = nlink[j] \/ type[j] = "free" \/ (Held(p, j) /\ busy[j] \in {p, None})
       /\ ents'[j] = ents[j] \/ (Held(p, j) /\ busy[j] \in {p, None})
       /\ \A n \in Links : ents'[j][n] \in {ents[j][n], 0} \/ Held(p, ents'[j][n])
       /\ \A n \in Names : ents'[j][n] \in {ents[j][n], 0} \/ \A m \in Names : ents'[ents'[j][n]][m] = 0
FindsNew(p) == \A i \in Inums : Held(p, i)' => Found(p, i) \/ (type[i] = "free" /\ type'[i] # "free")
RowsOK == \A i \in Inums : /\ type[i] # "dir" => \A n \in Links : ents[i][n] = 0
                           /\ type[i] = "dir" /\ ~Fresh(i) => ents[i][".."] # 0

LEMMA AcyclicGrows ==
  ASSUME Acyclic, NEW p, Grows(p)
  PROVE  Acyclic'
<1> SUFFICES ASSUME NEW S \in SUBSET Inums, S # {}
             PROVE  \E i \in S : \A n \in Names : ents'[i][n] \notin S
  BY DEF Acyclic
<1>0. 0 \notin S
  BY Basics
<1>1. CASE \E e \in S : \A m \in Names : ents'[e][m] = 0
  BY <1>0, <1>1
<1>2. CASE ~ \E e \in S : \A m \in Names : ents'[e][m] = 0
  <2>1. PICK k \in S : \A n \in Names : ents[k][n] \notin S
    BY DEF Acyclic
  <2>2. ASSUME NEW n \in Names PROVE ents'[k][n] \notin S
    <3>1. ents'[k][n] \in {ents[k][n], 0} \/ \A m \in Names : ents'[ents'[k][n]][m] = 0
      BY DEF Grows
    <3> QED
      BY <1>0, <1>2, <2>1, <3>1
  <2> QED
    BY <2>2
<1> QED
  BY <1>1, <1>2

\* An inode that is in use before such a step still is.
LEMMA GrowsTyped ==
  ASSUME IInv, panic = "none", NEW p \in Procs, Grows(p)
  PROVE  EntriesTyped' /\ UpTyped'
<1>0. RefTyped(p) /\ EntriesTyped /\ UpTyped
  BY Here DEF IInv
<1>1. ASSUME NEW j \in Inums, NEW n \in Links, ents'[j][n] # 0
      PROVE  type'[ents'[j][n]] # "free"
  <2> DEFINE e == ents'[j][n]
  <2>1. e \in Inums
    BY <1>1 DEF Grows
  <2>2. e \in {ents[j][n], 0} \/ Held(p, e)
    BY DEF Grows
  <2>3. type[e] # "free"
    BY <1>0, <1>1, <2>1, <2>2 DEF RefTyped, EntriesTyped, UpTyped, Links
  <2> QED
    BY <2>1, <2>3 DEF Grows
<1> QED
  BY <1>1, Basics DEF EntriesTyped, UpTyped

LEMMA TreeStep ==
  ASSUME IInv, panic = "none", UNCHANGED <<panic, lost, dangling>>,
         NEW p \in Procs, Only(p), RefMoves(p), BusyMoves(p), FindsNew(p), Grows(p),
         LinksCounted', RowsOK',
         PlaceOK(p)', DirOK(p)', InUseTyped(p)', FreshInv(p)', FreeInv(p)',
         \A r \in Procs \ {p} : proc[r].freeing = "itrunc" => FreeFor(r, proc[r].put, p)'
  PROVE  IInv'
<1>0. TypeInv /\ BusyInv
  BY DEF IInv, RefInv
<1>1. RefInv'
  <2>1. TypeInv'
    BY <1>0, RefStep, NatCounts DEF TypeInv, TypeOK, IInv, Only, BusyMoves, Grows
  <2> QED
    BY <2>1, RefStep DEF RefInv, IInv
<1>2. BusyInv'
  BY BusyStep DEF IInv
<1>3. ASSUME NEW q \in Procs, q # p
      PROVE  PlaceOK(q)' /\ InUseTyped(q)' /\ DirOK(q)' /\ RefTyped(q)'
  <2>1. /\ proc'[q] = proc[q] /\ cwd'[q] = cwd[q] /\ fd'[q] = fd[q]
        /\ PlaceOK(q) /\ InUseTyped(q) /\ DirOK(q) /\ RefTyped(q)
        /\ cwd[q] \in Inums /\ fd[q] \in Inums \cup {0} 
        /\ proc[q].cur \in Inums \cup {0} /\ proc[q].ip \in Inums \cup {0}
    BY <1>3, Here DEF Only
  <2>2. PlaceOK(q)'
    BY <2>1 DEF PlaceOK, StopsEarly, Parent, Creates, LastName
  <2>3. \A i \in Inums : type[i] # "free" => type'[i] = type[i]
    BY DEF Grows
  <2>4. proc[q].pc \in Entering => Entry(q)' = Entry(q)
    <3> SUFFICES ASSUME proc[q].pc \in Entering PROVE Entry(q)' = Entry(q)
      OBVIOUS
    <3>1. proc[q].cur \in Inums
      BY <2>1 DEF PlaceOK
    <3>2. busy[proc[q].cur] = q
      BY <1>0, <3>1 DEF BusyInv, Locks
    <3>3. ents'[proc[q].cur] = ents[proc[q].cur]
      BY <1>3, <3>1, <3>2, Basics DEF Grows
    <3> QED
      BY <2>1, <3>3 DEF Entry, LastName
  <2>5. DirOK(q)'
    BY <2>1, <2>3, <2>4 DEF DirOK, PlaceOK, StopsEarly, Parent, Entering, Walking
  <2>6. InUseTyped(q)' /\ RefTyped(q)'
    BY <2>1, <2>3 DEF RefTyped, Held, InUseTyped
  <2> QED
    BY <2>2, <2>5, <2>6
<1>4. RefTyped(p)'
  <2> SUFFICES ASSUME NEW i \in Inums, Held(p, i)' PROVE type'[i] # "free"
    BY DEF RefTyped
  <2>0. type[i] # "free" => type'[i] # "free"
    BY DEF Grows
  <2>1. CASE Held(p, i)
    BY <1>0, <2>0, <2>1 DEF IInv, ProcInv, RefTyped
  <2>2. CASE i = Root
    BY <2>0, <2>2 DEF IInv, TreeInv
  <2>3. ASSUME NEW j \in Inums, NEW n \in Links, ents[j][n] = i PROVE type[i] # "free"
    <3>1. i # 0
      BY Basics
    <3> QED
      BY <1>0, <2>3, <3>1 DEF IInv, EntriesTyped, UpTyped, Links
  <2> QED
    BY <2>0, <2>1, <2>2, <2>3 DEF FindsNew, Found
<1>5. ASSUME NEW r \in Procs, r # p, proc[r].pc = "init"
      PROVE  FreshInv(r)'
  <2> DEFINE i == proc[r].ip
  <2>1. /\ proc'[r] = proc[r] /\ cwd'[r] = cwd[r] /\ fd'[r] = fd[r]
        /\ ProcInv(r) /\ FreshInv(r) /\ i \in Inums
    BY <1>0, <1>5 DEF Only, IInv, ProcInv, TypeInv, TypeOK, Process, PlaceOK
  <2>2. /\ FreshInode(r, i) /\ ~Held(p, i)
        /\ cwd[r] # i /\ fd[r] # i /\ proc[r].cur # i
        /\ \A q \in Procs \ {r} : ~Held(q, i)
    BY <1>5, <2>1 DEF FreshInv
  <2>3. type[i] # "free"
    BY <2>2 DEF FreshInode, NewType
  <2>4. ~Held(p, i)'
    BY <2>1, <2>2, <2>3 DEF FindsNew, Found, FreshInode
  <2>5. ASSUME NEW q \in Procs, q # r PROVE ~Held(q, i)'
    <3>1. CASE q = p
      BY <2>4, <3>1
    <3>2. CASE q # p
      BY <2>1, <2>2, <2>5, <3>2 DEF Held, Only
    <3> QED
      BY <3>1, <3>2
  <2>6. nlink'[i] = nlink[i] /\ ents'[i] = ents[i] /\ type'[i] = type[i]
    BY <2>1, <2>2, <2>3 DEF Grows
  <2>7. ASSUME NEW j \in Inums, NEW n \in Links PROVE ents'[j][n] # i
    <3>1. ents'[j][n] \in {ents[j][n], 0} \/ Held(p, ents'[j][n])
      BY DEF Grows
    <3> QED
      BY <2>1, <2>2, <3>1, Basics DEF FreshInode
  <2>8. FreshInode(r, i)'
    BY <2>1, <2>2, <2>6, <2>7 DEF FreshInode, NewType
  <2> QED
    BY <2>1, <2>2, <2>5, <2>8 DEF FreshInv
<1>6. ASSUME NEW r \in Procs, r # p PROVE FreshInv(r)'
  <2>1. proc'[r] = proc[r]
    BY <1>6 DEF Only
  <2> QED
    BY <1>5, <1>6, <2>1 DEF FreshInv
<1>8. ASSUME NEW r \in Procs, r # p PROVE FreeInv(r)'
  <2> DEFINE i == proc[r].put
  <2>1. /\ proc'[r] = proc[r] /\ ProcInv(r)
    BY <1>8 DEF Only, IInv
  <2> SUFFICES ASSUME proc[r].freeing = "itrunc" PROVE FreeInv(r)'
    BY <2>1 DEF FreeInv
  <2>2. /\ i \in Inums /\ nlink[i] = 0 /\ i # Root /\ type[i] # "free"
        /\ \A q \in Procs : FreeFor(r, i, q)
    BY <1>0, <2>1 DEF ProcInv, PlaceOK, FreeInv, TypeInv, TypeOK, Process
  <2>3. busy[i] = r
    BY <1>0, <2>1, <2>2 DEF BusyInv, Locks
  <2>4. nlink'[i] = 0 /\ type'[i] = type[i]
    BY <1>8, <2>2, <2>3, Basics DEF Grows
  <2>5. ASSUME NEW q \in Procs PROVE FreeFor(r, i, q)'
    <3>1. CASE q = p
      BY <1>8, <2>1, <3>1 DEF FreeFor
    <3>2. CASE q # p
      BY <2>1, <2>2, <3>2 DEF FreeFor, Only
    <3> QED
      BY <3>1, <3>2
  <2> QED
    BY <2>1, <2>2, <2>4, <2>5 DEF FreeInv
<1>9. \A q \in Procs : ProcInv(q)'
  BY <1>3, <1>4, <1>6, <1>8 DEF ProcInv
<1>10. TreeInv'
  <2>1. type'[Root] = "dir"
    BY Basics DEF IInv, TreeInv, Grows
  <2>2. ASSUME NEW i \in Inums, type'[i] = "free" PROVE lost'[i] = 0
    <3>1. type[i] = "free"
      BY <2>2 DEF Grows
    <3> QED
      BY <3>1 DEF IInv, TreeInv
  <2> QED
    BY <2>1, <2>2 DEF TreeInv, RowsOK
<1>11. EntriesTyped' /\ UpTyped' /\ Acyclic' /\ (panic \in Panics1)'
  BY <1>0, GrowsTyped, AcyclicGrows DEF IInv
<1> QED
  BY <1>1, <1>2, <1>9, <1>10, <1>11 DEF IInv
-----------------------------------------------------------------------------
IsDir(e) == e # 0 /\ type[e] = "dir"

\* Only what directory d has under the name n is changed.
OneCell(d, n) == /\ ents \in [Inums -> [Links -> Inums \cup {0}]]
                 /\ ents' \in [Inums -> [Links -> Inums \cup {0}]]
                 /\ \A j \in Inums, m \in Names : (j = d /\ m = n) \/ ents'[j][m] = ents[j][m]

LEMMA EntriesChange ==
  ASSUME NEW d \in Inums, NEW n \in Names, OneCell(d, n), NEW i \in Inums
  PROVE  /\ Entries(i) \in Nat /\ Entries(i)' \in Nat
         /\ Entries(i)' = Entries(i) - One(ents[d][n] = i) + One(ents'[d][n] = i)
<1> DEFINE S == Inums \X Names
           x == <<d, n>>
           A == {y \in S : ents[y[1]][y[2]] = i}
           B == {y \in S : ents'[y[1]][y[2]] = i}
<1>1. IsFiniteSet(S) /\ x \in S
  BY Basics, FS_Product
<1>2. ASSUME NEW y \in S, y # x PROVE ents'[y[1]][y[2]] = ents[y[1]][y[2]]
  <2>1. y[1] \in Inums /\ y[2] \in Names /\ ~(y[1] = d /\ y[2] = n)
    BY <1>2
  <2> QED
    BY <2>1 DEF OneCell
<1>3. A \ {x} = B \ {x} /\ A \in SUBSET S /\ B \in SUBSET S
  BY <1>2
<1>4. (x \in A <=> ents[d][n] = i) /\ (x \in B <=> ents'[d][n] = i)
  BY <1>1
<1>5. Entries(i) = Cardinality(A) /\ Entries(i)' = Cardinality(B)
  BY DEF Entries
<1> HIDE DEF S, A, B, x
<1>6. /\ Cardinality(A) \in Nat /\ Cardinality(B) \in Nat
      /\ Cardinality(B) = Cardinality(A) - One(x \in A) + One(x \in B)
  BY <1>1, <1>3, Differ
<1> QED
  BY <1>4, <1>5, <1>6 DEF One

LEMMA SubdirsChange ==
  ASSUME NEW d \in Inums, NEW n \in Names, OneCell(d, n), type' = type, NEW i \in Inums
  PROVE  /\ Subdirs(i) \in Nat /\ Subdirs(i)' \in Nat
         /\ Subdirs(i)' = IF i = d THEN Subdirs(i) - One(IsDir(ents[d][n])) + One(IsDir(ents'[d][n]))
                                   ELSE Subdirs(i)
<1> DEFINE A == {m \in Names : ents[i][m] # 0 /\ type[ents[i][m]] = "dir"}
           B == {m \in Names : ents'[i][m] # 0 /\ type[ents'[i][m]] = "dir"}
<1>1. IsFiniteSet(Names) /\ A \in SUBSET Names /\ B \in SUBSET Names
  BY Basics
<1>2. Subdirs(i) = Cardinality(A) /\ Subdirs(i)' = Cardinality(B)
  BY DEF Subdirs
<1>3. \A m \in Names : (i = d /\ m = n) \/ ents'[i][m] = ents[i][m]
  BY DEF OneCell
<1>4. A \ {n} = B \ {n} /\ (i # d => A = B)
  BY <1>3
<1>5. i = d => (n \in A <=> IsDir(ents[d][n])) /\ (n \in B <=> IsDir(ents'[d][n]))
  BY DEF IsDir
<1> HIDE DEF A, B
<1>6. /\ Cardinality(A) \in Nat /\ Cardinality(B) \in Nat
      /\ Cardinality(B) = Cardinality(A) - One(n \in A) + One(n \in B)
  BY <1>1, <1>4, Differ
<1> QED
  BY <1>2, <1>4, <1>5, <1>6 DEF One

\* The link counts follow the one entry that is changed, the subdirectories
\* of its directory, and the links and erased entries p has in hand.
LinkDelta(p, i) == One(LinkOf(p)' = i) - One(LinkOf(p) = i) 
DropDelta(p, i) == One(DropOf(p)' = i) - One(DropOf(p) = i) 
CellDelta(d, n, i) == One(ents'[d][n] = i) - One(ents[d][n] = i)
DirDelta(d, n, i) == IF i = d THEN One(IsDir(ents'[d][n])) - One(IsDir(ents[d][n])) ELSE 0

LEMMA CellMove ==
  ASSUME TypeInv, LinksCounted, type' = type, UNCHANGED <<lost, dangling>>, NEW p \in Procs, Only(p),
         NEW d \in Inums, NEW n \in Names, OneCell(d, n), nlink' \in [Inums -> Int],
         \A i \in Inums : nlink'[i] = nlink[i] + LinkDelta(p, i) + DropDelta(p, i)
                                               + CellDelta(d, n, i) + DirDelta(d, n, i)
  PROVE  LinksCounted'
<1> SUFFICES ASSUME NEW i \in Inums, type'[i] # "free"
             PROVE  nlink'[i] = Entries(i)' + Subdirs(i)' + Linking(i)' + Erasing(i)'
                              + lost'[i] + (IF i = Root THEN 1 ELSE 0)
  BY DEF LinksCounted
<1> DEFINE e == Entries(i)
           s == Subdirs(i)
           l == Linking(i)
           z == Erasing(i)
           r == IF i = Root THEN 1 ELSE 0
           k == nlink[i]
           h == lost[i]
           dl == LinkDelta(p, i)
           dd == DropDelta(p, i)
           dc == CellDelta(d, n, i)
           ds == DirDelta(d, n, i)
<1>1. dl \in Int /\ dd \in Int /\ dc \in Int /\ ds \in Int
  BY DEF One, LinkDelta, DropDelta, CellDelta, DirDelta
<1>2. e \in Int /\ e' = e + dc
  <2>1. /\ e \in Nat /\ e' = e - One(ents[d][n] = i) + One(ents'[d][n] = i)
    BY EntriesChange
  <2> QED
    BY <2>1 DEF One, CellDelta
<1>3. s \in Int /\ s' = s + ds
  <2>1. /\ s \in Nat 
        /\ s' = IF i = d THEN s - One(IsDir(ents[d][n])) + One(IsDir(ents'[d][n])) ELSE s
    BY SubdirsChange
  <2>2. ds = IF i = d THEN One(IsDir(ents'[d][n])) - One(IsDir(ents[d][n])) ELSE 0
    BY DEF DirDelta
  <2> HIDE DEF s, ds
  <2> QED
    BY <2>1, <2>2 DEF One
<1>4. l \in Int /\ l' = l + dl
  <2>1. l \in Nat /\ l' = l - One(LinkOf(p) = i) + One(LinkOf(p)' = i)
    BY LinkingChange
  <2> QED
    BY <2>1 DEF One, LinkDelta
<1>5. z \in Int /\ z' = z + dd
  <2>1. z \in Nat /\ z' = z - One(DropOf(p) = i) + One(DropOf(p)' = i)
    BY ErasingChange
  <2> QED
    BY <2>1 DEF One, DropDelta
<1>6. k \in Int /\ h \in Int /\ h' = h /\ r \in Int
  BY DEF TypeInv, TypeOK
<1>7. k = e + s + l + z + h + r
  BY DEF LinksCounted
<1>8. nlink'[i] = k + dl + dd + dc + ds
  OBVIOUS
<1>9. k + dl + dd + dc + ds = (e + dc) + (s + ds) + (l + dl) + (z + dd) + h + r
  <2>1. e \in Int /\ s \in Int /\ l \in Int /\ z \in Int
    BY <1>2, <1>3, <1>4, <1>5
  <2> HIDE DEF e, s, l, z, r, k, h, dl, dd, dc, ds
  <2> QED
    BY <1>1, <1>6, <1>7, <2>1
<1>10. nlink'[i] = e' + s' + l' + z' + h' + r
  <2> HIDE DEF e, s, l, z, r, k, h, dl, dd, dc, ds
  <2> QED
    BY <1>2, <1>3, <1>4, <1>5, <1>6, <1>8, <1>9
<1> QED
  BY <1>10
-----------------------------------------------------------------------------
\* A directory only loses its flag ".." with itself.
LEMMA RowsKept ==
  ASSUME IInv, NEW p \in Procs, Only(p), proc[p].pc # "init", type' = type,
         NEW d \in Inums, NEW n \in Names, type[d] = "dir",
         \A j \in Inums, m \in Links : (j = d /\ m = n) \/ ents'[j][m] = ents[j][m]
  PROVE  RowsOK'
<1>1. ASSUME NEW j \in Inums, type'[j] # "dir", NEW m \in Links PROVE ents'[j][m] = 0
  BY <1>1 DEF IInv, TreeInv
<1>2. ASSUME NEW j \in Inums, type'[j] = "dir", ~Fresh(j)' PROVE ents'[j][".."] # 0
  <2>1. ~Fresh(j)
    BY <1>2 DEF Fresh, Only
  <2> QED
    BY <1>2, <2>1, Basics DEF IInv, TreeInv
<1> QED
  BY <1>1, <1>2 DEF RowsOK

LEMMA UnlinkErases ==
  ASSUME IInv, NEW p \in Procs, At(p, "child"), CanLock(proc[p].ip),
         Erased(proc[p].cur, proc[p].ip, LastName(p)),
         busy' = [busy EXCEPT ![proc[p].cur] = None, ![proc[p].ip] = p],
         UNCHANGED <<type, cwd, fd, panic, lost, dangling>>,
         Drops(p, proc[p].cur, 0, ref, [proc[p] EXCEPT !.pc = "drop", !.cur = 0, !.path = <<>>])
  PROVE  IInv'
<1> DEFINE i == proc[p].ip
           d == proc[p].cur
           n == LastName(p)
           r == [proc[p] EXCEPT !.pc = "drop", !.cur = 0, !.path = <<>>]
<1>1. /\ panic = "none" /\ proc[p].put = 0 /\ proc[p].pc = "child" /\ TypeInv /\ BusyInv
      /\ 0 \notin Inums /\ i \in Inums /\ d \in Inums
      /\ cwd[p] \in Inums /\ fd[p] \in Inums \cup {0} /\ proc[p].freeing = "no" /\ proc[p].later = 0
      /\ proc[p].call = "unlink" /\ LinkOf(p) = 0 /\ DropOf(p) = 0
      /\ n \in Names /\ ents[d][n] = i /\ type[d] = "dir"
      /\ busy[d] = p /\ busy[i] = None /\ i # d
      /\ type[i] # "free" /\ \A j \in Inums : busy[j] = p => j = d
  BY ChildFacts DEF Entry
<1>2. /\ ref \in [Inums -> Int] /\ proc \in [Procs -> Process] /\ proc[p] \in Process /\ InUseTyped(p)
      /\ Held(p, d) /\ Held(p, i)
  BY <1>1, Here DEF Held
<1>3. /\ r \in Process /\ r.pc = "drop" /\ r.call = "unlink" /\ r.cur = 0
      /\ r.ip = i /\ r.freeing = "no"
  <2>1. <<>> \in Seq(Links)
    OBVIOUS
  <2> QED
    BY <1>1, <1>2, <2>1 DEF Process, Places
<1>4. Drops(p, d, 0, ref, r)
  OBVIOUS
<1> HIDE DEF r
<1>5. Balance(p, d, 0, ref, r)
  <2>1. ASSUME NEW j \in Inums
        PROVE  ref[j] - One(d = j) - One(0 = j) = ref[j] - Base(p, j) 
                 + One(cwd'[p] = j) + One(fd'[p] = j) + One(r.cur = j) + One(r.ip = j)
    <3>1. ref[j] \in Int /\ One(0 = j) = 0
      BY <1>1, <1>2 DEF One
    <3>2. Base(p, j) = One(cwd'[p] = j) + One(fd'[p] = j) + One(d = j) + One(i = j)
      BY DEF Base
    <3> HIDE DEF d, i
    <3> QED
      BY <1>3, <3>1, <3>2 DEF One
  <2> QED
    BY <2>1 DEF Balance
<1>6. Knows(p, d, 0, r)
  BY <1>1, <1>2, <1>3 DEF Knows, Found, Held
<1>7. Shuns(p, d, 0, r)
  BY <1>1, <1>3 DEF Shuns, Shunned
<1>8. \A j \in Inums : busy'[j] = IF j = i THEN p ELSE IF j = d THEN None ELSE busy[j]
  BY <1>1 DEF TypeInv, TypeOK
<1>9. Flags(p, r)
  BY <1>1, <1>3, <1>8, Basics DEF Flags, TypeInv, TypeOK
<1>10. /\ cwd' \in [Procs -> Inums] /\ fd' \in [Procs -> Inums \cup {0}]
       /\ \A q \in Procs \ {p} : cwd'[q] = cwd[q] /\ fd'[q] = fd[q]
  BY <1>1 DEF TypeInv, TypeOK
<1>20. d \in Inums \cup {0} /\ 0 \in Inums \cup {0} /\ (d = 0 => d = 0)
  BY <1>1
<1>11. /\ Only(p) /\ RefMoves(p) /\ BusyMoves(p) /\ Finds(p) /\ FreeInv(p)'
       /\ \A q \in Procs \ {p} : proc[q].freeing = "itrunc" => FreeFor(q, proc[q].put, p)'
       /\ proc'[p].pc = "drop" /\ proc'[p].call = "unlink" /\ proc'[p].cur = 0
       /\ proc'[p].ip = i /\ proc'[p].freeing = "no"
       /\ proc'[p].put = 0 => proc'[p].later = 0
  <2>1. panic = "none" /\ proc[p].put = 0 /\ r.freeing = "no" /\ ref \in [Inums -> Int]
        /\ r \in Process /\ r.pc \notin {"init", "ialloc", "child"}
    BY <1>1, <1>2, <1>3
  <2> HIDE DEF d, i
  <2>2. /\ Only(p) /\ RefMoves(p) /\ BusyMoves(p) /\ Finds(p) /\ FreeInv(p)'
        /\ \A q \in Procs \ {p} : proc[q].freeing = "itrunc" => FreeFor(q, proc[q].put, p)'
        /\ proc'[p].pc = r.pc /\ proc'[p].call = r.call /\ proc'[p].cur = r.cur
        /\ proc'[p].path = r.path /\ proc'[p].ip = r.ip /\ proc'[p].freeing = "no"
        /\ proc'[p].put = 0 => proc'[p].later = 0
    BY <1>4, <1>5, <1>6, <1>7, <1>9, <1>10, <1>20, <2>1, DropParts
  <2> QED
    BY <1>3, <2>2
<1>12. /\ ents' \in [Inums -> [Links -> Inums \cup {0}]] /\ ents'[d][n] = 0
       /\ \A j \in Inums, m \in Links : (j = d /\ m = n) \/ ents'[j][m] = ents[j][m]
       /\ \A j \in Inums : j # d => ents'[j] = ents[j]
  <2>1. ents' = [ents EXCEPT ![d][n] = 0] /\ n \in Links
    BY <1>1, Basics DEF Erased
  <2> QED
    BY <1>1, <2>1 DEF TypeInv, TypeOK
<1>13. /\ nlink' \in [Inums -> Nat]
       /\ \A j \in Inums : nlink'[j] = nlink[j] - One(j = d /\ type[i] = "dir")
  <2>1. nlink' = IF type[i] = "dir" THEN [nlink EXCEPT ![d] = @ - 1] ELSE nlink
    BY DEF Erased
  <2>2. type[i] = "dir" => nlink[d] >= 1
    <3> SUFFICES ASSUME type[i] = "dir" PROVE nlink[d] >= 1
      OBVIOUS
    <3>1. Subdirs(d) \in Nat /\ Subdirs(d) >= 1
      BY <1>1, TreeCounts DEF TypeInv, TypeOK
    <3>2. nlink[d] \in Nat /\ nlink[d] >= Subdirs(d)
      BY <1>1, LinkParts
    <3> QED
      BY <3>1, <3>2
  <2>3. nlink \in [Inums -> Nat]
    BY <1>1 DEF TypeInv, TypeOK
  <2> QED
    BY <1>1, <2>1, <2>2, <2>3 DEF One
<1>14. Grows(p)
  <2>1. ASSUME NEW j \in Inums
        PROVE  nlink'[j] = nlink[j] \/ (Held(p, j) /\ busy[j] \in {p, None})
    <3>1. CASE j = d
      BY <1>1, <1>2, <3>1
    <3>2. CASE j # d
      BY <1>1, <1>13, <3>2 DEF One, TypeInv, TypeOK
    <3> QED
      BY <3>1, <3>2
  <2>2. ASSUME NEW j \in Inums
        PROVE  /\ ents'[j] = ents[j] \/ (Held(p, j) /\ busy[j] \in {p, None})
               /\ \A m \in Links : ents'[j][m] \in {ents[j][m], 0}
    BY <1>1, <1>2, <1>12
  <2> QED
    BY <1>1, <1>12, <1>13, <2>1, <2>2, Basics DEF Grows, TypeInv, TypeOK
<1>15. LinksCounted'
  <2>1. OneCell(d, n)
    BY <1>1, <1>12, Basics DEF OneCell, TypeInv, TypeOK
  <2>2. LinkOf(p)' = 0 /\ DropOf(p)' = i
    BY <1>11 DEF LinkOf, DropOf
  <2>3. ASSUME NEW j \in Inums
        PROVE  nlink'[j] = nlink[j] + LinkDelta(p, j) + DropDelta(p, j)
                                    + CellDelta(d, n, j) + DirDelta(d, n, j)
    <3>1. LinkDelta(p, j) = 0 /\ DropDelta(p, j) = One(i = j) /\ CellDelta(d, n, j) = 0 - One(i = j)
      BY <1>1, <1>12, <2>2 DEF LinkDelta, DropDelta, CellDelta, One
    <3>2. DirDelta(d, n, j) = 0 - One(j = d /\ type[i] = "dir")
      BY <1>1, <1>12 DEF DirDelta, One, IsDir
    <3>3. nlink'[j] = nlink[j] - One(j = d /\ type[i] = "dir") /\ nlink[j] \in Int
      BY <1>1, <1>13 DEF TypeInv, TypeOK
    <3>4. One(i = j) \in Int /\ One(j = d /\ type[i] = "dir") \in Int
      BY DEF One
    <3> QED
      BY <3>1, <3>2, <3>3, <3>4
  <2>4. nlink' \in [Inums -> Int] /\ LinksCounted
    BY <1>13 DEF IInv
  <2> QED
    BY <1>1, <1>11, <2>1, <2>3, <2>4, CellMove
<1>16. RowsOK'
  BY <1>1, <1>11, <1>12, RowsKept
<1>17. FindsNew(p)
  BY <1>11 DEF Finds, FindsNew, Found
<1>18. PlaceOK(p)' /\ DirOK(p)' /\ InUseTyped(p)' /\ FreshInv(p)'
  BY <1>1, <1>2, <1>11 
     DEF PlaceOK, DirOK, InUseTyped, FreshInv, Walking, Entering, StopsEarly, Parent, Creates
<1> QED
  BY <1>1, <1>11, <1>14, <1>15, <1>16, <1>17, <1>18, TreeStep

LEMMA UnlinkChildStep ==
  ASSUME IInv, NEW p \in Procs, UnlinkChild(p)
  PROVE  IInv'
<1> DEFINE i == proc[p].ip
           d == proc[p].cur
<1>1. At(p, "child") /\ CanLock(i)
  BY DEF UnlinkChild
<1>2. type[i] # "free" /\ nlink[i] >= 1 /\ nlink[i] \in Nat
  BY <1>1, ChildFacts DEF TypeInv, TypeOK
<1>3. ~NoType(i)
  BY <1>2 DEF NoType
<1>6. ~(nlink[i] < 1)
  BY <1>2
<1>4. CASE /\ busy' = [busy EXCEPT ![d] = None]
           /\ UNCHANGED <<tree, cwd, fd, panic, lost, dangling>>
           /\ Return(p, i, d)
  BY <1>1, <1>4, UnlinkFails
<1>5. CASE /\ Erased(d, i, LastName(p))
           /\ busy' = [busy EXCEPT ![d] = None, ![i] = p]
           /\ UNCHANGED <<type, cwd, fd, panic, lost, dangling>>
           /\ Drops(p, d, 0, ref, [proc[p] EXCEPT !.pc = "drop", !.cur = 0, !.path = <<>>])
  BY <1>1, <1>5, UnlinkErases
<1> QED
  BY <1>3, <1>4, <1>5, <1>6 DEF UnlinkChild
-----------------------------------------------------------------------------
\* The end of a call that has changed the tree.
LEMMA IdleParts ==
  ASSUME IInv, panic = "none", NEW p \in Procs,
         NEW a \in Inums \cup {0}, NEW b \in Inums \cup {0}, a = b => a = 0,
         Return(p, a, b), proc[p].put = 0,
         cwd' \in [Procs -> Inums], fd' \in [Procs -> Inums \cup {0}],
         \A q \in Procs \ {p} : cwd'[q] = cwd[q] /\ fd'[q] = fd[q],
         Settles(p, a, b),
         busy' \in [Inums -> Procs \cup {None}],
         \A i \in Inums : /\ busy'[i] # p
                          /\ busy'[i] = busy[i] \/ (busy[i] \in {p, None} /\ busy'[i] = None)
  PROVE  /\ Only(p) /\ RefMoves(p) /\ BusyMoves(p) /\ FindsNew(p) /\ FreeInv(p)'
         /\ \A q \in Procs \ {p} : proc[q].freeing = "itrunc" => FreeFor(q, proc[q].put, p)'
         /\ PlaceOK(p)' /\ DirOK(p)' /\ FreshInv(p)' /\ LinkOf(p)' = 0 /\ DropOf(p)' = 0
         /\ proc'[p].pc = "user"
<1>1. ref \in [Inums -> Int] /\ proc \in [Procs -> Process]
  BY Here
<1>2. /\ Idle \in Process /\ Idle.pc = "user" /\ Idle.freeing = "no" /\ Idle.call = "open"
      /\ Idle.pc \notin {"init", "ialloc", "child"}
  BY IdleProcess
<1>3. Drops(p, a, b, ref, Idle)
  BY DEF Return
<1>4. Balance(p, a, b, ref, Idle) /\ Knows(p, a, b, Idle) /\ Shuns(p, a, b, Idle)
  BY IdleSettles
<1>5. PlaceOK(p)' /\ DirOK(p)'
  <2>1. Dropped(p, a, b, ref, Idle)
    BY <1>1, <1>2, <1>3, DropsEffect
  <2> QED
    BY <2>1, IdleOK
<1>6. Flags(p, Idle)
  BY <1>2 DEF Flags
<1>7. /\ Only(p) /\ RefMoves(p) /\ BusyMoves(p) /\ Finds(p) /\ FreeInv(p)'
      /\ \A q \in Procs \ {p} : proc[q].freeing = "itrunc" => FreeFor(q, proc[q].put, p)'
      /\ proc'[p].pc = Idle.pc /\ proc'[p].call = Idle.call
  <2> DEFINE r == Idle
  <2>1. r \in Process /\ r.freeing = "no" /\ r.pc \notin {"init", "ialloc", "child"}
    BY <1>2
  <2>2. Drops(p, a, b, ref, r) /\ Balance(p, a, b, ref, r) /\ Knows(p, a, b, r) /\ Shuns(p, a, b, r) /\ Flags(p, r)
    BY <1>3, <1>4, <1>6
  <2> HIDE DEF r
  <2>3. /\ Only(p) /\ RefMoves(p) /\ BusyMoves(p) /\ Finds(p) /\ FreeInv(p)'
        /\ \A q \in Procs \ {p} : proc[q].freeing = "itrunc" => FreeFor(q, proc[q].put, p)'
        /\ proc'[p].pc = r.pc /\ proc'[p].call = r.call /\ proc'[p].cur = r.cur
        /\ proc'[p].path = r.path /\ proc'[p].ip = r.ip /\ proc'[p].freeing = "no"
        /\ proc'[p].put = 0 => proc'[p].later = 0
    BY <1>1, <2>1, <2>2, DropParts
  <2> QED
    BY <2>3 DEF r
<1>8. FindsNew(p) /\ LinkOf(p)' = 0 /\ DropOf(p)' = 0 /\ FreshInv(p)'
  BY <1>2, <1>7 DEF Finds, FindsNew, Found, LinkOf, DropOf, FreshInv
<1> QED
  BY <1>2, <1>5, <1>7, <1>8

LEMMA LinkEnter ==
  ASSUME IInv, NEW p \in Procs, In(p, "link", "found"), proc[p].ip # 0, Entry(p) = 0,
         ents' = [ents EXCEPT ![proc[p].cur][LastName(p)] = proc[p].ip],
         UNCHANGED <<type, nlink, busy, cwd, fd, panic, lost, dangling>>, Return(p, proc[p].cur, proc[p].ip)
  PROVE  IInv'
<1> DEFINE i == proc[p].ip
           d == proc[p].cur
           n == LastName(p)
<1>1. /\ panic = "none" /\ proc[p].put = 0 /\ proc[p].pc = "found" /\ proc[p].call = "link"
      /\ busy[d] = None /\ StopsEarly(p)
  BY DEF In, At, CanLock, StopsEarly
<1>2. /\ TypeInv /\ BusyInv /\ 0 \notin Inums /\ i \in Inums /\ d \in Inums /\ InUseTyped(p)
      /\ cwd[p] \in Inums /\ fd[p] \in Inums \cup {0} /\ proc[p].freeing = "no"
      /\ type[d] = "dir" /\ type[i] = "file" /\ i # d /\ LinkOf(p) = i /\ DropOf(p) = 0
      /\ Held(p, i) /\ Held(p, d)
  BY <1>1, Here DEF PlaceOK, DirOK, Walking, LinkOf, DropOf, Held
<1>3. n \in Names /\ ents[d][n] = 0
  BY <1>1, MissingName DEF Entry
<1>4. Settles(p, d, i)
  <2>1. ASSUME NEW j \in Inums
        PROVE  One(d = j) + One(i = j) = Base(p, j) - One(cwd'[p] = j) - One(fd'[p] = j)
    BY <1>2 DEF Base, One
  <2>2. ~Shunned(p, i) /\ ~Shunned(p, d)
    BY <1>1 DEF Shunned
  <2> QED
    BY <1>2, <2>1, <2>2 DEF Settles, Found, Held, Shunned
<1>5. \A j \in Inums : busy'[j] # p /\ busy'[j] = busy[j]
  BY <1>1, <1>2 DEF BusyInv, Locks, Entering
<1>6. /\ Only(p) /\ RefMoves(p) /\ BusyMoves(p) /\ FindsNew(p) /\ FreeInv(p)'
      /\ \A q \in Procs \ {p} : proc[q].freeing = "itrunc" => FreeFor(q, proc[q].put, p)'
      /\ PlaceOK(p)' /\ DirOK(p)' /\ FreshInv(p)' /\ LinkOf(p)' = 0 /\ DropOf(p)' = 0
  <2>1. /\ cwd' \in [Procs -> Inums] /\ fd' \in [Procs -> Inums \cup {0}]
        /\ busy' \in [Inums -> Procs \cup {None}]
        /\ \A q \in Procs \ {p} : cwd'[q] = cwd[q] /\ fd'[q] = fd[q]
        /\ d \in Inums \cup {0} /\ i \in Inums \cup {0} /\ d # i
    BY <1>2 DEF TypeInv, TypeOK
  <2> HIDE DEF d, i
  <2> QED
    BY <1>1, <1>4, <1>5, <2>1, IdleParts DEF d, i
<1>7. /\ ents' \in [Inums -> [Links -> Inums \cup {0}]] /\ ents'[d][n] = i
      /\ \A j \in Inums, m \in Links : (j = d /\ m = n) \/ ents'[j][m] = ents[j][m]
      /\ \A j \in Inums : j # d => ents'[j] = ents[j]
  <2>1. n \in Links
    BY <1>3, Basics
  <2> HIDE DEF n
  <2> QED
    BY <1>2, <2>1 DEF TypeInv, TypeOK, n
<1>8. Grows(p)
  <2>1. ASSUME NEW m \in Names PROVE ents'[i][m] = 0
    BY <1>2, <1>7, Basics DEF IInv, TreeInv
  <2>2. ASSUME NEW j \in Inums
        PROVE  /\ ents'[j] = ents[j] \/ (Held(p, j) /\ busy[j] \in {p, None})
               /\ \A m \in Links : ents'[j][m] = ents[j][m] \/ ents'[j][m] = i
    BY <1>1, <1>2, <1>7
  <2> QED
    BY <1>2, <1>7, <2>1, <2>2, Basics DEF Grows, TypeInv, TypeOK
<1>9. LinksCounted'
  <2>1. OneCell(d, n)
    BY <1>2, <1>7, Basics DEF OneCell, TypeInv, TypeOK
  <2>2. ASSUME NEW j \in Inums
        PROVE  nlink'[j] = nlink[j] + LinkDelta(p, j) + DropDelta(p, j)
                                    + CellDelta(d, n, j) + DirDelta(d, n, j)
    <3>1. LinkDelta(p, j) = 0 - One(i = j) /\ DropDelta(p, j) = 0 /\ CellDelta(d, n, j) = One(i = j)
      BY <1>2, <1>3, <1>6, <1>7 DEF LinkDelta, DropDelta, CellDelta, One
    <3>2. DirDelta(d, n, j) = 0
      BY <1>2, <1>3, <1>7 DEF DirDelta, One, IsDir
    <3>3. nlink'[j] = nlink[j] /\ nlink[j] \in Int /\ One(i = j) \in Int
      BY <1>2 DEF TypeInv, TypeOK, One
    <3> QED
      BY <3>1, <3>2, <3>3
  <2>3. nlink' \in [Inums -> Int] /\ LinksCounted
    BY <1>2 DEF IInv, TypeInv, TypeOK
  <2> QED
    BY <1>2, <1>3, <1>6, <2>1, <2>2, <2>3, CellMove
<1>10. RowsOK'
  BY <1>1, <1>2, <1>3, <1>6, <1>7, RowsKept
<1>11. InUseTyped(p)'
  BY <1>2 DEF InUseTyped
<1> QED
  BY <1>1, <1>6, <1>8, <1>9, <1>10, <1>11, TreeStep

LEMMA LinkEntersStep ==
  ASSUME IInv, NEW p \in Procs, LinkEnters(p)
  PROVE  IInv'
<1>1. In(p, "link", "found") /\ proc[p].ip # 0
  BY DEF LinkEnters
<1>2. CASE UNCHANGED <<tree, busy, cwd, fd, panic, lost, dangling>> /\ GoesBad(p, proc[p].cur)
  BY <1>1, <1>2, LinkEntersBad
<1>3. CASE /\ Entry(p) = 0
           /\ ents' = [ents EXCEPT ![proc[p].cur][LastName(p)] = proc[p].ip]
           /\ UNCHANGED <<type, nlink, busy, cwd, fd, panic, lost, dangling>>
           /\ Return(p, proc[p].cur, proc[p].ip)
  BY <1>1, <1>3, LinkEnter
<1> QED
  BY <1>2, <1>3 DEF LinkEnters
-----------------------------------------------------------------------------
\* What create knows of the inode it has allocated and of its directory.
LEMMA InitFacts ==
  ASSUME IInv, NEW p \in Procs, CreateInit(p)
  PROVE  /\ panic = "none" /\ proc[p].put = 0 /\ proc[p].pc = "init" /\ TypeInv /\ BusyInv
         /\ 0 \notin Inums /\ proc[p].ip \in Inums /\ proc[p].cur \in Inums
         /\ cwd[p] \in Inums /\ fd[p] \in Inums \cup {0} /\ InUseTyped(p)
         /\ LinkOf(p) = 0 /\ DropOf(p) = 0
         /\ LastName(p) \in Names /\ Entry(p) = 0 /\ type[proc[p].cur] = "dir"
         /\ busy[proc[p].cur] = p /\ busy[proc[p].ip] = None /\ proc[p].ip # proc[p].cur
         /\ FreshInode(p, proc[p].ip)
         /\ \A j \in Inums : busy[j] = p => j = proc[p].cur
<1> DEFINE i == proc[p].ip
           d == proc[p].cur
<1>1. panic = "none" /\ proc[p].put = 0 /\ proc[p].pc = "init" /\ busy[i] = None
  BY DEF CreateInit, At, CanLock
<1>2. /\ TypeInv /\ BusyInv /\ 0 \notin Inums /\ i \in Inums /\ d \in Inums /\ InUseTyped(p)
      /\ cwd[p] \in Inums /\ fd[p] \in Inums \cup {0} /\ LinkOf(p) = 0 /\ DropOf(p) = 0
      /\ LastName(p) \in Names /\ Entry(p) = 0 /\ type[d] = "dir" /\ FreshInv(p)
      /\ proc[p].freeing = "no"
  BY <1>1, Here DEF PlaceOK, DirOK, Entering, LinkOf, DropOf, Creates
<1>3. FreshInode(p, i) /\ i # d
  BY <1>1, <1>2 DEF FreshInv
<1>4. busy[d] = p /\ \A j \in Inums : busy[j] = p => j = d
  BY <1>1, <1>2 DEF BusyInv, Locks, Entering
<1> QED
  BY <1>1, <1>2, <1>3, <1>4

\* What the new inode's links change.
LEMMA LinkedEffect ==
  ASSUME TypeInv, NEW i \in Inums, NEW d \in Inums, i # d, NEW n \in Names, Linked(i, d, n),
         \A m \in Links : ents[i][m] = 0, nlink[i] = 0
  PROVE  /\ ents' \in [Inums -> [Links -> Inums \cup {0}]] /\ nlink' \in [Inums -> Nat]
         /\ ents'[d][n] = i /\ \A m \in Links : m # n => ents'[d][m] = ents[d][m]
         /\ \A j \in Inums : j \notin {i, d} => ents'[j] = ents[j]
         /\ \A m \in Names : ents'[i][m] = 0
         /\ type[i] = "dir" => ents'[i][".."] = d
         /\ type[i] # "dir" => ents'[i][".."] = 0
         /\ \A j \in Inums : nlink'[j] = nlink[j] + One(i = j) + One(j = d /\ type[i] = "dir")
<1>1. n \in Links /\ ".." \in Links /\ n # ".." /\ \A m \in Names : m # ".." /\ m \in Links
  BY Basics
<1>2. /\ ents \in [Inums -> [Links -> Inums \cup {0}]] /\ nlink \in [Inums -> Nat]
  BY DEF TypeInv, TypeOK
<1>3. CASE type[i] = "dir"
  <2> DEFINE row == [ents[i] EXCEPT ![".."] = d]
  <2>1. row \in [Links -> Inums \cup {0}] /\ row[".."] = d /\ \A m \in Names : row[m] = 0
    BY <1>1, <1>2
  <2>2. ents' = [ents EXCEPT ![i] = row, ![d][n] = i]
    BY <1>3 DEF Linked
  <2> HIDE DEF row
  <2>3. /\ ents' \in [Inums -> [Links -> Inums \cup {0}]] /\ ents'[i] = row
        /\ ents'[d][n] = i /\ \A m \in Links : m # n => ents'[d][m] = ents[d][m]
        /\ \A j \in Inums : j \notin {i, d} => ents'[j] = ents[j]
    BY <1>1, <1>2, <2>1, <2>2
  <2>4. nlink' = [nlink EXCEPT ![i] = 1, ![d] = @ + 1]
    BY <1>3 DEF Linked
  <2>5. /\ nlink' \in [Inums -> Nat]
        /\ \A j \in Inums : nlink'[j] = nlink[j] + One(i = j) + One(j = d /\ type[i] = "dir")
    BY <1>2, <1>3, <2>4 DEF One
  <2> QED
    BY <1>3, <2>1, <2>3, <2>5
<1>4. CASE type[i] # "dir"
  <2>1. ents' = [ents EXCEPT ![d][n] = i] /\ nlink' = [nlink EXCEPT ![i] = 1]
    BY <1>4 DEF Linked
  <2>2. /\ ents' \in [Inums -> [Links -> Inums \cup {0}]]
        /\ ents'[d][n] = i /\ \A m \in Links : m # n => ents'[d][m] = ents[d][m]
        /\ \A j \in Inums : j # d => ents'[j] = ents[j]
    BY <1>1, <1>2, <2>1
  <2>3. /\ nlink' \in [Inums -> Nat]
        /\ \A j \in Inums : nlink'[j] = nlink[j] + One(i = j) + One(j = d /\ type[i] = "dir")
    BY <1>2, <1>4, <2>1 DEF One
  <2> QED
    BY <1>1, <1>4, <2>2, <2>3
<1> QED
  BY <1>3, <1>4

LEMMA CreateInitStep ==
  ASSUME IInv, NEW p \in Procs, CreateInit(p)
  PROVE  IInv'
<1> DEFINE i == proc[p].ip
           d == proc[p].cur
           n == LastName(p)
<1>1. /\ panic = "none" /\ proc[p].put = 0 /\ proc[p].pc = "init" /\ TypeInv /\ BusyInv
      /\ 0 \notin Inums /\ i \in Inums /\ d \in Inums
      /\ cwd[p] \in Inums /\ fd[p] \in Inums \cup {0} /\ InUseTyped(p)
      /\ LinkOf(p) = 0 /\ DropOf(p) = 0
      /\ n \in Names /\ ents[d][n] = 0 /\ type[d] = "dir"
      /\ busy[d] = p /\ busy[i] = None /\ i # d /\ FreshInode(p, i)
      /\ \A j \in Inums : busy[j] = p => j = d
  BY InitFacts DEF Entry
<1>2. /\ type[i] \in {"file", "dir"} /\ nlink[i] = 0 /\ \A m \in Links : ents[i][m] = 0
      /\ Held(p, i) /\ Held(p, d)
  BY <1>1 DEF FreshInode, NewType, Held
<1>3. Linked(i, d, n) /\ busy' = [busy EXCEPT ![d] = None] /\ UNCHANGED <<type, cwd, panic, lost, dangling>>
  BY DEF CreateInit
<1>4. /\ ents' \in [Inums -> [Links -> Inums \cup {0}]] /\ nlink' \in [Inums -> Nat]
      /\ ents'[d][n] = i /\ \A m \in Links : m # n => ents'[d][m] = ents[d][m]
      /\ \A j \in Inums : j \notin {i, d} => ents'[j] = ents[j]
      /\ \A m \in Names : ents'[i][m] = 0
      /\ type[i] = "dir" => ents'[i][".."] = d
      /\ type[i] # "dir" => ents'[i][".."] = 0
      /\ \A j \in Inums : nlink'[j] = nlink[j] + One(i = j) + One(j = d /\ type[i] = "dir")
  <2> HIDE DEF i, d, n
  <2> QED
    BY <1>1, <1>2, <1>3, LinkedEffect
<1>5. \A j \in Inums : /\ busy'[j] # p
                       /\ busy'[j] = busy[j] \/ (busy[j] \in {p, None} /\ busy'[j] = None)
  <2>1. \A j \in Inums : busy'[j] = IF j = d THEN None ELSE busy[j]
    BY <1>1, <1>3 DEF TypeInv, TypeOK
  <2> QED
    BY <1>1, <2>1, Basics
<1>6. ~Shunned(p, i) /\ ~Shunned(p, d)
  BY <1>1 DEF Shunned
<1>7. PICK b \in {0, i} :
        /\ Return(p, d, b) /\ fd' \in [Procs -> Inums \cup {0}]
        /\ \A q \in Procs \ {p} : fd'[q] = fd[q]
        /\ fd'[p] = fd[p] \/ (fd'[p] = i /\ fd[p] = 0 /\ b = 0)
        /\ fd'[p] = fd[p] => b = i
  <2>1. CASE fd[p] = 0 /\ fd' = [fd EXCEPT ![p] = i] /\ Return(p, d, 0)
    <3>1. /\ fd' \in [Procs -> Inums \cup {0}] /\ fd'[p] = i /\ fd'[p] # fd[p]
          /\ \A q \in Procs \ {p} : fd'[q] = fd[q]
      BY <1>1, <2>1 DEF TypeInv, TypeOK
    <3> QED
      BY <2>1, <3>1
  <2>2. CASE UNCHANGED fd /\ Return(p, d, i)
    BY <1>1, <2>2 DEF TypeInv, TypeOK
  <2> QED
    BY <2>1, <2>2 DEF CreateInit
<1>8. Settles(p, d, b)
  <2>1. ASSUME NEW j \in Inums
        PROVE  One(d = j) + One(b = j) = Base(p, j) - One(cwd'[p] = j) - One(fd'[p] = j)
    <3>1. Base(p, j) = One(cwd'[p] = j) + One(fd[p] = j) + One(d = j) + One(i = j)
      BY <1>3 DEF Base
    <3>2. One(0 = j) = 0
      BY <1>1 DEF One
    <3>3. One(b = j) + One(fd'[p] = j) = One(fd[p] = j) + One(i = j)
      BY <1>7, <3>2 DEF One
    <3>4. /\ One(cwd'[p] = j) \in Int /\ One(fd[p] = j) \in Int /\ One(d = j) \in Int /\ One(i = j) \in Int
          /\ One(b = j) \in Int /\ One(fd'[p] = j) \in Int
      BY DEF One
    <3> HIDE DEF i, d
    <3> QED
      BY <3>1, <3>3, <3>4
  <2> QED
    BY <1>1, <1>2, <1>3, <1>6, <1>7, <2>1 DEF Settles, Found, Held, Shunned
<1>9. /\ Only(p) /\ RefMoves(p) /\ BusyMoves(p) /\ FindsNew(p) /\ FreeInv(p)'
      /\ \A q \in Procs \ {p} : proc[q].freeing = "itrunc" => FreeFor(q, proc[q].put, p)'
      /\ PlaceOK(p)' /\ DirOK(p)' /\ FreshInv(p)' /\ LinkOf(p)' = 0 /\ DropOf(p)' = 0
      /\ proc'[p].pc = "user"
  <2>1. /\ cwd' \in [Procs -> Inums] /\ fd' \in [Procs -> Inums \cup {0}]
        /\ busy' \in [Inums -> Procs \cup {None}]
        /\ \A q \in Procs \ {p} : cwd'[q] = cwd[q] /\ fd'[q] = fd[q]
        /\ d \in Inums \cup {0} /\ b \in Inums \cup {0} /\ d # b /\ Return(p, d, b)
    BY <1>1, <1>3, <1>7 DEF TypeInv, TypeOK
  <2> HIDE DEF d, i
  <2> QED
    BY <1>1, <1>5, <1>8, <2>1, IdleParts
<1>10. Grows(p)
  <2>1. ASSUME NEW j \in Inums
        PROVE  /\ nlink'[j] = nlink[j] \/ (Held(p, j) /\ busy[j] \in {p, None})
               /\ ents'[j] = ents[j] \/ (Held(p, j) /\ busy[j] \in {p, None})
    <3>1. CASE j \in {i, d}
      BY <1>1, <1>2, <3>1
    <3>2. CASE j \notin {i, d}
      <4>1. nlink'[j] = nlink[j] + One(i = j) + One(j = d /\ type[i] = "dir") /\ nlink[j] \in Nat
        BY <1>1, <1>4 DEF TypeInv, TypeOK
      <4> QED
        BY <1>4, <3>2, <4>1 DEF One
    <3> QED
      BY <3>1, <3>2
  <2>2. ASSUME NEW j \in Inums, NEW m \in Links
        PROVE  /\ ents'[j][m] \in {ents[j][m], 0, i, d}
               /\ m \in Names => ents'[j][m] \in {ents[j][m], 0, i}
    <3>1. CASE j = i
      BY <1>2, <1>4, <3>1, Basics DEF Links
    <3>2. CASE j # i
      BY <1>4, <3>2
    <3> QED
      BY <3>1, <3>2
  <2>3. type' = type /\ type \in [Inums -> {"free", "file", "dir"}]
    BY <1>1, <1>3 DEF TypeInv, TypeOK
  <2>4. Held(p, i) /\ Held(p, d)
    BY <1>2
  <2> HIDE DEF i, d
  <2> QED
    BY <1>4, <2>1, <2>2, <2>3, <2>4, Basics DEF Grows
<1>11. LinksCounted'
  <2>1. OneCell(d, n)
    <3>1. ASSUME NEW j \in Inums, NEW m \in Names PROVE (j = d /\ m = n) \/ ents'[j][m] = ents[j][m]
      <4>1. m \in Links
        BY Basics
      <4>2. CASE j = i
        BY <1>2, <1>4, <4>1, <4>2
      <4>3. CASE j # i
        BY <1>4, <4>1, <4>3
      <4> QED
        BY <4>2, <4>3
    <3> QED
      BY <1>1, <1>4, <3>1 DEF OneCell, TypeInv, TypeOK
  <2>2. ASSUME NEW j \in Inums
        PROVE  nlink'[j] = nlink[j] + LinkDelta(p, j) + DropDelta(p, j)
                                    + CellDelta(d, n, j) + DirDelta(d, n, j)
    <3>1. LinkDelta(p, j) = 0 /\ DropDelta(p, j) = 0 /\ CellDelta(d, n, j) = One(i = j)
      BY <1>1, <1>4, <1>9 DEF LinkDelta, DropDelta, CellDelta, One
    <3>2. DirDelta(d, n, j) = One(j = d /\ type[i] = "dir")
      BY <1>1, <1>4 DEF DirDelta, One, IsDir
    <3>3. /\ nlink'[j] = nlink[j] + One(i = j) + One(j = d /\ type[i] = "dir")
          /\ nlink[j] \in Int /\ One(i = j) \in Int /\ One(j = d /\ type[i] = "dir") \in Int
      BY <1>1, <1>4 DEF TypeInv, TypeOK, One
    <3> HIDE DEF i, d
    <3> QED
      BY <3>1, <3>2, <3>3
  <2>3. nlink' \in [Inums -> Int] /\ LinksCounted
    BY <1>4 DEF IInv
  <2> QED
    BY <1>1, <1>3, <1>9, <2>1, <2>2, <2>3, CellMove
<1>12. RowsOK'
  <2>1. ASSUME NEW j \in Inums, type'[j] # "dir", NEW m \in Links PROVE ents'[j][m] = 0
    <3>1. CASE j = i
      BY <1>3, <1>4, <2>1, <3>1 DEF Links
    <3>2. CASE j # i
      BY <1>1, <1>3, <1>4, <2>1, <3>2 DEF IInv, TreeInv
    <3> QED
      BY <3>1, <3>2
  <2>2. ASSUME NEW j \in Inums, type'[j] = "dir", ~Fresh(j)' PROVE ents'[j][".."] # 0
    <3>1. CASE j = i
      BY <1>1, <1>3, <1>4, <2>2, <3>1
    <3>2. CASE j # i
      <4>1. ~Fresh(j)
        BY <1>9, <2>2, <3>2 DEF Fresh, Only
      <4>2. ents[j][".."] # 0
        BY <1>3, <2>2, <4>1 DEF IInv, TreeInv
      <4>3. ents'[j][".."] = ents[j][".."]
        BY <1>1, <1>4, <3>2, Basics
      <4> QED
        BY <4>2, <4>3
    <3> QED
      BY <3>1, <3>2
  <2> QED
    BY <2>1, <2>2 DEF RowsOK
<1>13. InUseTyped(p)'
  BY <1>1, <1>2, <1>3, <1>7 DEF InUseTyped
<1> QED
  BY <1>1, <1>3, <1>9, <1>10, <1>11, <1>12, <1>13, TreeStep
-----------------------------------------------------------------------------
\* A panic for want of inodes changes nothing else.
LEMMA PanicStep ==
  ASSUME IInv, panic = "none", UNCHANGED <<tree, ref, busy, cwd, fd, proc, lost, dangling>>,
         panic' = "ialloc: no inodes"
  PROVE  IInv'
<1>1. UNCHANGED <<type, nlink, ents>>
  BY DEF tree
<1>2. RefInv'
  <2>1. TypeInv'
    <3>1. TypeInv
      BY DEF IInv, RefInv
    <3> QED
      BY <1>1, <3>1 DEF TypeInv, TypeOK, Messages
  <2>2. \A i \in Inums : Holders(i)' = Holders(i)
    BY DEF Holders
  <2> QED
    BY <2>1, <2>2 DEF IInv, RefInv
<1>3. LinksCounted'
  BY <1>1 DEF IInv, LinksCounted, Entries, Subdirs, Linking, Erasing
<1>5. ASSUME NEW q \in Procs PROVE ProcInv(q)'
  <2>1. PlaceOK(q) /\ InUseTyped(q) /\ FreshInv(q) /\ FreeInv(q) /\ DirOK(q) /\ RefTyped(q)
    BY Here
  <2>2. PlaceOK(q)' /\ InUseTyped(q)'
    BY <1>1, <2>1 DEF PlaceOK, InUseTyped, StopsEarly, Parent, Creates, LastName
  <2>3. DirOK(q)' /\ RefTyped(q)'
    BY <1>1, <2>1 DEF DirOK, RefTyped, StopsEarly, Parent, Entry, LastName, Held
  <2>4. FreshInv(q)' /\ FreeInv(q)'
    BY <1>1, <2>1 DEF FreshInv, FreshInode, NewType, Held, FreeInv, FreeFor
  <2> QED
    BY <2>1, <2>2, <2>3, <2>4 DEF ProcInv
<1>6. BusyInv' /\ TreeInv'
  <2>1. \A i \in Inums : \A q \in Procs : Locks(q, i)' = Locks(q, i)
    BY DEF Locks
  <2>2. \A i \in Inums : Fresh(i)' = Fresh(i)
    BY DEF Fresh
  <2>3. BusyInv'
    BY <2>1 DEF IInv, BusyInv
  <2> QED
    BY <1>1, <2>2, <2>3 DEF IInv, TreeInv
<1>7. EntriesTyped' /\ UpTyped' /\ Acyclic'
  BY <1>1 DEF IInv, EntriesTyped, UpTyped, Acyclic
<1> QED
  BY <1>2, <1>3, <1>5, <1>6, <1>7 DEF IInv, Panics1

LEMMA Empty == Cardinality({}) = 0
BY FS_EmptySet

\* Nobody refers to a free inode, and it has no links of any kind.
LEMMA FreeFacts ==
  ASSUME IInv, panic = "none", NEW i \in Inums, type[i] = "free"
  PROVE  /\ i # Root /\ lost[i] = 0
         /\ \A q \in Procs : ~Held(q, i)
         /\ \A n \in Links : ents[i][n] = 0
         /\ \A j \in Inums, n \in Links : ents[j][n] # i
         /\ Entries(i) = 0 /\ Linking(i) = 0 /\ Erasing(i) = 0
<1>1. i # Root /\ lost[i] = 0 /\ \A n \in Links : ents[i][n] = 0
  BY DEF IInv, TreeInv
<1>2. \A q \in Procs : ~Held(q, i)
  BY Here DEF RefTyped
<1>3. \A j \in Inums, n \in Links : ents[j][n] # i
  BY Basics DEF IInv, EntriesTyped, UpTyped, Links
<1>4. {x \in Inums \X Names : ents[x[1]][x[2]] = i} = {}
  BY <1>3, Basics
<1>5. {q \in Procs : proc[q].call = "link" /\ proc[q].ip = i} = {}
  BY <1>2 DEF Held
<1>6. {q \in Procs : proc[q].pc = "drop" /\ proc[q].ip = i} = {}
  BY <1>2 DEF Held
<1> QED
  BY <1>1, <1>2, <1>3, <1>4, <1>5, <1>6, Empty DEF Entries, Linking, Erasing

LEMMA IallocTakes ==
  ASSUME IInv, NEW p \in Procs, At(p, "ialloc"), NEW i \in Inums, type[i] = "free",
         type' = [type EXCEPT ![i] = NewType(p)], nlink' = [nlink EXCEPT ![i] = 0],
         ref' = Get(i), proc' = [proc EXCEPT ![p].pc = "init", ![p].ip = i],
         UNCHANGED <<ents, busy, cwd, fd, panic, lost, dangling>>
  PROVE  IInv'
<1> DEFINE d == proc[p].cur
<1>1. panic = "none" /\ proc[p].put = 0 /\ proc[p].pc = "ialloc"
  BY DEF At
<1>2. /\ TypeInv /\ BusyInv /\ 0 \notin Inums /\ d \in Inums /\ InUseTyped(p) /\ PlaceOK(p)
      /\ cwd[p] \in Inums /\ fd[p] \in Inums \cup {0} /\ proc[p].freeing = "no" /\ proc[p].ip = 0
      /\ proc[p].later = 0 /\ proc[p].call \in {"create", "mkdir"}
      /\ LastName(p) \in Names /\ Entry(p) = 0 /\ type[d] = "dir" /\ proc[p].path # <<>>
      /\ proc \in [Procs -> Process] /\ proc[p] \in Process /\ ref \in [Inums -> Int]
      /\ type \in [Inums -> {"free", "file", "dir"}] /\ Held(p, d)
  BY <1>1, Here DEF PlaceOK, DirOK, Entering, Creates, Held
<1>3. /\ i # Root /\ lost[i] = 0
      /\ \A q \in Procs : ~Held(q, i)
      /\ \A n \in Links : ents[i][n] = 0
      /\ \A j \in Inums, n \in Links : ents[j][n] # i
      /\ Entries(i) = 0 /\ Linking(i) = 0 /\ Erasing(i) = 0
  BY <1>1, FreeFacts
<1>4. /\ proc' \in [Procs -> Process] /\ \A q \in Procs \ {p} : proc'[q] = proc[q]
      /\ proc'[p].pc = "init" /\ proc'[p].call = proc[p].call /\ proc'[p].cur = d
      /\ proc'[p].path = proc[p].path /\ proc'[p].ip = i /\ proc'[p].put = 0
      /\ proc'[p].later = 0 /\ proc'[p].freeing = "no"
  BY <1>1, <1>2 DEF Process, Places
<1>5. /\ NewType(p) \in {"file", "dir"} /\ NewType(p)' = NewType(p)
      /\ type' \in [Inums -> {"free", "file", "dir"}]
      /\ type'[i] = NewType(p) /\ \A j \in Inums : j # i => type'[j] = type[j]
      /\ nlink' \in [Inums -> Nat] /\ nlink'[i] = 0
      /\ \A j \in Inums : j # i => nlink'[j] = nlink[j]
  BY <1>2, <1>4 DEF NewType, TypeInv, TypeOK
<1>6. Only(p)
  BY <1>2, <1>4 DEF Only, TypeInv, TypeOK
<1>7. RefMoves(p)
  <2>0. Get(i) \in [Inums -> Int] /\ \A j \in Inums : Get(i)[j] = ref[j] + One(i = j)
    BY <1>2, GetOne
  <2>1. ASSUME NEW j \in Inums PROVE ref'[j] = ref[j] - Mine(p, j) + Mine(p, j)'
    <3>1. Mine(p, j)' = Mine(p, j) + One(i = j)
      BY <1>1, <1>2, <1>4 DEF Mine, One
    <3>2. Mine(p, j) \in Int /\ ref[j] \in Int /\ One(i = j) \in Int
      BY <1>2, HeldMine DEF One
    <3> QED
      BY <2>0, <3>1, <3>2
  <2> QED
    BY <2>0, <2>1 DEF RefMoves
<1>8. BusyMoves(p)
  BY <1>1, <1>2, <1>4 DEF BusyMoves, BusyInv, Locks, Entering, TypeInv, TypeOK
<1>9. FindsNew(p)
  BY <1>2, <1>4, <1>5 DEF FindsNew, Found, Held
<1>10. Grows(p)
  BY <1>2, <1>5 DEF Grows, TypeInv, TypeOK
<1>11. LinksCounted'
  <2>1. ASSUME NEW j \in Inums
        PROVE  /\ Entries(j)' = Entries(j) /\ Subdirs(j)' = Subdirs(j)
               /\ Linking(j)' = Linking(j) /\ Erasing(j)' = Erasing(j)
    <3>1. Entries(j)' = Entries(j)
      BY DEF Entries
    <3>2. \A n \in Names : ents[j][n] # 0 => type'[ents[j][n]] = type[ents[j][n]]
      BY <1>2, <1>3, <1>5, Basics DEF TypeInv, TypeOK
    <3>3. Subdirs(j)' = Subdirs(j)
      <4>1. {n \in Names : ents[j][n] # 0 /\ type'[ents[j][n]] = "dir"}
              = {n \in Names : ents[j][n] # 0 /\ type[ents[j][n]] = "dir"}
        BY <3>2
      <4> QED
        BY <4>1 DEF Subdirs
    <3>4. LinkOf(p) = 0 /\ LinkOf(p)' = 0 /\ DropOf(p) = 0 /\ DropOf(p)' = 0
      BY <1>1, <1>2, <1>4 DEF LinkOf, DropOf
    <3>5. Linking(j)' = Linking(j) /\ Erasing(j)' = Erasing(j)
      <4>1. /\ Linking(j) \in Nat 
            /\ Linking(j)' = Linking(j) - One(LinkOf(p) = j) + One(LinkOf(p)' = j)
        BY <1>2, <1>6, LinkingChange
      <4>2. /\ Erasing(j) \in Nat
            /\ Erasing(j)' = Erasing(j) - One(DropOf(p) = j) + One(DropOf(p)' = j)
        BY <1>2, <1>6, ErasingChange
      <4>3. One(0 = j) = 0
        BY <1>2 DEF One
      <4> QED
        BY <3>4, <4>1, <4>2, <4>3
    <3> QED
      BY <3>1, <3>3, <3>5
  <2>2. ASSUME NEW j \in Inums, type'[j] # "free"
        PROVE  nlink'[j] = Entries(j)' + Subdirs(j)' + Linking(j)' + Erasing(j)'
                         + lost'[j] + (IF j = Root THEN 1 ELSE 0)
    <3>1. CASE j = i
      <4>1. {n \in Names : ents[i][n] # 0 /\ type[ents[i][n]] = "dir"} = {}
        BY <1>3, Basics
      <4>2. Subdirs(i) = 0
        BY <4>1, Empty DEF Subdirs
      <4> QED
        BY <1>3, <1>5, <2>1, <3>1, <4>2
    <3>2. CASE j # i
      <4>1. type[j] # "free" /\ nlink'[j] = nlink[j] /\ lost'[j] = lost[j]
        BY <1>5, <2>2, <3>2
      <4>2. nlink[j] = Entries(j) + Subdirs(j) + Linking(j) + Erasing(j)
                     + lost[j] + (IF j = Root THEN 1 ELSE 0)
        BY <4>1 DEF IInv, LinksCounted
      <4> QED
        BY <2>1, <4>1, <4>2
    <3> QED
      BY <3>1, <3>2
  <2> QED
    BY <2>2 DEF LinksCounted
<1>12. RowsOK'
  <2>1. ASSUME NEW j \in Inums, type'[j] # "dir", NEW n \in Links PROVE ents'[j][n] = 0
    BY <1>3, <1>5, <2>1 DEF IInv, TreeInv
  <2>2. ASSUME NEW j \in Inums, type'[j] = "dir", ~Fresh(j)' PROVE ents'[j][".."] # 0
    <3>1. j # i
      BY <1>4, <2>2 DEF Fresh
    <3>2. ~Fresh(j)
      BY <1>1, <1>6, <2>2 DEF Fresh, Only
    <3> QED
      BY <1>5, <2>2, <3>1, <3>2 DEF IInv, TreeInv
  <2> QED
    BY <2>1, <2>2 DEF RowsOK
<1>13. PlaceOK(p)' /\ InUseTyped(p)'
  BY <1>1, <1>2, <1>4, <1>5 DEF PlaceOK, InUseTyped, Walking, Entering, Creates, LastName
<1>14. DirOK(p)'
  <2>1. Entry(p)' = Entry(p)
    BY <1>4 DEF Entry, LastName
  <2> QED
    BY <1>2, <1>4, <1>5, <2>1 DEF DirOK
<1>15. FreshInv(p)' /\ FreeInv(p)'
  <2>1. FreshInode(p, i)'
    BY <1>3, <1>4, <1>5 DEF FreshInode
  <2>2. cwd'[p] # i /\ fd'[p] # i /\ proc'[p].cur # i
    BY <1>3, <1>4 DEF Held
  <2>3. \A q \in Procs \ {p} : ~Held(q, i)'
    BY <1>3, <1>4 DEF Held
  <2> QED
    BY <1>4, <2>1, <2>2, <2>3 DEF FreshInv, FreeInv
<1>16. ASSUME NEW q \in Procs \ {p}, proc[q].freeing = "itrunc"
       PROVE  FreeFor(q, proc[q].put, p)'
  <2>1. proc[q].put \in Inums /\ Shunned(p, proc[q].put) /\ proc'[q] = proc[q]
    BY <1>4, <1>16, FreedShunned
  <2>2. proc[q].put # i
    BY <1>3, <1>16 DEF Held
  <2> QED
    BY <1>1, <1>2, <1>4, <2>1, <2>2 DEF Shunned, FreeFor, Walking
<1> QED
  BY <1>1, <1>6, <1>7, <1>8, <1>9, <1>10, <1>11, <1>12, <1>13, <1>14, <1>15, <1>16, TreeStep

LEMMA IallocStep ==
  ASSUME IInv, NEW p \in Procs, Ialloc(p)
  PROVE  IInv'
<1>1. At(p, "ialloc") /\ panic = "none"
  BY DEF Ialloc, At
<1>2. CASE Panics("ialloc: no inodes")
  BY <1>1, <1>2, PanicStep DEF Panics
<1>3. ASSUME NEW i \in FreeInodes,
             type' = [type EXCEPT ![i] = NewType(p)], nlink' = [nlink EXCEPT ![i] = 0],
             ref' = Get(i), proc' = [proc EXCEPT ![p].pc = "init", ![p].ip = i],
             UNCHANGED <<ents, busy, cwd, fd, panic, lost, dangling>>
      PROVE  IInv'
  <2>1. i \in Inums /\ type[i] = "free"
    BY DEF FreeInodes
  <2> QED
    BY <1>1, <1>3, <2>1, IallocTakes
<1> QED
  BY <1>2, <1>3 DEF Ialloc
-----------------------------------------------------------------------------
\* The entries that go with the directory x are those counted in lost.
LEMMA RowCounts ==
  ASSUME ents \in [Inums -> [Links -> Inums \cup {0}]], NEW x \in Inums,
         ents' = [ents EXCEPT ![x] = NoEntries], NEW j \in Inums
  PROVE  /\ Entries(j) \in Nat /\ Entries(j)' \in Nat
         /\ Cardinality({n \in Names : ents[x][n] = j}) \in Nat
         /\ Entries(j)' + Cardinality({n \in Names : ents[x][n] = j}) = Entries(j)
<1> DEFINE S == Inums \X Names
           A == {c \in S : ents[c[1]][c[2]] = j}
           B == {c \in S : ents'[c[1]][c[2]] = j}
           R == {n \in Names : ents[x][n] = j}
           P == {c \in A : c[1] = x}
           f == [n \in R |-> <<x, n>>]
<1>1. IsFiniteSet(S) /\ IsFiniteSet(R)
  BY Basics, FS_Product, FS_Subset
<1>2. IsFiniteSet(A) /\ IsFiniteSet(B)
  <2>1. A \in SUBSET S /\ B \in SUBSET S
    OBVIOUS
  <2> HIDE DEF A, B, S
  <2> QED
    BY <1>1, <2>1, FS_Subset
<1>3. f \in Bijection(R, P)
  <2>1. f \in [R -> P]
    OBVIOUS
  <2>2. \A m \in R, n \in R : f[m] = f[n] => m = n
    OBVIOUS
  <2>3. ASSUME NEW c \in P PROVE \E n \in R : f[n] = c
    <3>1. c[2] \in R /\ c = <<x, c[2]>>
      OBVIOUS
    <3> QED
      BY <3>1
  <2> HIDE DEF f, R, P
  <2> QED
    BY <2>1, <2>2, <2>3, Fun_IsBij
<1>4. Cardinality(P) = Cardinality(R)
  <2>1. ExistsBijection(R, P)
    BY <1>3 DEF ExistsBijection
  <2> HIDE DEF R, P
  <2> QED
    BY <1>1, <2>1, FS_Bijection
<1>5. ents'[x] = NoEntries /\ \A i \in Inums : i # x => ents'[i] = ents[i]
  OBVIOUS
<1>6. B = A \ P /\ A \cap P = P
  <2>1. ASSUME NEW c \in S PROVE c \in B <=> c \in A \ P
    <3>1. c[1] \in Inums /\ c[2] \in Names /\ c[2] \in Links /\ j # 0
      BY Basics
    <3>2. CASE c[1] = x
      BY <1>5, <3>1, <3>2 DEF NoEntries
    <3>3. CASE c[1] # x
      BY <1>5, <3>1, <3>3
    <3> QED
      BY <3>2, <3>3
  <2> QED
    BY <2>1
<1>7. Entries(j) = Cardinality(A) /\ Entries(j)' = Cardinality(B)
  BY DEF Entries
<1>8. Cardinality(A) \in Nat /\ Cardinality(B) \in Nat /\ Cardinality(R) \in Nat
  <2> HIDE DEF A, B, R
  <2> QED
    BY <1>1, <1>2, FS_CardinalityType
<1>9. Cardinality(A \ P) = Cardinality(A) - Cardinality(A \cap P)
  <2> HIDE DEF A, P
  <2> QED
    BY <1>2, FS_Difference
<1> HIDE DEF A, B, P, R
<1>10. Cardinality(B) + Cardinality(R) = Cardinality(A)
  <2>1. Cardinality(B) = Cardinality(A) - Cardinality(P)
    BY <1>6, <1>9
  <2>2. Cardinality(B) = Cardinality(A) - Cardinality(R)
    BY <1>4, <2>1
  <2> QED
    BY <1>8, <2>2
<1> QED
  BY <1>7, <1>8, <1>10 DEF R

\* What truncating x changes.
LEMMA ItruncEffect ==
  ASSUME IInv, NEW p \in Procs, Itrunc(p)
  PROVE  LET x == proc[p].put IN
         /\ panic = "none" /\ TypeInv /\ BusyInv /\ 0 \notin Inums /\ x \in Inums
         /\ proc[p].freeing = "itrunc" /\ proc[p].pc \notin Entering
         /\ nlink[x] = 0 /\ x # Root /\ type[x] # "free" /\ lost[x] = 0
         /\ \A q \in Procs : FreeFor(p, x, q)
         /\ \A j \in Inums, n \in Names : ents[j][n] # x
         /\ proc' \in [Procs -> Process] /\ \A q \in Procs \ {p} : proc'[q] = proc[q]
         /\ SameCall(p) /\ proc'[p].put = x /\ proc'[p].later = proc[p].later
         /\ proc'[p].freeing = "flags"
         /\ type' = [type EXCEPT ![x] = "free"] /\ ents' = [ents EXCEPT ![x] = NoEntries]
         /\ type'[x] = "free" /\ \A j \in Inums : j # x => type'[j] = type[j] /\ ents'[j] = ents[j]
         /\ \A n \in Links : ents'[x][n] = 0
         /\ lost' \in [Inums -> Nat] /\ lost'[x] = 0
         /\ \A j \in Inums : j # x => 
              lost'[j] = lost[j] + Cardinality({n \in Names : ents[x][n] = j})
         /\ dangling' = (dangling \/ Orphans(x) # {} \/ ref[x] # 1)
         /\ UNCHANGED <<nlink, ref, busy, cwd, fd, panic>>
<1> DEFINE x == proc[p].put
<1>1. /\ panic = "none" /\ proc[p].freeing = "itrunc"
      /\ type' = [type EXCEPT ![x] = "free"] /\ ents' = [ents EXCEPT ![x] = NoEntries]
      /\ lost' = [Lost(x) EXCEPT ![x] = 0] /\ proc' = [proc EXCEPT ![p].freeing = "flags"]
      /\ dangling' = (dangling \/ Orphans(x) # {} \/ ref[x] # 1)
      /\ UNCHANGED <<nlink, ref, busy, cwd, fd, panic>>
  BY DEF Itrunc
<1>2. /\ TypeInv /\ BusyInv /\ 0 \notin Inums /\ x \in Inums /\ PlaceOK(p) /\ FreeInv(p) /\ x # 0
      /\ proc \in [Procs -> Process] /\ proc[p] \in Process
      /\ ents \in [Inums -> [Links -> Inums \cup {0}]] /\ lost \in [Inums -> Nat]
      /\ type \in [Inums -> {"free", "file", "dir"}]
  BY <1>1, Here DEF PlaceOK, TypeInv, TypeOK
<1>3. /\ proc[p].pc \notin Entering /\ nlink[x] = 0 /\ x # Root /\ type[x] # "free"
      /\ \A q \in Procs : FreeFor(p, x, q)
  BY <1>1, <1>2 DEF PlaceOK, FreeInv
<1>4. lost[x] = 0 /\ \A j \in Inums, n \in Names : ents[j][n] # x
  BY <1>2, <1>3, NoEntry
<1>5. /\ proc' \in [Procs -> Process] /\ \A q \in Procs \ {p} : proc'[q] = proc[q]
      /\ SameCall(p) /\ proc'[p].put = x /\ proc'[p].later = proc[p].later
      /\ proc'[p].freeing = "flags"
  BY <1>1, <1>2 DEF Process, SameCall
<1>6. /\ type'[x] = "free" /\ \A j \in Inums : j # x => type'[j] = type[j] /\ ents'[j] = ents[j]
      /\ \A n \in Links : ents'[x][n] = 0
  BY <1>1, <1>2 DEF NoEntries
<1>7. ASSUME NEW j \in Inums PROVE Cardinality({n \in Names : ents[x][n] = j}) \in Nat
  BY <1>1, <1>2, RowCounts
<1>8. Lost(x) \in [Inums -> Nat]
      /\ \A j \in Inums : Lost(x)[j] = lost[j] + Cardinality({n \in Names : ents[x][n] = j})
  <2> DEFINE c(j) == Cardinality({n \in Names : ents[x][n] = j})
  <2>1. Lost(x) = [j \in Inums |-> lost[j] + c(j)]
    BY DEF Lost
  <2>2. \A j \in Inums : c(j) \in Nat
    BY <1>7
  <2> HIDE DEF c
  <2>3. Lost(x) \in [Inums -> Nat] /\ \A j \in Inums : Lost(x)[j] = lost[j] + c(j)
    BY <1>2, <2>1, <2>2
  <2> QED
    BY <2>3 DEF c
<1>9. lost' \in [Inums -> Nat] /\ lost'[x] = 0 /\ \A j \in Inums : j # x => lost'[j] = Lost(x)[j]
  BY <1>1, <1>2, <1>8
<1> QED
  BY <1>1, <1>2, <1>3, <1>4, <1>5, <1>6, <1>8, <1>9
-----------------------------------------------------------------------------
LEMMA ItruncLinks ==
  ASSUME IInv, NEW p \in Procs, Itrunc(p), Only(p)
  PROVE  LinksCounted'
<1> DEFINE x == proc[p].put
<1>1. /\ panic = "none" /\ TypeInv /\ x \in Inums /\ 0 \notin Inums
      /\ nlink' = nlink /\ SameCall(p)
      /\ \A j \in Inums, n \in Names : ents[j][n] # x
      /\ ents' = [ents EXCEPT ![x] = NoEntries] /\ type'[x] = "free"
      /\ \A j \in Inums : j # x => type'[j] = type[j] /\ ents'[j] = ents[j]
      /\ \A j \in Inums : j # x => 
           lost'[j] = lost[j] + Cardinality({n \in Names : ents[x][n] = j})
  BY ItruncEffect
<1> SUFFICES ASSUME NEW i \in Inums, type'[i] # "free"
             PROVE  nlink'[i] = Entries(i)' + Subdirs(i)' + Linking(i)' + Erasing(i)'
                              + lost'[i] + (IF i = Root THEN 1 ELSE 0)
  BY DEF LinksCounted
<1> DEFINE c == Cardinality({n \in Names : ents[x][n] = i})
           e == Entries(i)
           s == Subdirs(i)
           l == Linking(i)
           z == Erasing(i)
           h == lost[i]
           r == IF i = Root THEN 1 ELSE 0
<1>2. i # x /\ type[i] # "free" /\ lost'[i] = h + c /\ h \in Int
  BY <1>1 DEF TypeInv, TypeOK
<1>3. ents \in [Inums -> [Links -> Inums \cup {0}]]
  BY <1>1 DEF TypeInv, TypeOK
<1>4. e \in Int /\ e' \in Int /\ c \in Int /\ e' + c = e
  <2>1. x \in Inums /\ ents' = [ents EXCEPT ![x] = NoEntries]
    BY <1>1
  <2> HIDE DEF x
  <2>2. /\ Entries(i) \in Nat /\ Entries(i)' \in Nat
        /\ Cardinality({n \in Names : ents[x][n] = i}) \in Nat
        /\ Entries(i)' + Cardinality({n \in Names : ents[x][n] = i}) = Entries(i)
    BY <1>3, <2>1, RowCounts
  <2> QED
    BY <2>2
<1>5. s' = s /\ s \in Int
  <2>1. {n \in Names : ents[i][n] # 0 /\ type[ents[i][n]] = "dir"} 
          = {n \in Names : ents'[i][n] # 0 /\ type'[ents'[i][n]] = "dir"}
    <3>1. ASSUME NEW n \in Names
          PROVE  ents'[i][n] = ents[i][n] /\ (ents[i][n] # 0 => type'[ents[i][n]] = type[ents[i][n]])
      <4>1. ents'[i] = ents[i] /\ n \in Links
        BY <1>1, <1>2, Basics
      <4>2. ents[i][n] \in Inums \cup {0} /\ ents[i][n] # x
        BY <1>1, <1>3, <4>1
      <4> QED
        BY <1>1, <4>1, <4>2
    <3> QED
      BY <3>1
  <2>2. Subdirs(i) \in Nat
    BY <1>3, TreeCounts
  <2> QED
    BY <2>1, <2>2 DEF Subdirs
<1>6. l' = l /\ l \in Int /\ z' = z /\ z \in Int
  <2>1. /\ l \in Nat /\ l' = l - One(LinkOf(p) = i) + One(LinkOf(p)' = i)
    BY <1>1, LinkingChange
  <2>2. /\ z \in Nat /\ z' = z - One(DropOf(p) = i) + One(DropOf(p)' = i)
    BY <1>1, ErasingChange
  <2>3. LinkOf(p)' = LinkOf(p) /\ DropOf(p)' = DropOf(p)
    BY <1>1 DEF LinkOf, DropOf, SameCall
  <2>4. One(LinkOf(p) = i) \in Int /\ One(DropOf(p) = i) \in Int
    BY DEF One
  <2> HIDE DEF l, z
  <2> QED
    BY <2>1, <2>2, <2>3, <2>4
<1>7. nlink[i] = e + s + l + z + h + r /\ r \in Int
  BY <1>2 DEF IInv, LinksCounted
<1>8. nlink[i] = e' + s' + l' + z' + lost'[i] + r
  <2>1. e' \in Int /\ e \in Int /\ s \in Int /\ l \in Int /\ z \in Int
    BY <1>4, <1>5, <1>6
  <2> HIDE DEF e, s, l, z, h, c, r
  <2>2. e = e' + c
    BY <1>4
  <2>3. nlink[i] = e' + s + l + z + (h + c) + r
    BY <1>2, <1>4, <1>7, <2>1, <2>2
  <2> QED
    BY <1>2, <1>5, <1>6, <2>3
<1> QED
  BY <1>1, <1>8

\* Everything still known after the truncation belongs to other inodes, and
\* if its directory entry ".." was the last that named it, so does the rest.
LEMMA ItruncStep ==
  ASSUME IInv, NEW p \in Procs, Itrunc(p), ~dangling'
  PROVE  IInv'
<1> DEFINE x == proc[p].put
<1>1. /\ panic = "none" /\ TypeInv /\ BusyInv /\ 0 \notin Inums /\ x \in Inums
      /\ proc[p].freeing = "itrunc" /\ proc[p].pc \notin Entering
      /\ nlink[x] = 0 /\ x # Root /\ type[x] # "free" /\ lost[x] = 0
      /\ \A q \in Procs : FreeFor(p, x, q)
      /\ \A j \in Inums, n \in Names : ents[j][n] # x
      /\ proc' \in [Procs -> Process] /\ \A q \in Procs \ {p} : proc'[q] = proc[q]
      /\ SameCall(p) /\ proc'[p].put = x /\ proc'[p].later = proc[p].later
      /\ proc'[p].freeing = "flags"
      /\ type' = [type EXCEPT ![x] = "free"] /\ ents' = [ents EXCEPT ![x] = NoEntries]
      /\ type'[x] = "free" /\ \A j \in Inums : j # x => type'[j] = type[j] /\ ents'[j] = ents[j]
      /\ \A n \in Links : ents'[x][n] = 0
      /\ lost' \in [Inums -> Nat] /\ lost'[x] = 0
      /\ \A j \in Inums : j # x => 
           lost'[j] = lost[j] + Cardinality({n \in Names : ents[x][n] = j})
      /\ dangling' = (dangling \/ Orphans(x) # {} \/ ref[x] # 1)
      /\ UNCHANGED <<nlink, ref, busy, cwd, fd, panic>>
  BY ItruncEffect
<1>2. Only(p)
  BY <1>1 DEF Only, TypeInv, TypeOK
<1>4. RefInv'
  <2>1. RefMoves(p)
    <3>1. ASSUME NEW j \in Inums PROVE ref'[j] = ref[j] - Mine(p, j) + Mine(p, j)'
      <4>1. Mine(p, j)' = Mine(p, j)
        BY <1>1 DEF Mine, SameCall
      <4>2. Mine(p, j) \in Int /\ ref[j] \in Int
        BY <1>1, HeldMine DEF TypeInv, TypeOK
      <4> QED
        BY <1>1, <4>1, <4>2
    <3> QED
      BY <1>1, <3>1 DEF RefMoves, TypeInv, TypeOK
  <2>2. ref' \in [Inums -> Nat] /\ \A i \in Inums : ref'[i] = Holders(i)'
    BY <1>2, <2>1, RefStep DEF IInv
  <2>3. type' \in [Inums -> {"free", "file", "dir"}] /\ ents' \in [Inums -> [Links -> Inums \cup {0}]]
    <3>1. NoEntries \in [Links -> Inums \cup {0}]
      BY DEF NoEntries
    <3> QED
      BY <1>1, <3>1 DEF TypeInv, TypeOK
  <2>5. TypeInv'
    BY <1>1, <2>2, <2>3 DEF TypeInv, TypeOK
  <2> QED
    BY <2>2, <2>5 DEF RefInv
<1>5. LinksCounted'
  BY <1>2, ItruncLinks
<1>6. BusyInv'
  <2>1. \A i \in Inums, q \in Procs : Locks(q, i)' <=> Locks(q, i)
    BY <1>1 DEF Locks, SameCall
  <2> QED
    BY <1>1, <2>1 DEF BusyInv
<1>7. ASSUME NEW i \in Inums, \A j \in Inums, n \in Names : ents[j][n] # i
      PROVE  Cardinality({n \in Names : ents[x][n] = i}) = 0
  <2>1. {n \in Names : ents[x][n] = i} = {}
    BY <1>1, <1>7
  <2> QED
    BY <2>1, Empty
<1>8. ASSUME NEW q \in Procs PROVE PlaceOK(q)' /\ InUseTyped(q)'
  <2>1. PlaceOK(q) /\ InUseTyped(q) /\ FreeFor(p, x, q) /\ cwd[q] \in Inums /\ fd[q] \in Inums \cup {0}
    BY <1>1, Here
  <2>2. InUseTyped(q)'
    BY <1>1, <2>1 DEF FreeFor, InUseTyped
  <2>3. CASE q = p
    <3>1. PlaceOK(p)'
      BY <1>1, <2>1, <2>3 DEF PlaceOK, SameCall, StopsEarly, Parent, Creates, LastName
    <3> QED
      BY <2>2, <2>3, <3>1
  <2>4. CASE q # p
    <3>1. proc'[q] = proc[q]
      BY <1>1, <2>4
    <3> QED
      BY <2>1, <2>2, <3>1 DEF PlaceOK, StopsEarly, Parent, Creates, LastName
  <2> QED
    BY <2>3, <2>4
<1>9. ASSUME NEW q \in Procs, NEW i \in Inums PROVE Held(q, i)' => Held(q, i)
  BY <1>1 DEF Held, SameCall
<1>10. ASSUME NEW q \in Procs PROVE FreshInv(q)'
  <2> SUFFICES ASSUME proc'[q].pc = "init" PROVE FreshInv(q)'
    BY DEF FreshInv
  <2> DEFINE i == proc[q].ip
  <2>1. q # p
    BY <1>1 DEF SameCall, Entering
  <2>2. proc'[q] = proc[q] /\ proc[q].pc = "init" /\ FreshInv(q) /\ i \in Inums /\ i # x
    <3>1. proc'[q] = proc[q] /\ FreeFor(p, x, q)
      BY <1>1, <2>1
    <3>2. proc[q].pc = "init" /\ PlaceOK(q) /\ FreshInv(q) /\ i \in Inums \cup {0}
      BY <1>1, <3>1, Here
    <3> QED
      BY <3>1, <3>2 DEF PlaceOK, FreeFor
  <2>3. /\ FreshInode(q, i) /\ cwd[q] # i /\ fd[q] # i /\ proc[q].cur # i
        /\ \A o \in Procs \ {q} : ~Held(o, i)
    BY <2>2 DEF FreshInv
  <2>4. \A j \in Inums, n \in Links : ents[j][n] # i
    BY <2>3 DEF FreshInode
  <2>5. lost'[i] = 0
    <3>1. Cardinality({n \in Names : ents[x][n] = i}) = 0
      BY <1>7, <2>2, <2>4, Basics
    <3> QED
      BY <1>1, <2>2, <2>3, <3>1 DEF FreshInode
  <2>6. \A j \in Inums : \A n \in Links : ents'[j][n] # i
    BY <1>1, <2>2, <2>4
  <2>7. FreshInode(q, i)'
    BY <1>1, <2>2, <2>3, <2>5, <2>6 DEF FreshInode, NewType
  <2>8. \A o \in Procs \ {q} : ~Held(o, i)'
    BY <1>9, <2>2, <2>3
  <2> QED
    BY <1>1, <2>2, <2>3, <2>7, <2>8 DEF FreshInv
<1>11. ASSUME NEW q \in Procs PROVE FreeInv(q)'
  <2> SUFFICES ASSUME proc'[q].freeing = "itrunc" PROVE FreeInv(q)'
    BY DEF FreeInv
  <2> DEFINE y == proc[q].put
  <2>1. q # p /\ proc'[q] = proc[q] /\ proc[q].freeing = "itrunc"
    BY <1>1
  <2>2. y \in Inums /\ y # x /\ FreeInv(q)
    <3>1. y \in Inums
      BY <1>1, <2>1, FreedShunned
    <3>2. FreeInv(q) /\ FreeFor(p, x, q)
      BY <1>1, Here
    <3> QED
      BY <2>1, <3>1, <3>2 DEF FreeFor
  <2>3. /\ nlink[y] = 0 /\ y # Root /\ type[y] # "free"
        /\ \A o \in Procs : FreeFor(q, y, o)
    BY <2>1, <2>2 DEF FreeInv
  <2>4. \A o \in Procs : FreeFor(q, y, o)'
    BY <1>1, <2>3 DEF FreeFor, SameCall
  <2> QED
    BY <1>1, <2>1, <2>2, <2>3, <2>4 DEF FreeInv
<1>12. Orphans(x) = {} /\ \A q \in Procs : \A i \in Inums : Held(q, i)' => i # x
  <2>1. Orphans(x) = {} /\ ref[x] = 1
    BY <1>1
  <2>2. Mine(p, x) >= 1
    BY <1>1, HeldMine
  <2>3. Mine(p, x) = 1 /\ \A q \in Procs : q # p => Mine(q, x) = 0
    BY <1>1, <2>1, <2>2, LastHolder
  <2>4. ASSUME NEW q \in Procs, NEW i \in Inums, Held(q, i)' PROVE i # x
    <3>1. CASE q = p
      <4>1. cwd[p] # x /\ fd[p] # x /\ proc[p].cur # x /\ proc[p].ip # x /\ proc[p].later # x
        BY <2>3, MineOne
      <4> QED
        BY <1>1, <2>4, <3>1, <4>1 DEF Held, SameCall
    <3>2. CASE q # p
      <4>1. /\ cwd[q] # x /\ fd[q] # x /\ proc[q].cur # x /\ proc[q].ip # x
            /\ proc[q].put # x /\ proc[q].later # x
        BY <2>3, <3>2, MineNone
      <4> QED
        BY <1>1, <2>4, <3>2, <4>1 DEF Held
    <3> QED
      BY <3>1, <3>2
  <2> QED
    BY <2>1, <2>4
<1>13. ASSUME NEW q \in Procs PROVE DirOK(q)' /\ RefTyped(q)'
  <2>1. PlaceOK(q) /\ DirOK(q) /\ RefTyped(q) /\ proc[q].cur \in Inums \cup {0} /\ proc[q].ip \in Inums \cup {0}
    BY <1>1, Here
  <2>2. RefTyped(q)'
    BY <1>1, <1>9, <1>12, <2>1 DEF RefTyped
  <2>3. /\ proc'[q].pc = proc[q].pc /\ proc'[q].call = proc[q].call /\ proc'[q].cur = proc[q].cur
        /\ proc'[q].ip = proc[q].ip /\ proc'[q].path = proc[q].path
    BY <1>1 DEF SameCall
  <2>4. proc[q].cur # x /\ proc[q].ip # x
    BY <1>1, <1>12, <2>3 DEF Held
  <2>5. DirOK(q)'
    BY <1>1, <2>1, <2>3, <2>4 DEF DirOK, PlaceOK, StopsEarly, Parent, Entry, LastName, Walking, Entering
  <2> QED
    BY <2>2, <2>5
<1>14. TreeInv'
  <2>1. type'[Root] = "dir"
    BY <1>1, Basics DEF IInv, TreeInv
  <2>2. \A i \in Inums : Fresh(i)' <=> Fresh(i)
    BY <1>1 DEF Fresh, SameCall
  <2>3. ASSUME NEW i \in Inums, type'[i] = "free" PROVE lost'[i] = 0
    <3>1. CASE i # x
      <4>1. type[i] = "free" /\ lost[i] = 0
        BY <1>1, <2>3, <3>1 DEF IInv, TreeInv
      <4>2. \A j \in Inums, n \in Names : ents[j][n] # i
        BY <4>1, <1>1, Basics DEF IInv, EntriesTyped
      <4>3. Cardinality({n \in Names : ents[x][n] = i}) = 0
        BY <1>7, <4>2
      <4> QED
        BY <1>1, <3>1, <4>1, <4>3
    <3> QED
      BY <1>1, <3>1
  <2>4. ASSUME NEW i \in Inums
        PROVE  /\ type'[i] # "dir" => \A n \in Links : ents'[i][n] = 0
               /\ type'[i] = "dir" /\ ~Fresh(i)' => ents'[i][".."] # 0
    <3>1. CASE i = x
      BY <1>1, <3>1
    <3>2. CASE i # x
      BY <1>1, <2>2, <3>2 DEF IInv, TreeInv
    <3> QED
      BY <3>1, <3>2
  <2> QED
    BY <2>1, <2>3, <2>4 DEF TreeInv
<1>15. EntriesTyped'
  <2> SUFFICES ASSUME NEW i \in Inums, NEW n \in Names, ents'[i][n] # 0
               PROVE  type'[ents'[i][n]] # "free"
    BY DEF EntriesTyped
  <2>1. i # x /\ ents'[i][n] = ents[i][n]
    BY <1>1, Basics
  <2>2. type[ents[i][n]] # "free" /\ ents[i][n] # x /\ ents[i][n] \in Inums
    BY <1>1, <2>1, Basics DEF IInv, EntriesTyped, TypeInv, TypeOK
  <2> QED
    BY <1>1, <2>1, <2>2
<1>16. UpTyped'
  <2> SUFFICES ASSUME NEW i \in Inums, ents'[i][".."] # 0
               PROVE  type'[ents'[i][".."]] # "free"
    BY DEF UpTyped
  <2>1. i # x /\ ents'[i][".."] = ents[i][".."]
    BY <1>1, Basics
  <2>2. type[ents[i][".."]] # "free" /\ ents[i][".."] \in Inums
    BY <1>1, <2>1, Basics DEF IInv, UpTyped, TypeInv, TypeOK
  <2>3. ents[i][".."] # x
    BY <1>1, <1>12, <2>1 DEF Orphans
  <2> QED
    BY <1>1, <2>1, <2>2, <2>3
<1>17. Acyclic'
  <2> SUFFICES ASSUME NEW S \in SUBSET Inums, S # {}
               PROVE  \E i \in S : \A n \in Names : ents'[i][n] \notin S
    BY DEF Acyclic
  <2>1. PICK k \in S : \A n \in Names : ents[k][n] \notin S
    BY DEF IInv, Acyclic
  <2>2. ASSUME NEW n \in Names PROVE ents'[k][n] \notin S
    BY <1>1, <2>1, Basics
  <2> QED
    BY <2>2
<1>18. panic' \in Panics1
  BY <1>1 DEF IInv
<1>19. \A q \in Procs : ProcInv(q)'
  BY <1>8, <1>10, <1>11, <1>13 DEF ProcInv
<1> QED
  BY <1>4, <1>5, <1>6, <1>14, <1>15, <1>16, <1>17, <1>18, <1>19 DEF IInv
-----------------------------------------------------------------------------
-----------------------------------------------------------------------------
\* Only the root exists, and is everybody's directory.
LEMMA InitCounts ==
  ASSUME Init
  PROVE  /\ \A i \in Inums : ref[i] = Holders(i)
         /\ LinksCounted
<1>1. /\ Inums \subseteq Nat \ {0} /\ Root \in Inums /\ Names \subseteq Links /\ ".." \notin Names
      /\ Cardinality(Procs) \in Nat
  BY Basics, FS_CardinalityType
<1>2. \A p \in Procs : /\ cwd[p] = Root /\ fd[p] = 0 /\ proc[p].pc = "user" /\ proc[p].cur = 0
                       /\ proc[p].call = "open" /\ proc[p].ip = 0 /\ proc[p].put = 0
                       /\ proc[p].later = 0
  BY IdleProcess DEF Init
<1>3. \A i \in Inums : \A n \in Names : ents[i][n] = 0
  BY <1>1 DEF Init, NoEntries
<1>4. ASSUME NEW i \in Inums PROVE ref[i] = Holders(i)
  <2> DEFINE A1 == {p \in Procs : cwd[p] = i}
             A2 == {p \in Procs : fd[p] = i}
             A3 == {p \in Procs : proc[p].cur = i}
             A4 == {p \in Procs : proc[p].ip = i}
             A5 == {p \in Procs : proc[p].put = i}
             A6 == {p \in Procs : proc[p].later = i}
  <2>1. i # 0
    BY <1>1
  <2>2. A1 = IF i = Root THEN Procs ELSE {}
    BY <1>2
  <2>3. A2 = {} /\ A3 = {} /\ A4 = {} /\ A5 = {} /\ A6 = {}
    BY <1>2, <2>1
  <2>4. ref[i] = IF i = Root THEN Cardinality(Procs) ELSE 0
    BY DEF Init
  <2>5. Holders(i) = Cardinality(A1) + Cardinality(A2) + Cardinality(A3)
                   + Cardinality(A4) + Cardinality(A5) + Cardinality(A6)
    BY DEF Holders
  <2> HIDE DEF A1, A2, A3, A4, A5, A6
  <2>6. /\ Cardinality(A2) = 0 /\ Cardinality(A3) = 0 /\ Cardinality(A4) = 0
        /\ Cardinality(A5) = 0 /\ Cardinality(A6) = 0
    BY <2>3, Empty
  <2>7. Cardinality(A1) = ref[i] /\ ref[i] \in Nat
    BY <1>1, <2>2, <2>4, Empty
  <2> QED
    BY <2>5, <2>6, <2>7
<1>5. ASSUME NEW i \in Inums, type[i] # "free"
      PROVE  nlink[i] = Entries(i) + Subdirs(i) + Linking(i) + Erasing(i) + lost[i]
                      + (IF i = Root THEN 1 ELSE 0)
  <2>1. i = Root /\ nlink[i] = 1 /\ lost[i] = 0
    BY <1>5 DEF Init
  <2>2. {x \in Inums \X Names : ents[x[1]][x[2]] = i} = {}
    BY <1>1, <1>3
  <2>3. {n \in Names : ents[i][n] # 0 /\ type[ents[i][n]] = "dir"} = {}
    BY <1>3
  <2>4. /\ {p \in Procs : proc[p].call = "link" /\ proc[p].ip = i} = {}
        /\ {p \in Procs : proc[p].pc = "drop" /\ proc[p].ip = i} = {}
    BY <1>2
  <2>5. Entries(i) = 0 /\ Subdirs(i) = 0
    BY <2>2, <2>3, Empty DEF Entries, Subdirs
  <2>6. Linking(i) = 0 /\ Erasing(i) = 0
    BY <2>4, Empty DEF Linking, Erasing
  <2> QED
    BY <2>1, <2>5, <2>6
<1> QED
  BY <1>4, <1>5 DEF LinksCounted

LEMMA InitIInv == Init => IInv
<1> SUFFICES ASSUME Init PROVE IInv
  OBVIOUS
<1>1. /\ Inums \subseteq Nat \ {0} /\ Root \in Inums /\ Names \subseteq Links /\ ".." \notin Names
      /\ ".." \in Links /\ Cardinality(Procs) \in Nat /\ None \notin Procs
  BY Basics, FS_CardinalityType
<1>2. /\ Idle \in Process /\ Idle.pc = "user" /\ Idle.call = "open" /\ Idle.cur = 0
      /\ Idle.ip = 0 /\ Idle.put = 0 /\ Idle.later = 0 /\ Idle.freeing = "no"
  BY IdleProcess
<1>3. \A p \in Procs : cwd[p] = Root /\ fd[p] = 0 /\ proc[p] = Idle
  BY DEF Init
<1>4. /\ \A i \in Inums : /\ type[i] = IF i = Root THEN "dir" ELSE "free"
                          /\ busy[i] = None /\ lost[i] = 0
                          /\ \A n \in Links : ents[i][n] = IF i = Root /\ n = ".." THEN Root ELSE 0
      /\ panic = "none" /\ dangling = FALSE
  BY <1>1 DEF Init, NoEntries
<1>5. TypeInv
  <2>1. /\ type \in [Inums -> {"free", "file", "dir"}] /\ nlink \in [Inums -> Nat]
        /\ ref \in [Inums -> Nat] /\ lost \in [Inums -> Nat]
    BY <1>1 DEF Init
  <2>2. /\ busy \in [Inums -> Procs \cup {None}] /\ cwd \in [Procs -> Inums]
        /\ fd \in [Procs -> Inums \cup {0}] /\ panic \in Messages
    BY <1>1 DEF Init, Messages
  <2>3. proc \in [Procs -> Process]
    BY <1>2 DEF Init
  <2>4. ents \in [Inums -> [Links -> Inums \cup {0}]]
    BY <1>1 DEF Init, NoEntries
  <2> QED
    BY <1>4, <2>1, <2>2, <2>3, <2>4, NatCounts DEF TypeInv, TypeOK
<1>6. RefInv /\ LinksCounted
  BY <1>5, InitCounts DEF RefInv
<1>7. ASSUME NEW p \in Procs PROVE ProcInv(p)
  <2>1. PlaceOK(p) /\ DirOK(p)
    BY <1>2, <1>3 DEF PlaceOK, DirOK, Walking, Entering, StopsEarly, Parent
  <2>2. RefTyped(p) /\ InUseTyped(p)
    BY <1>1, <1>2, <1>3, <1>4 DEF RefTyped, InUseTyped, Held
  <2>3. FreshInv(p) /\ FreeInv(p)
    BY <1>2, <1>3 DEF FreshInv, FreeInv
  <2> QED
    BY <2>1, <2>2, <2>3 DEF ProcInv
<1>8. BusyInv
  BY <1>1, <1>2, <1>3, <1>4 DEF BusyInv, Locks, Entering
<1>9. TreeInv /\ EntriesTyped /\ UpTyped
  BY <1>1, <1>4 DEF TreeInv, EntriesTyped, UpTyped
<1>10. Acyclic
  <2> SUFFICES ASSUME NEW S \in SUBSET Inums, S # {}
               PROVE  \E i \in S : \A n \in Names : ents[i][n] \notin S
    BY DEF Acyclic
  <2>1. PICK i \in S : TRUE
    OBVIOUS
  <2>2. \A n \in Names : ents[i][n] = 0
    BY <1>1, <1>4
  <2> QED
    BY <1>1, <2>1, <2>2
<1> QED
  BY <1>4, <1>6, <1>7, <1>8, <1>9, <1>10 DEF IInv, Panics1

LEMMA IdleStutter ==
  ASSUME IInv, UNCHANGED vars
  PROVE  IInv'
<1>1. UNCHANGED <<type, nlink, ents, ref, busy, cwd, fd, proc, panic, lost, dangling>>
  BY DEF vars
<1>2. RefInv' /\ LinksCounted'
  <2>1. TypeInv'
    <3>1. TypeInv
      BY DEF IInv, RefInv
    <3> QED
      BY <1>1, <3>1 DEF TypeInv, TypeOK
  <2>2. \A i \in Inums : Holders(i)' = Holders(i)
    BY <1>1 DEF Holders
  <2>3. RefInv'
    BY <1>1, <2>1, <2>2 DEF IInv, RefInv
  <2> QED
    BY <1>1, <2>3 DEF IInv, LinksCounted, Entries, Subdirs, Linking, Erasing
<1>4. ASSUME NEW q \in Procs PROVE ProcInv(q)'
  <2>1. /\ PlaceOK(q) /\ InUseTyped(q) /\ FreshInv(q) /\ FreeInv(q)
        /\ DirOK(q) /\ RefTyped(q)
    BY DEF IInv, ProcInv
  <2>2. PlaceOK(q)' /\ InUseTyped(q)'
    BY <1>1, <2>1 DEF PlaceOK, InUseTyped, StopsEarly, Parent, Creates, LastName
  <2>3. DirOK(q)' /\ RefTyped(q)'
    BY <1>1, <2>1 DEF DirOK, RefTyped, StopsEarly, Parent, Entry, LastName, Held
  <2>4. FreshInv(q)' /\ FreeInv(q)'
    BY <1>1, <2>1 DEF FreshInv, FreshInode, NewType, Held, FreeInv, FreeFor
  <2> QED
    BY <2>2, <2>3, <2>4 DEF ProcInv
<1>5. BusyInv' /\ TreeInv'
  <2>1. \A i \in Inums : \A q \in Procs : Locks(q, i)' = Locks(q, i)
    BY <1>1 DEF Locks
  <2>2. \A i \in Inums : Fresh(i)' = Fresh(i)
    BY <1>1 DEF Fresh
  <2>3. BusyInv'
    BY <1>1, <2>1 DEF IInv, BusyInv
  <2> QED
    BY <1>1, <2>2, <2>3 DEF IInv, TreeInv
<1>6. EntriesTyped' /\ UpTyped' /\ Acyclic'
  BY <1>1 DEF IInv, EntriesTyped, UpTyped, Acyclic
<1> QED
  BY <1>1, <1>2, <1>4, <1>5, <1>6 DEF IInv, Panics1

LEMMA IInvNext == IInv /\ [Next]_vars /\ ~dangling' => IInv'
<1> SUFFICES ASSUME IInv, [Next]_vars, ~dangling' PROVE IInv'
  OBVIOUS
<1>1. CASE UNCHANGED vars
  BY <1>1, IdleStutter
<1>2. CASE Next
  <2>1. PICK p \in Procs : Call(p) \/ Close(p) \/ Continue(p)
    BY <1>2 DEF Next
  <2>2. CASE Call(p) \/ Close(p)
    BY <2>2, CallStep, CloseStep
  <2>3. CASE Iput(p) \/ Itrunc(p) \/ IputReturns(p)
    BY <2>3, IputStep, ItruncStep, IputReturnsStep
  <2>4. CASE Namex(p) \/ Open(p) \/ Chdir(p)
    BY <2>4, NamexStep, OpenStep, ChdirStep
  <2>5. CASE CreateLooks(p) \/ CreateExists(p) \/ Ialloc(p) \/ CreateInit(p)
    BY <2>5, CreateLooksStep, CreateExistsStep, IallocStep, CreateInitStep
  <2>6. CASE UnlinkLooks(p) \/ UnlinkChild(p) \/ UnlinkDrops(p)
    BY <2>6, UnlinkLooksStep, UnlinkChildStep, UnlinkDropsStep
  <2>7. CASE LinkCounts(p) \/ LinkEnters(p) \/ LinkBad(p)
    BY <2>7, LinkCountsStep, LinkEntersStep, LinkBadStep
  <2> QED
    BY <2>1, <2>2, <2>3, <2>4, <2>5, <2>6, <2>7 DEF Continue
<1> QED
  BY <1>1, <1>2

\* A freed inode that was in use is never forgotten.
LEMMA StaysDangling ==
  ASSUME dangling, [Next]_vars
  PROVE  dangling'
<1>1. CASE UNCHANGED vars
  BY <1>1 DEF vars
<1>2. ASSUME NEW p \in Procs, Call(p) \/ Close(p) \/ Continue(p)
      PROVE  dangling'
  <2>1. CASE Call(p) \/ Close(p)
    BY <2>1 DEF Call, Close
  <2>2. CASE Iput(p) \/ Itrunc(p) \/ IputReturns(p) \/ Namex(p)
    BY <2>2 DEF Iput, Itrunc, IputReturns, Namex, Panics, NoType
  <2>3. CASE Open(p) \/ Chdir(p)
    BY <2>3 DEF Open, Chdir, Panics, NoType
  <2>4. CASE CreateLooks(p) \/ CreateExists(p) \/ Ialloc(p) \/ CreateInit(p)
    BY <2>4 DEF CreateLooks, CreateExists, Ialloc, CreateInit, Panics, NoType
  <2>5. CASE UnlinkLooks(p) \/ UnlinkChild(p) \/ UnlinkDrops(p)
    BY <2>5 DEF UnlinkLooks, UnlinkChild, UnlinkDrops, Panics, NoType
  <2>6. CASE LinkCounts(p) \/ LinkEnters(p) \/ LinkBad(p)
    BY <2>6 DEF LinkCounts, LinkEnters, LinkBad, Panics, NoType
  <2> QED
    BY <1>2, <2>1, <2>2, <2>3, <2>4, <2>5, <2>6 DEF Continue
<1> QED
  BY <1>1, <1>2 DEF Next

\* Inodes in use, directories and new inodes are as the code expects them
\* in the middle of every call, however the calls interleave, until an
\* inode in use is freed.
THEOREM IInvHolds == Spec => [](~dangling => IInv)
<1>1. Init => (~dangling => IInv)
  BY InitIInv
<1>2. (~dangling => IInv) /\ [Next]_vars => (~dangling' => IInv')
  BY IInvNext, StaysDangling
<1> QED
  BY <1>1, <1>2, PTL DEF Spec

\* iget, idup and iput count: ref of a cached inode is the number of places
\* that hold it, on every path of every call and while inodes are freed.
THEOREM RefExactHolds == Spec => [](~dangling => RefExact)
<1>1. IInv => RefExact
  BY DEF IInv, RefInv, TypeInv, RefExact
<1> QED
  BY <1>1, IInvHolds, PTL

\* create, link and unlink count: nlink is the number of the entries and
\* subdirectories of an inode, but for the link a process is just making or
\* has just erased and for entries that went with a removed directory.
THEOREM LinkExactHolds == Spec => []LinkExact
<1>1. (~dangling => IInv) => LinkExact
  BY DEF IInv, LinkExact
<1> QED
  BY <1>1, IInvHolds, PTL

\* iput frees no inode that is somebody's directory or open file or has an
\* entry, and ilock, iput and unlink do not panic, until an inode is freed
\* that the ".." of a removed directory still names.
THEOREM InUseHolds == Spec => [](~dangling => InUse)
<1>1. IInv => InUse
  <2> SUFFICES ASSUME IInv PROVE InUse
    OBVIOUS
  <2>1. \A p \in Procs : InUseTyped(p)
    BY DEF IInv, ProcInv
  <2>2. EntriesTyped /\ UpTyped /\ panic \in Panics1
    BY DEF IInv
  <2>3. \A i \in Inums, n \in Links : ents[i][n] # 0 => type[ents[i][n]] # "free"
    BY <2>2 DEF EntriesTyped, UpTyped, Links
  <2> QED
    BY <2>1, <2>2, <2>3 DEF InUse, InUseTyped, Panics1
<1> QED
  BY <1>1, IInvHolds, PTL
-----------------------------------------------------------------------------
\* In a stuck group every lock is held by an unlink that waits for a child
\* of the directory it has locked, so these directories would be a cycle.
LEMMA NoneStuck ==
  ASSUME IInv
  PROVE  NoDeadlock
<1> SUFFICES ASSUME NEW group \in SUBSET Procs, Stuck(group), group # {} PROVE FALSE
  BY DEF NoDeadlock
<1> DEFINE W == {i \in Inums : \E p \in group : WantsLock(p) = i}
<1>1. TypeInv /\ BusyInv /\ Acyclic /\ 0 \notin Inums
  BY Basics DEF IInv, RefInv
<1>2. ASSUME NEW p \in group
      PROVE  /\ proc[p].freeing = "no" /\ WantsLock(p) \in Inums
             /\ busy[WantsLock(p)] \in group
  <2>1. p \in Procs /\ PlaceOK(p) /\ proc[p] \in Process
    BY <1>1 DEF IInv, ProcInv, TypeInv, TypeOK
  <2>2. proc[p].put = 0 /\ WantsLock(p) # 0 /\ busy[WantsLock(p)] \in group
    BY DEF Stuck
  <2>3. proc[p].cur \in Inums \cup {0} /\ proc[p].ip \in Inums \cup {0}
    BY <2>1 DEF Process
  <2>4. proc[p].freeing = "no"
    BY <2>1, <2>2 DEF PlaceOK
  <2> QED
    BY <2>2, <2>3, <2>4 DEF WantsLock
<1>3. ASSUME NEW i \in W
      PROVE  \E n \in Names : ents[i][n] \in W
  <2>1. PICK p \in group : WantsLock(p) = i
    OBVIOUS
  <2> DEFINE q == busy[i]
  <2>2. q \in group /\ q \in Procs /\ i \in Inums
    BY <1>2, <2>1
  <2>3. /\ Locks(q, i) /\ proc[q].freeing = "no" /\ WantsLock(q) # 0
        /\ WantsLock(q) \in W
    <3>1. Locks(q, i)
      BY <1>1, <2>2 DEF BusyInv
    <3>2. proc[q].freeing = "no" /\ WantsLock(q) \in Inums
      BY <1>2, <2>2
    <3> QED
      BY <1>1, <2>2, <3>1, <3>2
  <2>4. proc[q].pc \in {"init", "child"} /\ proc[q].cur = i /\ WantsLock(q) = proc[q].ip
    <3> HIDE DEF q, W
    <3> QED
      BY <2>3 DEF Locks, WantsLock, Entering
  <2>5. proc[q].pc # "init"
    <3>1. SUFFICES ASSUME proc[q].pc = "init" PROVE FALSE
      OBVIOUS
    <3> DEFINE j == proc[q].ip
    <3>2. /\ proc[q].cur # j
          /\ \A r \in Procs \ {q} : ~Held(r, j)
      BY <2>2, <3>1 DEF IInv, ProcInv, FreshInv
    <3>3. j \in Inums /\ busy[j] \in group /\ busy[j] \in Procs
      BY <1>2, <2>2, <2>4
    <3>4. Locks(busy[j], j) /\ proc[busy[j]].freeing = "no" /\ WantsLock(busy[j]) # 0
      <4>1. Locks(busy[j], j)
        BY <1>1, <3>3 DEF BusyInv
      <4> QED
        BY <1>1, <1>2, <3>3, <4>1
    <3>5. proc[busy[j]].cur = j
      <4> DEFINE r == busy[j]
      <4>1. Locks(r, j) /\ proc[r].freeing = "no" /\ WantsLock(r) # 0
        BY <3>4
      <4> HIDE DEF r, j
      <4>2. proc[r].cur = j
        BY <4>1 DEF Locks, WantsLock, Entering
      <4> QED
        BY <4>2 DEF r
    <3> QED
      BY <3>2, <3>3, <3>5 DEF Held
  <2>6. DirOK(q) /\ PlaceOK(q)
    BY <2>2 DEF IInv, ProcInv
  <2>7. LastName(q) \in Names /\ ents[i][LastName(q)] = proc[q].ip
    BY <2>4, <2>5, <2>6 DEF PlaceOK, DirOK, Entry, Entering
  <2> QED
    BY <2>3, <2>4, <2>7
<1>4. W # {} /\ W \in SUBSET Inums
  <2>1. PICK p \in group : TRUE
    OBVIOUS
  <2> QED
    BY <1>2, <2>1
<1> QED
  <2> HIDE DEF W
  <2> QED
    BY <1>1, <1>3, <1>4 DEF Acyclic

\* create and unlink hold a directory's flag while they wait for another
\* inode's; namex never holds one.  Flags are taken from the top of the tree
\* down, so no group of processes waits for flags that they hold themselves.
THEOREM NoDeadlockHolds == Spec => []NoDeadlock
<1>1. (~dangling => IInv) => NoDeadlock
  BY NoneStuck DEF NoDeadlock
<1> QED
  BY <1>1, IInvHolds, PTL
=============================================================================
