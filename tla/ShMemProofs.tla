----------------------------- MODULE ShMemProofs -----------------------------
(***************************************************************************)
(* Theorems about ShMem, for any number of processes, regions, pages and   *)
(* frames, with preemption and without.  Types hold whatever happens       *)
(* (IInv); that a region's count covers its processes and that they see    *)
(* the same frames, until a call acts on a count that had changed under it *)
(* (AInv); that no frame is mapped twice or freed in use, until then or    *)
(* until wait() goes by the size of too large a parent (FInv).             *)
(***************************************************************************)
EXTENDS ShMem, FiniteSetTheorems, TLAPS

\* An image and heap is mapped from 0 to sz, below the regions.
Image ==
  \A p \in Proc :
    /\ sz[p] <= shmtop[p]
    /\ \A a \in Va : a < sz[p] => pgdir[p][a] # None

\* What shmgetat has checked still holds when it goes on.
CallInv ==
  \A p \in Proc : call[p] # None =>
    /\ state[p] = "RUNNABLE" /\ call[p].key \notin Attached(p)
    /\ sz[p] <= shmtop[p] - call[p].num

\* Only a process that runs is about to store a count.
LoadInv == \A p \in Proc : loaded[p] # None => state[p] = "RUNNABLE"

\* A region that is counted or attached has pages.
Sized == \A k \in Key :
  shmem_count[k] # 0 \/ (\E p \in Proc : k \in Attached(p)) => shmem_pages[k] # 0

\* RefCount, whatever the phase and the past.
CountedUsers == \A k \in Key : Cardinality(Users(k)) <= shmem_count[k]

IInv == TypeOK /\ Image /\ CallInv /\ LoadInv /\ Sized /\ (~stale => CountedUsers)

\* The counts a process goes by are those that are there.
Exact(p) == \A k \in Key : Count(p, k) = shmem_count[k]

\* SharedAlike for one process, and for all, whatever the phase and the past.
AlikeAt(p) ==
  /\ shmtop[p] .. UserTop - 1 = UNION {Extent(p, k) : k \in Attached(p)}
  /\ \A j, k \in Attached(p) :
       j # k => Extent(p, j) \cap Extent(p, k) = {}
  /\ \A k \in Attached(p) : \A i \in 0 .. shmem_pages[k] - 1 :
       pgdir[p][shmem_vaddr[p][k] + shmem_pages[k] - 1 - i] = shmem_paddr[k][i]

Alike == \A p \in Proc : Live(p) => AlikeAt(p)

AInv == IInv /\ (~stale => Alike)

\* Nothing is mapped between a heap and the regions.
Gap == \A p \in Proc : Live(p) =>
  \A a \in Va : sz[p] <= a /\ a < shmtop[p] => pgdir[p][a] = None

\* Pages of images and heaps, and of regions in use, are frames that are not
\* free, and all different.
Owns(p, a)  == Live(p) /\ a < sz[p]
Holds(k, i) == shmem_count[k] # 0 /\ i < shmem_pages[k]
PrivateInv ==
  /\ \A p \in Proc, a \in Va : Owns(p, a) => pgdir[p][a] \in Frame \ freelist
  /\ \A p, q \in Proc, a, b \in Va :
       Owns(p, a) /\ Owns(q, b) /\ pgdir[p][a] = pgdir[q][b] => p = q /\ a = b
RegionInv ==
  /\ \A k \in Key, i \in Index :
       Holds(k, i) => shmem_paddr[k][i] \in Frame \ freelist
  /\ \A k, l \in Key, i, j \in Index :
       Holds(k, i) /\ Holds(l, j) /\ shmem_paddr[k][i] = shmem_paddr[l][j] =>
         k = l /\ i = j
  /\ \A p \in Proc, a \in Va, k \in Key, i \in Index :
       Owns(p, a) /\ Holds(k, i) => pgdir[p][a] # shmem_paddr[k][i]

Kept == phase # "corrupt" /\ Gap /\ PrivateInv /\ RegionInv

FInv == AInv /\ (~stale /\ ~overran => Kept)
------------------------------------------------------------------------------
(* The free list. *)

\* The members of a finite set of numbers are its 0th, 1st, 2nd ... in order:
\* counting the smaller ones is a bijection.
LEMMA Ranks ==
  ASSUME NEW S \in SUBSET Nat, IsFiniteSet(S)
  PROVE  /\ Cardinality(S) \in Nat
         /\ \A x \in S : Cardinality({g \in S : g < x}) \in 0 .. Cardinality(S) - 1
         /\ \A x, y \in S : x < y =>
              Cardinality({g \in S : g < x}) < Cardinality({g \in S : g < y})
         /\ \A i \in 0 .. Cardinality(S) - 1 : \E x \in S :
              Cardinality({g \in S : g < x}) = i
<1> DEFINE r(x) == Cardinality({g \in S : g < x})
<1>0. \A T \in SUBSET S : IsFiniteSet(T) /\ Cardinality(T) \in Nat
  BY FS_Subset, FS_CardinalityType
<1>1. Cardinality(S) \in Nat
  BY <1>0
<1>2. \A x \in S : r(x) \in Nat
  BY <1>0
<1>3. ASSUME NEW x \in S, NEW y \in S, x < y
      PROVE  r(x) < r(y)
  <2>1. /\ {g \in S : g < x} \in SUBSET S /\ {g \in S : g < y} \in SUBSET S
        /\ x \notin {g \in S : g < x}
        /\ {g \in S : g < x} \cup {x} \subseteq {g \in S : g < y}
    <3>1. x \in Nat /\ y \in Nat /\ \A g \in S : g \in Nat
      OBVIOUS
    <3>2. ~(x < x) /\ \A g \in S : g < x => g < y
      BY <1>3, <3>1
    <3> QED
      BY <1>3, <3>2
  <2>2. Cardinality({g \in S : g < x} \cup {x}) = r(x) + 1
    BY <1>0, <2>1, FS_AddElement
  <2>3. Cardinality({g \in S : g < x} \cup {x}) <= r(y)
    BY <1>0, <2>1, FS_Subset
  <2> QED
    BY <1>2, <2>2, <2>3
<1>4. ASSUME NEW x \in S
      PROVE  r(x) \in 0 .. Cardinality(S) - 1
  <2>1. /\ {g \in S : g < x} \in SUBSET S
        /\ x \notin {g \in S : g < x}
        /\ {g \in S : g < x} \cup {x} \subseteq S
    <3>1. ~(x < x)
      OBVIOUS
    <3> QED
      BY <3>1
  <2>2. Cardinality({g \in S : g < x} \cup {x}) = r(x) + 1
    BY <1>0, <2>1, FS_AddElement
  <2>3. Cardinality({g \in S : g < x} \cup {x}) <= Cardinality(S)
    BY <1>0, <2>1, FS_Subset
  <2> QED
    BY <1>1, <1>2, <2>2, <2>3
<1>5. \A i \in 0 .. Cardinality(S) - 1 : \E x \in S : r(x) = i
  <2> DEFINE T == 0 .. Cardinality(S) - 1
             f == [x \in S |-> r(x)]
  <2>1. IsFiniteSet(T) /\ Cardinality(T) = Cardinality(S)
    <3>1. PICK m \in Int : m = Cardinality(S) - 1
      BY <1>1
    <3>2. /\ IsFiniteSet(0 .. m)
          /\ Cardinality(0 .. m) = IF 0 > m THEN 0 ELSE m - 0 + 1
      BY FS_Interval
    <3>3. (IF 0 > m THEN 0 ELSE m - 0 + 1) = Cardinality(S)
      BY <1>1, <3>1
    <3> QED
      BY <3>1, <3>2, <3>3
  <2>2. f \in [S -> T]
    BY <1>4
  <2>3. \A x, y \in S : f[x] = f[y] => x = y
    <3> SUFFICES ASSUME NEW x \in S, NEW y \in S, x # y
                 PROVE  r(x) # r(y)
      OBVIOUS
    <3>1. x < y \/ y < x
      OBVIOUS
    <3> QED
      BY <1>2, <1>3, <3>1
  <2> HIDE DEF T, f
  <2>4. f \in Injection(S, T)
    BY <2>2, <2>3 DEF Injection, IsInjective
  <2>5. f \in Surjection(S, T)
    BY <2>1, <2>4, FS_Injection
  <2>6. \A i \in T : \E x \in S : f[x] = i
    BY <2>5 DEF Surjection
  <2> QED
    BY <2>6 DEF f, T
<1> QED
  BY <1>1, <1>3, <1>4, <1>5

\* The n lowest free frames are n of them, and Nth tells them apart.
LEMMA LowestFrames ==
  ASSUME freelist \subseteq Frame, NEW n \in 0 .. Cardinality(freelist)
  PROVE  /\ Lowest(n) \subseteq freelist
         /\ \A i \in 0 .. n - 1 : Nth(Lowest(n), i) \in Lowest(n)
         /\ \A i, j \in 0 .. n - 1 : Nth(Lowest(n), i) = Nth(Lowest(n), j) => i = j
<1> DEFINE L == Lowest(n)
<1>1. freelist \in SUBSET Nat /\ IsFiniteSet(freelist)
  <2>1. Frame \in SUBSET Nat /\ IsFiniteSet(Frame)
    BY FS_Interval, ConstantAssumption DEF Frame
  <2> QED
    BY <2>1, FS_Subset
<1>2. L \subseteq freelist
  BY DEF Lowest
<1>3. \A f \in L : {g \in L : g < f} = {g \in freelist : g < f}
  <2> SUFFICES ASSUME NEW f \in L, NEW g \in freelist, g < f
               PROVE  g \in L
    BY <1>2
  <2>1. Cardinality({h \in freelist : h < g}) < Cardinality({h \in freelist : h < f})
    <3>1. \A x, y \in freelist : x < y =>
            Cardinality({h \in freelist : h < x}) < Cardinality({h \in freelist : h < y})
      BY <1>1, Ranks
    <3> QED
      BY <1>2, <3>1
  <2>2. /\ Cardinality({h \in freelist : h < g}) \in Int
        /\ Cardinality({h \in freelist : h < f}) \in Int
        /\ Cardinality(freelist) \in Nat
    <3>1. /\ Cardinality({h \in freelist : h < g}) \in 0 .. Cardinality(freelist) - 1
          /\ Cardinality({h \in freelist : h < f}) \in 0 .. Cardinality(freelist) - 1
          /\ Cardinality(freelist) \in Nat
      BY <1>1, <1>2, Ranks
    <3> QED
      BY <3>1
  <2>3. Cardinality({h \in freelist : h < f}) < n
    BY DEF Lowest
  <2> QED
    BY <2>1, <2>2, <2>3 DEF Lowest
<1>4. ASSUME NEW i \in 0 .. n - 1
      PROVE  Nth(L, i) \in L /\ Cardinality({g \in L : g < Nth(L, i)}) = i
  <2>1. i \in 0 .. Cardinality(freelist) - 1
    BY <1>1, Ranks
  <2>2. PICK x \in freelist : Cardinality({g \in freelist : g < x}) = i
    BY <1>1, <2>1, Ranks
  <2>3. x \in L
    BY <2>2 DEF Lowest
  <2>4. Cardinality({g \in L : g < x}) = i
    BY <1>3, <2>2, <2>3
  <2> HIDE DEF L
  <2> QED
    BY <2>3, <2>4 DEF Nth
<1> HIDE DEF L
<1>5. \A i, j \in 0 .. n - 1 : Nth(L, i) = Nth(L, j) => i = j
  BY <1>4
<1> QED
  BY <1>2, <1>4, <1>5 DEF L

\* What a page table has at an address.
Entry == Frame \cup {0, None}

\* A page table with frames from the free list mapped into it.
LEMMA FilledPages ==
  ASSUME freelist \subseteq Frame, NEW n \in 0 .. Cardinality(freelist),
         NEW a \in Nat, NEW pd \in [Va -> Entry]
  PROVE  /\ Filled(pd, a, n) \in [Va -> Entry]
         /\ \A v \in Va : a <= v /\ v < a + n => Filled(pd, a, n)[v] \in Lowest(n)
         /\ \A v \in Va : ~(a <= v /\ v < a + n) => Filled(pd, a, n)[v] = pd[v]
         /\ \A v, w \in Va :
              /\ a <= v /\ v < a + n /\ a <= w /\ w < a + n
              /\ Filled(pd, a, n)[v] = Filled(pd, a, n)[w]
              => v = w
<1>0. Cardinality(freelist) \in Nat /\ n \in Nat
  <2>1. Frame \in SUBSET Nat /\ IsFiniteSet(Frame)
    BY FS_Interval, ConstantAssumption DEF Frame
  <2>2. freelist \in SUBSET Nat /\ IsFiniteSet(freelist)
    BY <2>1, FS_Subset
  <2> QED
    BY <2>2, Ranks
<1>1. /\ Lowest(n) \subseteq freelist
      /\ \A i \in 0 .. n - 1 : Nth(Lowest(n), i) \in Lowest(n)
      /\ \A i, j \in 0 .. n - 1 : Nth(Lowest(n), i) = Nth(Lowest(n), j) => i = j
  BY LowestFrames
<1>2. \A v \in Va : v \in Int
  BY DEF Va
<1>3. \A v \in Va : a <= v /\ v < a + n => v - a \in 0 .. n - 1 /\ v \in a .. a + n - 1
  BY <1>0, <1>2
<1>4. \A v \in Va : ~(a <= v /\ v < a + n) => v \notin a .. a + n - 1
  BY <1>0, <1>2
<1>5. \A v \in Va : a <= v /\ v < a + n =>
        Filled(pd, a, n)[v] = Nth(Lowest(n), v - a)
  BY <1>3 DEF Filled
<1>6. \A v \in Va : a <= v /\ v < a + n => Filled(pd, a, n)[v] \in Lowest(n)
  BY <1>1, <1>3, <1>5
<1>7. \A v \in Va : ~(a <= v /\ v < a + n) => Filled(pd, a, n)[v] = pd[v]
  BY <1>4 DEF Filled
<1>8. \A v, w \in Va :
        /\ a <= v /\ v < a + n /\ a <= w /\ w < a + n
        /\ Filled(pd, a, n)[v] = Filled(pd, a, n)[w]
        => v = w
  <2>1. ASSUME NEW v \in Va, NEW w \in Va,
               a <= v /\ v < a + n, a <= w /\ w < a + n,
               Nth(Lowest(n), v - a) = Nth(Lowest(n), w - a)
        PROVE  v = w
    <3>1. v - a = w - a
      BY <1>1, <1>3, <2>1
    <3> QED
      BY <1>2, <3>1
  <2> QED
    BY <1>5, <2>1
<1>9. \A v \in Va : Filled(pd, a, n)[v] \in Entry
  BY <1>1, <1>6, <1>7 DEF Entry
<1>10. Filled(pd, a, n) \in [Va -> Entry]
  BY <1>9 DEF Filled
<1> QED
  BY <1>6, <1>7, <1>8, <1>10

\* What the helpers free is made of frames and, at worst, the null frame.
LEMMA FreedFrames ==
  ASSUME TypeOK
  PROVE  /\ \A pd \in [Va -> Entry], n \in Int : Below(pd, n) \subseteq Frame \cup {0}
         /\ \A K \in SUBSET Key : FramesOf(K) \subseteq Frame \cup {0}
<1>1. ASSUME NEW pd \in [Va -> Entry], NEW n \in Int
      PROVE  Below(pd, n) \subseteq Frame \cup {0}
  BY DEF Below, Entry
<1>2. ASSUME NEW K \in SUBSET Key, NEW k \in K, NEW i \in 0 .. shmem_pages[k] - 1
      PROVE  shmem_paddr[k][i] \in Frame \cup {0}
  <2>1. shmem_pages[k] \in 0 .. MaxPages
    BY DEF TypeOK
  <2>2. i \in Index
    BY <2>1, ConstantAssumption DEF Index
  <2> QED
    BY <2>2 DEF TypeOK
<1> QED
  BY <1>1, <1>2 DEF FramesOf

\* A free list keeps to frames.
LEMMA KfreeType ==
  ASSUME NEW base \in SUBSET Frame, NEW first, NEW second,
         first \cup second \subseteq Frame \cup {0}, Kfree(base, first, second)
  PROVE  freelist' \subseteq Frame /\ phase' \in {"up", "panicked", "corrupt"}
BY DEF Kfree

\* The processes a region counts are finitely many.
LEMMA UsersFinite ==
  \A k : IsFiniteSet(Users(k)) /\ Cardinality(Users(k)) \in Nat
<1> TAKE k
<1>1. IsFiniteSet(Proc)
  BY FS_Interval, ConstantAssumption DEF Proc
<1>2. Users(k) \in SUBSET Proc
  BY DEF Users
<1> QED
  BY <1>1, <1>2, FS_Subset, FS_CardinalityType

\* Every nonempty set of slots has a first one.
LEMMA MinProperties ==
  ASSUME NEW S \in SUBSET Proc, S # {}
  PROVE  Min(S) \in S /\ \A n \in S : Min(S) <= n
<1>0. S \in SUBSET Nat
  BY ConstantAssumption DEF Proc
<1>1. PICK m \in S : \A n \in S : <<n, m>> \notin OpToRel(<, Nat)
  BY <1>0, NatLessThanWellFounded, WFMin, Zenon
<1>2. \A n \in S : ~(n < m)
  BY <1>0, <1>1, Zenon DEF OpToRel
<1>3. \A n \in S : m <= n
  BY <1>0, <1>2
<1> QED
  BY <1>3 DEF Min

\* The values the variables have, one by one.
LEMMA Basics ==
  ASSUME TypeOK
  PROVE  /\ None \notin Int /\ None \notin Frame /\ None # 0
         /\ Initproc \in Proc
         /\ MaxSize \in Nat /\ UserTop \in Nat /\ MaxSize <= UserTop
         /\ \A p \in Proc : /\ sz[p] \in Nat /\ sz[p] <= MaxSize
                            /\ shmtop[p] \in Nat /\ shmtop[p] <= UserTop
         /\ freelist \in SUBSET Frame /\ Cardinality(freelist) \in Nat
         /\ pgdir \in [Proc -> [Va -> Entry]]
         /\ \A k \in Key : /\ shmem_count[k] \in Int
                           /\ shmem_pages[k] \in Nat /\ shmem_pages[k] <= MaxPages
         /\ \A p \in Proc : call[p] # None =>
              /\ call[p] \in [key : Key, num : 1 .. MaxPages, new : BOOLEAN]
              /\ call[p].key \in Key /\ call[p].new \in BOOLEAN
              /\ call[p].num \in Nat /\ call[p].num >= 1 /\ call[p].num <= MaxPages
<1>1. /\ None \notin Int /\ None \notin Frame /\ None # 0
      /\ Initproc \in Proc
      /\ MaxSize \in Nat /\ UserTop \in Nat /\ MaxSize <= UserTop /\ MaxPages \in Nat
  BY ConstantAssumption DEF Frame, Proc, Initproc
<1>2. /\ sz \in [Proc -> 0 .. MaxSize] /\ shmtop \in [Proc -> 0 .. UserTop]
      /\ shmem_count \in [Key -> Int] /\ shmem_pages \in [Key -> 0 .. MaxPages]
  BY DEF TypeOK
<1>3. \A p \in Proc : /\ sz[p] \in Nat /\ sz[p] <= MaxSize
                      /\ shmtop[p] \in Nat /\ shmtop[p] <= UserTop
  BY <1>1, <1>2
<1>4. \A k \in Key : /\ shmem_count[k] \in Int
                     /\ shmem_pages[k] \in Nat /\ shmem_pages[k] <= MaxPages
  BY <1>1, <1>2
<1>5. freelist \in SUBSET Frame /\ Cardinality(freelist) \in Nat
  <2>1. IsFiniteSet(Frame)
    BY FS_Interval, ConstantAssumption DEF Frame
  <2>2. freelist \in SUBSET Frame
    BY DEF TypeOK
  <2> QED
    BY <2>1, <2>2, FS_Subset, FS_CardinalityType
<1>6. ASSUME NEW p \in Proc, call[p] # None
      PROVE  /\ call[p] \in [key : Key, num : 1 .. MaxPages, new : BOOLEAN]
             /\ call[p].key \in Key /\ call[p].new \in BOOLEAN
             /\ call[p].num \in Nat /\ call[p].num >= 1 /\ call[p].num <= MaxPages
  <2>1. call[p] \in [key : Key, num : 1 .. MaxPages, new : BOOLEAN]
    BY <1>6 DEF TypeOK
  <2>2. call[p].num \in 1 .. MaxPages
    BY <2>1
  <2> QED
    BY <1>1, <2>1, <2>2
<1>7. pgdir \in [Proc -> [Va -> Entry]]
  BY DEF TypeOK, Entry
<1> QED
  BY <1>1, <1>3, <1>4, <1>5, <1>6, <1>7

\* The memory of a new program.
LEMMA NewImage ==
  ASSUME TypeOK, NEW n \in 1 .. MaxSize, n <= Cardinality(freelist)
  PROVE  /\ Filled(Unmapped, 0, n) \in [Va -> Entry]
         /\ \A a \in Va : a < n => Filled(Unmapped, 0, n)[a] \in Lowest(n)
         /\ \A a \in Va : a < n => Filled(Unmapped, 0, n)[a] # None
         /\ \A a \in Va : ~(a < n) => Filled(Unmapped, 0, n)[a] = None
         /\ \A a, b \in Va :
              a < n /\ b < n /\ Filled(Unmapped, 0, n)[a] = Filled(Unmapped, 0, n)[b] =>
                a = b
<1>1. freelist \subseteq Frame /\ n \in 0 .. Cardinality(freelist)
  BY Basics
<1>2. Unmapped \in [Va -> Entry]
  BY DEF Unmapped, Entry
<1>3. /\ Filled(Unmapped, 0, n) \in [Va -> Entry]
      /\ \A v \in Va : 0 <= v /\ v < 0 + n => Filled(Unmapped, 0, n)[v] \in Lowest(n)
      /\ \A v \in Va : ~(0 <= v /\ v < 0 + n) =>
           Filled(Unmapped, 0, n)[v] = Unmapped[v]
      /\ \A v, w \in Va :
           /\ 0 <= v /\ v < 0 + n /\ 0 <= w /\ w < 0 + n
           /\ Filled(Unmapped, 0, n)[v] = Filled(Unmapped, 0, n)[w]
           => v = w
  BY <1>1, <1>2, FilledPages
<1>4. \A v \in Va : v < n <=> 0 <= v /\ v < 0 + n
  BY Basics DEF Va
<1>5. Lowest(n) \subseteq freelist /\ None \notin freelist
  BY Basics DEF Lowest
<1>6. \A v \in Va : Unmapped[v] = None
  BY DEF Unmapped
<1> QED
  BY <1>3, <1>4, <1>5, <1>6

\* The counts a process goes by are numbers, and exact unless it overwrites.
LEMMA Counts ==
  ASSUME TypeOK, NEW p \in Proc, NEW K
  PROVE  /\ \A k \in Key : Count(p, k) \in Int
         /\ ~Overwrites(p) => Exact(p)
         /\ Stores(p, K) => /\ loaded' \in [Proc -> {None} \cup [key : Key, count : Int]]
                            /\ \A q \in Proc : loaded'[q] # None => loaded[q] # None
                            /\ stale' \in BOOLEAN /\ call' = call
                            /\ ~stale' => ~stale /\ Exact(p)
<1>1. \A k \in Key : Count(p, k) \in Int
  <2> SUFFICES ASSUME NEW k \in Key PROVE Count(p, k) \in Int
    OBVIOUS
  <2>1. shmem_count[k] \in Int
    BY DEF TypeOK
  <2>2. loaded[p] \in {None} \cup [key : Key, count : Int]
    BY DEF TypeOK
  <2>3. loaded[p] # None => loaded[p].count \in Int
    BY <2>2
  <2> QED
    BY <2>1, <2>3 DEF Count
<1>2. ~Overwrites(p) => Exact(p)
  BY DEF Overwrites, Exact, Count
<1>3. ASSUME Stores(p, K)
      PROVE  /\ loaded' \in [Proc -> {None} \cup [key : Key, count : Int]]
             /\ \A q \in Proc : loaded'[q] # None => loaded[q] # None
             /\ stale' \in BOOLEAN /\ call' = call
             /\ ~stale' => ~stale /\ Exact(p)
  <2>1. /\ stale' = (stale \/ Overwrites(p) \/ AtWork(K, p))
        /\ loaded' = [loaded EXCEPT ![p] = None] /\ call' = call
    BY <1>3 DEF Stores
  <2>2. loaded \in [Proc -> {None} \cup [key : Key, count : Int]]
    BY DEF TypeOK
  <2>3. /\ loaded' \in [Proc -> {None} \cup [key : Key, count : Int]]
        /\ \A q \in Proc : loaded'[q] # None => loaded[q] # None
    BY <2>1, <2>2
  <2>4. stale' \in BOOLEAN /\ (~stale' => ~stale /\ ~Overwrites(p))
    BY <2>1
  <2> QED
    BY <1>2, <2>1, <2>3, <2>4
<1> QED
  BY <1>1, <1>2, <1>3

\* A region somebody is attached to is counted.
LEMMA AttachedCounted ==
  ASSUME TypeOK, CountedUsers, NEW p \in Proc, Live(p), NEW k \in Attached(p)
  PROVE  k \in Key /\ shmem_count[k] # 0
<1>1. k \in Key /\ p \in Users(k)
  BY DEF Users, Attached
<1>2. /\ Cardinality(Users(k)) <= shmem_count[k] /\ IsFiniteSet(Users(k))
      /\ Cardinality(Users(k)) \in Nat
  BY <1>1, UsersFinite DEF CountedUsers
<1>3. Cardinality(Users(k)) # 0
  BY <1>1, <1>2, FS_EmptySet
<1> QED
  BY <1>1, <1>2, <1>3, Basics

\* A process that leaves its regions: each still counts those that stay.
LEMMA Leaving ==
  ASSUME TypeOK, Sized, NEW p \in Proc, Live(p), Decrease(p),
         shmem_pages' = shmem_pages, \A k \in Key : Users(k)' = Users(k) \ {p},
         \A q \in Proc : Attached(q)' \subseteq Attached(q)
  PROVE  /\ shmem_count' \in [Key -> Int]
         /\ shmem_paddr' \in [Key -> [Index -> Frame \cup {0}]]
         /\ Sized'
         /\ CountedUsers /\ Exact(p) => CountedUsers'
<1>0. \A k \in Key : shmem_count[k] \in Int /\ Count(p, k) \in Int
  BY Basics, Counts
<1>1. shmem_count' \in [Key -> Int]
  BY <1>0 DEF Decrease
<1>2. shmem_paddr' \in [Key -> [Index -> Frame \cup {0}]]
  BY DEF Decrease, TypeOK
<1>3. Sized'
  <2> SUFFICES ASSUME NEW k \in Key,
                      shmem_count'[k] # 0 \/ \E q \in Proc : k \in Attached(q)'
               PROVE  shmem_pages[k] # 0
    BY DEF Sized
  <2>1. shmem_count'[k] # 0 => shmem_count[k] # 0 \/ k \in Attached(p)
    BY DEF Decrease
  <2> QED
    BY <2>1 DEF Sized
<1>4. ASSUME CountedUsers, Exact(p), NEW k \in Key
      PROVE  Cardinality(Users(k)') <= shmem_count'[k]
  <2>1. /\ Cardinality(Users(k)) <= shmem_count[k] /\ IsFiniteSet(Users(k))
        /\ Cardinality(Users(k)) \in Nat /\ shmem_count[k] \in Int
        /\ Users(k)' = Users(k) \ {p}
    BY <1>4, UsersFinite, Basics DEF CountedUsers
  <2>2. CASE k \in Attached(p)
    <3>1. p \in Users(k)
      BY <2>2 DEF Users
    <3>2. Cardinality(Users(k) \ {p}) = Cardinality(Users(k)) - 1
      BY <2>1, <3>1, FS_RemoveElement
    <3>3. shmem_count'[k] = shmem_count[k] - 1
      BY <1>4, <2>2 DEF Decrease, Exact
    <3> QED
      BY <2>1, <3>2, <3>3
  <2>3. CASE k \notin Attached(p)
    <3>1. p \notin Users(k)
      BY <2>3 DEF Users
    <3>2. shmem_count'[k] = shmem_count[k] /\ Users(k)' = Users(k)
      BY <2>1, <2>3, <3>1 DEF Decrease
    <3> QED
      BY <2>1, <3>2
  <2> QED
    BY <2>2, <2>3
<1> QED
  BY <1>1, <1>2, <1>3, <1>4 DEF CountedUsers
------------------------------------------------------------------------------
(* Types and counts. *)

LEMMA InitIInv == Init => IInv
<1> SUFFICES ASSUME Init PROVE IInv
  OBVIOUS
<1>1. /\ None \notin Int /\ Initproc \in Proc /\ 1 \in Frame
      /\ 0 \in 0 .. MaxPages /\ 0 \in 0 .. MaxSize /\ 1 \in 0 .. MaxSize
      /\ UserTop \in 0 .. UserTop /\ UserTop >= 1
  BY ConstantAssumption DEF Proc, Initproc, Frame
<1>2. TypeOK
  <2>1. pgdir \in [Proc -> [Va -> Frame \cup {0, None}]]
    BY <1>1 DEF Init, Unmapped
  <2>2. /\ sz \in [Proc -> 0 .. MaxSize] /\ shmtop \in [Proc -> 0 .. UserTop]
        /\ shmem_vaddr \in [Proc -> [Key -> Va \cup {None}]]
    BY <1>1 DEF Init
  <2>3. /\ shmem_count \in [Key -> Int] /\ shmem_pages \in [Key -> 0 .. MaxPages]
        /\ shmem_paddr \in [Key -> [Index -> Frame \cup {0}]]
        /\ freelist \subseteq Frame
    BY <1>1 DEF Init
  <2>4. /\ state \in [Proc -> {"UNUSED", "RUNNABLE", "ZOMBIE"}]
        /\ parent \in [Proc -> Proc \cup {None}]
        /\ call \in [Proc -> {None} \cup [key : Key, num : 1 .. MaxPages, new : BOOLEAN]]
        /\ loaded \in [Proc -> {None} \cup [key : Key, count : Int]]
        /\ stale \in BOOLEAN /\ overran \in BOOLEAN
        /\ phase \in {"up", "panicked", "corrupt"}
    BY DEF Init
  <2> QED
    BY <2>1, <2>2, <2>3, <2>4 DEF TypeOK
<1>3. Image
  <2>1. \A p \in Proc : sz[p] <= shmtop[p]
    BY <1>1 DEF Init
  <2>2. ASSUME NEW p \in Proc, NEW a \in Va, a < sz[p]
        PROVE  pgdir[p][a] # None
    <3>1. p = Initproc /\ a = 0
      BY <2>2 DEF Init, Va
    <3>2. pgdir[p][a] = 1
      BY <2>2, <3>1 DEF Init, Unmapped
    <3> QED
      BY <1>1, <3>2
  <2> QED
    BY <2>1, <2>2 DEF Image
<1>4. CallInv /\ LoadInv
  BY DEF Init, CallInv, LoadInv
<1>5. Sized
  BY DEF Init, Sized, Attached
<1>6. CountedUsers
  <2>1. \A k \in Key : Users(k) = {} /\ shmem_count[k] = 0
    BY DEF Users, Attached, Init
  <2> QED
    BY <2>1, FS_EmptySet DEF CountedUsers
<1> QED
  BY <1>2, <1>3, <1>4, <1>5, <1>6 DEF IInv

LEMMA ShmCheckIInv ==
  ASSUME IInv, NEW p \in Proc, ShmCheck(p)
  PROVE  IInv'
<1>1. /\ TypeOK /\ Image /\ CallInv /\ LoadInv /\ Sized
      /\ ~stale => CountedUsers
  BY DEF IInv
<1>2. PICK k \in Key \ Attached(p), n \in 1 .. MaxPages :
        /\ shmtop[p] - NumPages(k, n) >= sz[p]
        /\ call' = [call EXCEPT ![p] = [key |-> k, num |-> NumPages(k, n),
                                        new |-> shmem_count[k] = 0]]
  BY DEF ShmCheck
<1>3. /\ state[p] = "RUNNABLE" /\ UNCHANGED <<state, parent, space, region, freelist, loaded,
                                          stale, overran, phase>>
  BY DEF ShmCheck, User, Ready
<1>4. NumPages(k, n) \in 1 .. MaxPages
  BY <1>1, <1>2, Basics, ConstantAssumption DEF NumPages, Sized
<1>5. call' \in [Proc -> {None} \cup [key : Key, num : 1 .. MaxPages, new : BOOLEAN]]
  BY <1>1, <1>2, <1>4 DEF TypeOK
<1>6. TypeOK'
  BY <1>1, <1>3, <1>5 DEF TypeOK, space, region
<1>7. Image' /\ LoadInv' /\ Sized'
  BY <1>1, <1>3 DEF Image, LoadInv, Sized, Attached, space, region
<1>8. CallInv'
  <2> SUFFICES ASSUME NEW q \in Proc, call'[q] # None
               PROVE  /\ state[q] = "RUNNABLE" /\ call'[q].key \notin Attached(q)
                      /\ sz[q] <= shmtop[q] - call'[q].num
    BY <1>3 DEF CallInv, Attached, space
  <2>1. CASE q = p
    <3>1. call'[q] = [key |-> k, num |-> NumPages(k, n), new |-> shmem_count[k] = 0]
      BY <1>1, <1>2, <2>1 DEF TypeOK
    <3> QED
      BY <1>1, <1>2, <1>3, <1>4, <2>1, <3>1, Basics
  <2>2. CASE q # p
    <3>1. call'[q] = call[q]
      BY <1>2, <2>2
    <3> QED
      BY <1>1, <3>1 DEF CallInv
  <2> QED
    BY <2>1, <2>2
<1>9. ~stale' => CountedUsers'
  BY <1>1, <1>3 DEF CountedUsers, Users, Live, Attached, space, region
<1> QED
  BY <1>6, <1>7, <1>8, <1>9 DEF IInv

\* The address space ShmAttach makes, when it does not panic.
LEMMA Attaching ==
  ASSUME TypeOK, CallInv, NEW p \in Proc, ShmAttach(p), call' # call,
         NEW k, k = call[p].key, NEW n, n = call[p].num, NEW top, top = shmtop[p]
  PROVE  /\ call[p] # None /\ k \in Key /\ n \in Nat /\ n >= 1 /\ n <= MaxPages
         /\ phase = "up" /\ state[p] = "RUNNABLE" /\ k \notin Attached(p)
         /\ top - n \in Va /\ sz[p] <= top - n /\ top \in Nat /\ top <= UserTop
         /\ freelist' = IF call[p].new THEN freelist \ Lowest(n) ELSE freelist
         /\ call[p].new => n \in 0 .. Cardinality(freelist)
         /\ shmem_paddr' = [shmem_paddr EXCEPT ![k] =
              [i \in Index |-> IF call[p].new /\ i < n THEN Nth(Lowest(n), i)
                               ELSE shmem_paddr[k][i]]]
         /\ shmem_paddr' \in [Key -> [Index -> Frame \cup {0}]]
         /\ \A q \in Proc \ {p} : pgdir'[q] = pgdir[q]
         /\ \A a \in Va : top - n <= a /\ a < top =>
              pgdir'[p][a] = shmem_paddr'[k][top - 1 - a]
         /\ \A a \in Va : ~(top - n <= a /\ a < top) => pgdir'[p][a] = pgdir[p][a]
         /\ pgdir' \in [Proc -> [Va -> Entry]]
         /\ shmem_count' = [shmem_count EXCEPT ![k] = Count(p, k) + 1]
         /\ shmem_pages' = [shmem_pages EXCEPT ![k] = n]
         /\ shmem_vaddr' = [shmem_vaddr EXCEPT ![p][k] = top - n]
         /\ shmtop' = [shmtop EXCEPT ![p] = top - n]
         /\ call' = [call EXCEPT ![p] = None]
         /\ loaded' = [loaded EXCEPT ![p] = None] /\ stale' \in BOOLEAN
         /\ ~stale' => /\ ~stale /\ Exact(p)
                       /\ call[p].new <=> shmem_count[k] = 0
                       /\ ~call[p].new => n = shmem_pages[k]
         /\ UNCHANGED <<state, parent, sz, overran, phase>>
<1> DEFINE pa == [i \in Index |-> IF call[p].new /\ i < n THEN Nth(Lowest(n), i)
                                  ELSE shmem_paddr[k][i]]
<1>1. /\ call[p] # None /\ phase = "up" /\ k \in Key /\ n \in Nat /\ n >= 1
      /\ n <= MaxPages /\ call[p].new \in BOOLEAN
  BY Basics DEF ShmAttach
<1>2. /\ ~(call[p].new /\ Cardinality(Lowest(n)) < n)
      /\ freelist' = IF call[p].new THEN freelist \ Lowest(n) ELSE freelist
      /\ shmem_paddr' = [shmem_paddr EXCEPT ![k] = pa]
      /\ pgdir' = [pgdir EXCEPT ![p] =
                     [a \in Va |-> IF a \in top - n .. top - 1
                                   THEN pa[top - 1 - a] ELSE pgdir[p][a]]]
      /\ shmem_count' = [shmem_count EXCEPT ![k] = Count(p, k) + 1]
      /\ shmem_pages' = [shmem_pages EXCEPT ![k] = n]
      /\ shmem_vaddr' = [shmem_vaddr EXCEPT ![p][k] = top - n]
      /\ shmtop' = [shmtop EXCEPT ![p] = top - n]
      /\ call' = [call EXCEPT ![p] = None]
      /\ loaded' = [loaded EXCEPT ![p] = None]
      /\ stale' = \/ stale \/ Overwrites(p)
                  \/ call[p].new /\ AtWork({k}, p)
                  \/ ~(call[p].new <=> shmem_count[k] = 0)
                  \/ ~call[p].new /\ n # shmem_pages[k]
      /\ UNCHANGED <<state, parent, sz, overran, phase>>
  <2>1. ~(call[p].new /\ Cardinality(Lowest(n)) < n)
    BY DEF ShmAttach, kernel
  <2>2. freelist' = IF call[p].new THEN freelist \ Lowest(n) ELSE freelist
    BY <2>1, Zenon DEF ShmAttach
  <2>8. shmem_paddr' = [shmem_paddr EXCEPT ![k] = pa]
    <3>1. shmem_paddr' = [shmem_paddr EXCEPT ![k] = Allocated(k, n, call[p].new)]
      BY <2>1, Zenon DEF ShmAttach
    <3> QED
      BY <3>1 DEF Allocated
  <2>6. pgdir' = [pgdir EXCEPT ![p] =
                    [a \in Va |-> IF a \in top - n .. top - 1
                                  THEN pa[top - 1 - a] ELSE @[a]]]
    <3>1. pgdir' = [pgdir EXCEPT ![p] =
                      MappedDown(pgdir[p], top, n, Allocated(k, n, call[p].new))]
      BY <2>1, Zenon DEF ShmAttach
    <3>2. Allocated(k, n, call[p].new) = pa
      BY DEF Allocated
    <3> HIDE DEF pa
    <3> QED
      BY <3>1, <3>2 DEF MappedDown
  <2>7. UNCHANGED <<state, parent, sz, overran, phase>>
    BY <2>1 DEF ShmAttach
  <2>3. pgdir' = [pgdir EXCEPT ![p] =
                    [a \in Va |-> IF a \in top - n .. top - 1
                                  THEN pa[top - 1 - a] ELSE pgdir[p][a]]]
    BY <2>6, Zenon
  <2>4. /\ shmem_count' = [shmem_count EXCEPT ![k] = Count(p, k) + 1]
        /\ shmem_pages' = [shmem_pages EXCEPT ![k] = n]
        /\ shmem_vaddr' = [shmem_vaddr EXCEPT ![p][k] = top - n]
        /\ shmtop' = [shmtop EXCEPT ![p] = top - n]
        /\ call' = [call EXCEPT ![p] = None]
        /\ loaded' = [loaded EXCEPT ![p] = None]
    BY <2>1, Zenon DEF ShmAttach
  <2>5. stale' = \/ stale \/ Overwrites(p)
                 \/ call[p].new /\ AtWork({k}, p)
                 \/ ~(call[p].new <=> shmem_count[k] = 0)
                 \/ ~call[p].new /\ n # shmem_pages[k]
    BY <2>1, Zenon DEF ShmAttach
  <2> QED
    BY <2>1, <2>2, <2>3, <2>4, <2>5, <2>7, <2>8, Zenon
<1>3. /\ state[p] = "RUNNABLE" /\ k \notin Attached(p) /\ sz[p] <= top - n
      /\ top \in Nat /\ top <= UserTop /\ sz[p] \in Nat /\ UserTop \in Nat
  BY <1>1, Basics DEF CallInv
<1>4. top - n \in Va
  BY <1>1, <1>3 DEF Va
<1>5. call[p].new => n \in 0 .. Cardinality(freelist)
  <2>1. Lowest(n) \in SUBSET freelist /\ IsFiniteSet(freelist)
    <3>1. IsFiniteSet(Frame)
      BY FS_Interval, ConstantAssumption DEF Frame
    <3> QED
      BY <3>1, FS_Subset, Basics DEF Lowest
  <2>2. /\ Cardinality(Lowest(n)) <= Cardinality(freelist)
        /\ Cardinality(Lowest(n)) \in Nat /\ Cardinality(freelist) \in Nat
    BY <2>1, FS_Subset, FS_CardinalityType
  <2> QED
    BY <1>1, <1>2, <2>2
<1>6. pa \in [Index -> Frame \cup {0}]
  <2> SUFFICES ASSUME NEW i \in Index PROVE pa[i] \in Frame \cup {0}
    OBVIOUS
  <2>1. CASE call[p].new /\ i < n
    <3>1. i \in 0 .. n - 1
      BY <1>1, <2>1, ConstantAssumption DEF Index
    <3>2. Nth(Lowest(n), i) \in Frame
      BY <1>5, <2>1, <3>1, LowestFrames, Basics
    <3> QED
      BY <2>1, <3>2
  <2>2. CASE ~(call[p].new /\ i < n)
    BY <1>1, <2>2 DEF TypeOK
  <2> QED
    BY <2>1, <2>2
<1>7. shmem_paddr' \in [Key -> [Index -> Frame \cup {0}]] /\ shmem_paddr'[k] = pa
  BY <1>1, <1>2, <1>6 DEF TypeOK
<1>8. pgdir' \in [Proc -> [Va -> Entry]]
  <2>1. \A a \in Va : a \in top - n .. top - 1 => top - 1 - a \in Index
    BY <1>1, <1>3, ConstantAssumption DEF Va, Index
  <2>2. [a \in Va |-> IF a \in top - n .. top - 1
                      THEN pa[top - 1 - a] ELSE pgdir[p][a]] \in [Va -> Entry]
    BY <1>6, <2>1, Basics DEF Entry
  <2> QED
    BY <1>2, <2>2, Basics
<1>9. /\ \A q \in Proc \ {p} : pgdir'[q] = pgdir[q]
      /\ \A a \in Va : top - n <= a /\ a < top =>
           pgdir'[p][a] = shmem_paddr'[k][top - 1 - a]
      /\ \A a \in Va : ~(top - n <= a /\ a < top) => pgdir'[p][a] = pgdir[p][a]
  <2> HIDE DEF pa
  <2>1. \A q \in Proc \ {p} : pgdir'[q] = pgdir[q]
    BY <1>2, Basics
  <2>2. \A a \in Va : pgdir'[p][a] = IF a \in top - n .. top - 1
                                     THEN pa[top - 1 - a] ELSE pgdir[p][a]
    BY <1>2, Basics
  <2>3. \A a \in Va : top - n <= a /\ a < top <=> a \in top - n .. top - 1
    BY <1>1, <1>3 DEF Va
  <2> QED
    BY <1>7, <2>1, <2>2, <2>3
<1>10. shmem_paddr' = [shmem_paddr EXCEPT ![k] =
         [i \in Index |-> IF call[p].new /\ i < n THEN Nth(Lowest(n), i)
                          ELSE shmem_paddr[k][i]]]
  BY <1>2
<1>11. /\ stale' \in BOOLEAN
       /\ ~stale' => /\ ~stale /\ Exact(p)
                     /\ call[p].new <=> shmem_count[k] = 0
                     /\ ~call[p].new => n = shmem_pages[k]
  BY <1>2, Counts
<1> QED
  BY <1>1, <1>2, <1>3, <1>4, <1>5, <1>7, <1>8, <1>9, <1>10, <1>11

\* A step that touches the free list alone.
LEMMA FreelistIInv ==
  ASSUME IInv, UNCHANGED <<state, parent, space, region, kernel, overran>>,
         freelist' \subseteq Frame, phase' \in {"up", "panicked", "corrupt"}
  PROVE  IInv'
<1>1. TypeOK'
  BY DEF IInv, TypeOK, space, region, kernel
<1>2. Image' /\ CallInv' /\ LoadInv' /\ Sized' /\ (~stale' => CountedUsers')
  BY DEF IInv, Image, CallInv, LoadInv, Sized, CountedUsers, Users, Live, Attached,
     space, region, kernel
<1> QED
  BY <1>1, <1>2 DEF IInv

LEMMA LoadCountIInv ==
  ASSUME IInv, NEW p \in Proc, LoadCount(p)
  PROVE  IInv'
<1>1. /\ TypeOK /\ Image /\ CallInv /\ LoadInv /\ Sized
      /\ ~stale => CountedUsers
  BY DEF IInv
<1>2. /\ state[p] = "RUNNABLE"
      /\ UNCHANGED <<state, parent, space, region, freelist, call, stale, overran,
                     phase>>
  BY DEF LoadCount
<1>3. PICK k \in Key :
        loaded' = [loaded EXCEPT ![p] = [key |-> k, count |-> shmem_count[k]]]
  <2>1. \A k \in IF call[p] # None THEN {call[p].key} ELSE Attached(p) : k \in Key
    BY <1>1, Basics DEF Attached
  <2> QED
    BY <2>1 DEF LoadCount
<1>4. loaded' \in [Proc -> {None} \cup [key : Key, count : Int]]
  BY <1>1, <1>3 DEF TypeOK
<1>5. TypeOK'
  BY <1>1, <1>2, <1>4 DEF TypeOK, space, region
<1>6. Image' /\ CallInv' /\ Sized' /\ (~stale' => CountedUsers')
  BY <1>1, <1>2 DEF Image, CallInv, Sized, CountedUsers, Users, Live, Attached,
     space, region
<1>7. LoadInv'
  BY <1>1, <1>2, <1>3 DEF LoadInv, TypeOK
<1> QED
  BY <1>5, <1>6, <1>7 DEF IInv

LEMMA ShmAttachIInv ==
  ASSUME IInv, NEW p \in Proc, ShmAttach(p)
  PROVE  IInv'
<1>1. /\ TypeOK /\ Image /\ CallInv /\ LoadInv /\ Sized
      /\ ~stale => CountedUsers
  BY DEF IInv
<1>2. CASE call' = call
  <2>1. call[p] # None /\ call \in [Proc -> {None} \cup
          [key : Key, num : 1 .. MaxPages, new : BOOLEAN]]
    BY <1>1 DEF ShmAttach, TypeOK
  <2>2. /\ phase' = "panicked"
        /\ UNCHANGED <<state, parent, space, region, freelist, kernel, overran>>
    BY <1>2, <2>1 DEF ShmAttach
  <2>3. freelist' \subseteq Frame
    BY <1>1, <2>2, Basics
  <2> QED
    BY <2>2, <2>3, FreelistIInv
<1>3. CASE call' # call
  <2>1. PICK k, n, top : k = call[p].key /\ n = call[p].num /\ top = shmtop[p]
    OBVIOUS
  <2>2. /\ call[p] # None /\ k \in Key /\ n \in Nat /\ n >= 1 /\ n <= MaxPages
        /\ phase = "up" /\ state[p] = "RUNNABLE" /\ k \notin Attached(p)
        /\ top - n \in Va /\ sz[p] <= top - n /\ top \in Nat /\ top <= UserTop
    BY <1>1, <1>3, <2>1, Attaching
  <2>3. /\ freelist' = IF call[p].new THEN freelist \ Lowest(n) ELSE freelist
        /\ shmem_paddr' \in [Key -> [Index -> Frame \cup {0}]]
        /\ shmem_count' = [shmem_count EXCEPT ![k] = Count(p, k) + 1]
        /\ shmem_pages' = [shmem_pages EXCEPT ![k] = n]
        /\ shmem_vaddr' = [shmem_vaddr EXCEPT ![p][k] = top - n]
        /\ shmtop' = [shmtop EXCEPT ![p] = top - n]
        /\ call' = [call EXCEPT ![p] = None]
        /\ loaded' = [loaded EXCEPT ![p] = None] /\ stale' \in BOOLEAN
        /\ ~stale' => ~stale /\ Exact(p)
        /\ UNCHANGED <<state, parent, sz, overran, phase>>
    BY <1>1, <1>3, <2>1, Attaching
  <2>4. /\ \A q \in Proc \ {p} : pgdir'[q] = pgdir[q]
        /\ \A a \in Va : ~(top - n <= a /\ a < top) => pgdir'[p][a] = pgdir[p][a]
        /\ pgdir' \in [Proc -> [Va -> Entry]]
    BY <1>1, <1>3, <2>1, Attaching
  <2>5. TypeOK'
    <3>1. shmem_pages' \in [Key -> 0 .. MaxPages]
      <4>1. n \in 0 .. MaxPages
        BY <2>2, ConstantAssumption
      <4> QED
        BY <1>1, <2>3, <4>1 DEF TypeOK
    <3>2. shmtop' \in [Proc -> 0 .. UserTop]
      <4>1. top - n \in 0 .. UserTop
        BY <2>2, ConstantAssumption DEF Va
      <4> QED
        BY <1>1, <2>3, <4>1 DEF TypeOK
    <3>3. shmem_vaddr' \in [Proc -> [Key -> Va \cup {None}]]
      BY <1>1, <2>2, <2>3 DEF TypeOK
    <3>4. /\ call' \in [Proc -> {None} \cup
                         [key : Key, num : 1 .. MaxPages, new : BOOLEAN]]
          /\ freelist' \subseteq Frame
      BY <1>1, <2>2, <2>3, Basics DEF TypeOK
    <3>6. shmem_count' \in [Key -> Int]
      <4>1. Count(p, k) + 1 \in Int
        BY <1>1, <2>2, Counts
      <4> QED
        BY <1>1, <2>3, <4>1 DEF TypeOK
    <3>7. loaded' \in [Proc -> {None} \cup [key : Key, count : Int]]
      BY <1>1, <2>3 DEF TypeOK
    <3>5. pgdir' \in [Proc -> [Va -> Frame \cup {0, None}]]
      BY <2>4 DEF Entry
    <3> QED
      BY <1>1, <2>3, <3>1, <3>2, <3>3, <3>4, <3>5, <3>6, <3>7 DEF TypeOK
  <2>6. Image'
    <3> SUFFICES ASSUME NEW q \in Proc
                 PROVE  /\ sz[q] <= shmtop'[q]
                        /\ \A a \in Va : a < sz[q] => pgdir'[q][a] # None
      BY <2>3 DEF Image
    <3>1. CASE q = p
      <4>1. shmtop'[q] = top - n
        BY <1>1, <2>3, <3>1 DEF TypeOK
      <4>2. \A a \in Va : a < sz[q] => ~(top - n <= a /\ a < top)
        BY <1>1, <2>2, <3>1, Basics DEF Va
      <4> QED
        BY <1>1, <2>2, <2>4, <3>1, <4>1, <4>2 DEF Image
    <3>2. CASE q # p
      BY <1>1, <2>3, <2>4, <3>2 DEF Image
    <3> QED
      BY <3>1, <3>2
  <2>7. /\ Attached(p)' = Attached(p) \cup {k}
        /\ \A q \in Proc \ {p} : Attached(q)' = Attached(q)
    <3>1. top - n # None
      BY <1>1, <2>2, Basics DEF Va
    <3>2. \A q \in Proc, l \in Key : shmem_vaddr'[q][l] =
            IF q = p /\ l = k THEN top - n ELSE shmem_vaddr[q][l]
      BY <1>1, <2>3 DEF TypeOK
    <3> QED
      BY <2>2, <3>1, <3>2 DEF Attached
  <2>8. CallInv'
    <3> SUFFICES ASSUME NEW q \in Proc, call'[q] # None
                 PROVE  /\ state[q] = "RUNNABLE" /\ call'[q].key \notin Attached(q)'
                        /\ sz[q] <= shmtop'[q] - call'[q].num
      BY <2>3 DEF CallInv
    <3>1. q # p /\ call'[q] = call[q]
      BY <1>1, <2>3 DEF TypeOK
    <3>2. Attached(q)' = Attached(q) /\ shmtop'[q] = shmtop[q]
      BY <2>3, <2>7, <3>1
    <3> QED
      BY <1>1, <3>1, <3>2 DEF CallInv
  <2>9. \A l \in Key : /\ shmem_count'[l] = IF l = k THEN Count(p, k) + 1 ELSE shmem_count[l]
                       /\ shmem_pages'[l] = IF l = k THEN n ELSE shmem_pages[l]
    BY <1>1, <2>3 DEF TypeOK
  <2>10. Sized'
    <3> SUFFICES ASSUME NEW l \in Key,
                        shmem_count'[l] # 0 \/ \E q \in Proc : l \in Attached(q)'
                 PROVE  shmem_pages'[l] # 0
      BY DEF Sized
    <3>1. CASE l = k
      BY <2>2, <2>9, <3>1
    <3>2. CASE l # k
      BY <1>1, <2>2, <2>7, <2>9, <3>2 DEF Sized
    <3> QED
      BY <3>1, <3>2
  <2>12. LoadInv'
    BY <1>1, <2>3 DEF LoadInv, TypeOK
  <2>11. ~stale' => CountedUsers'
    <3> SUFFICES ASSUME ~stale', NEW l \in Key
                 PROVE  Cardinality(Users(l)') <= shmem_count'[l]
      BY DEF CountedUsers
    <3>0. /\ Cardinality(Users(l)) <= shmem_count[l] /\ IsFiniteSet(Users(l))
          /\ Cardinality(Users(l)) \in Nat /\ shmem_count[l] \in Int
          /\ Count(p, k) = shmem_count[k]
      BY <1>1, <2>2, <2>3, UsersFinite, Basics DEF CountedUsers, Exact
    <3>1. Users(l)' = IF l = k THEN Users(l) \cup {p} ELSE Users(l)
      BY <2>2, <2>3, <2>7 DEF Users, Live
    <3>2. CASE l = k
      <4>1. p \notin Users(l)
        BY <2>2, <3>2 DEF Users
      <4>2. Cardinality(Users(l)') = Cardinality(Users(l)) + 1
        BY <3>0, <3>1, <3>2, <4>1, FS_AddElement
      <4> QED
        BY <2>9, <3>0, <3>2, <4>2
    <3>3. CASE l # k
      BY <2>9, <3>0, <3>1, <3>3
    <3> QED
      BY <3>2, <3>3
  <2> QED
    BY <2>5, <2>6, <2>8, <2>10, <2>11, <2>12 DEF IInv
<1> QED
  BY <1>2, <1>3

\* What fork() makes of the first unused slot.
LEMMA Forking ==
  ASSUME TypeOK, CallInv, NEW p \in Proc, Fork(p)
  PROVE  \E np \in Proc :
           /\ phase = "up" /\ state[p] = "RUNNABLE" /\ call[p] = None
           /\ sz[p] \in 0 .. Cardinality(freelist)
           /\ state[np] = "UNUSED" /\ np # p /\ call[np] = None
           /\ shmem_count' = [k \in Key |-> Increase(k, p)]
           /\ shmem_vaddr' = [shmem_vaddr EXCEPT ![np] = shmem_vaddr[p]]
           /\ shmtop' = [shmtop EXCEPT ![np] = shmtop[p]]
           /\ pgdir' = [pgdir EXCEPT ![np] = Filled(pgdir[p], 0, sz[p])]
           /\ freelist' = freelist \ Lowest(sz[p])
           /\ sz' = [sz EXCEPT ![np] = sz[p]]
           /\ parent' = [parent EXCEPT ![np] = p]
           /\ state' = [state EXCEPT ![np] = "RUNNABLE"]
           /\ Stores(p, {}) /\ UNCHANGED <<shmem_pages, shmem_paddr, overran, phase>>
<1> DEFINE free == {q \in Proc : state[q] = "UNUSED"}
<1>1. PICK np : np = Min(free)
  OBVIOUS
<1>2. free # {} /\ free \in SUBSET Proc
  BY DEF Fork
<1>3. np \in Proc /\ state[np] = "UNUSED"
  BY <1>1, <1>2, MinProperties
<1>4. /\ shmem_count' = [k \in Key |-> Increase(k, p)]
      /\ shmem_vaddr' = [shmem_vaddr EXCEPT ![np] = shmem_vaddr[p]]
      /\ shmtop' = [shmtop EXCEPT ![np] = shmtop[p]]
      /\ pgdir' = [pgdir EXCEPT ![np] = Filled(pgdir[p], 0, sz[p])]
      /\ freelist' = freelist \ Lowest(sz[p])
      /\ sz' = [sz EXCEPT ![np] = sz[p]]
      /\ parent' = [parent EXCEPT ![np] = p]
      /\ state' = [state EXCEPT ![np] = "RUNNABLE"]
      /\ Stores(p, {}) /\ UNCHANGED <<shmem_pages, shmem_paddr, overran, phase>>
  BY <1>1 DEF Fork
<1>5. /\ phase = "up" /\ state[p] = "RUNNABLE" /\ call[p] = None
      /\ sz[p] <= Cardinality(freelist)
  BY DEF Fork, Ready
<1>6. sz[p] \in 0 .. Cardinality(freelist)
  BY <1>5, Basics
<1>7. np # p /\ call[np] = None
  BY <1>3, <1>5 DEF CallInv
<1> QED
  BY <1>3, <1>4, <1>5, <1>6, <1>7

\* The count of a region goes up with the child's name on it, or without.
LEMMA Increased ==
  ASSUME TypeOK, NEW p \in Proc, NEW k \in Key
  PROVE  /\ Increase(k, p) \in Int
         /\ k \notin Attached(p) => Increase(k, p) = shmem_count[k]
         /\ Exact(p) => Increase(k, p) = IF k \in Attached(p) THEN shmem_count[k] + 1
                                         ELSE shmem_count[k]
<1>1. shmem_count[k] \in Int /\ Count(p, k) \in Int
  BY Basics, Counts
<1> QED
  BY <1>1 DEF Increase, Exact

LEMMA ForkIInv ==
  ASSUME IInv, NEW p \in Proc, Fork(p)
  PROVE  IInv'
<1>1. /\ TypeOK /\ Image /\ CallInv /\ LoadInv /\ Sized
      /\ ~stale => CountedUsers
  BY DEF IInv
<1>2. PICK np \in Proc :
        /\ phase = "up" /\ state[p] = "RUNNABLE" /\ call[p] = None
        /\ sz[p] \in 0 .. Cardinality(freelist)
        /\ state[np] = "UNUSED" /\ np # p /\ call[np] = None
        /\ shmem_count' = [k \in Key |-> Increase(k, p)]
        /\ shmem_vaddr' = [shmem_vaddr EXCEPT ![np] = shmem_vaddr[p]]
        /\ shmtop' = [shmtop EXCEPT ![np] = shmtop[p]]
        /\ pgdir' = [pgdir EXCEPT ![np] = Filled(pgdir[p], 0, sz[p])]
        /\ freelist' = freelist \ Lowest(sz[p])
        /\ sz' = [sz EXCEPT ![np] = sz[p]]
        /\ parent' = [parent EXCEPT ![np] = p]
        /\ state' = [state EXCEPT ![np] = "RUNNABLE"]
        /\ Stores(p, {}) /\ UNCHANGED <<shmem_pages, shmem_paddr, overran, phase>>
  BY <1>1, Forking
<1>3. /\ Filled(pgdir[p], 0, sz[p]) \in [Va -> Entry]
      /\ \A v \in Va : v < sz[p] => Filled(pgdir[p], 0, sz[p])[v] \in freelist
  <2>1. freelist \subseteq Frame /\ pgdir[p] \in [Va -> Entry] /\ sz[p] \in Nat
    BY <1>1, Basics
  <2>2. /\ Filled(pgdir[p], 0, sz[p]) \in [Va -> Entry]
        /\ \A v \in Va : 0 <= v /\ v < 0 + sz[p] =>
             Filled(pgdir[p], 0, sz[p])[v] \in Lowest(sz[p])
    BY <1>2, <2>1, FilledPages
  <2>3. \A v \in Va : v < sz[p] => 0 <= v /\ v < 0 + sz[p]
    BY <2>1 DEF Va
  <2>4. Lowest(sz[p]) \in SUBSET freelist
    BY DEF Lowest
  <2> QED
    BY <2>2, <2>3, <2>4
<1>10. /\ loaded' \in [Proc -> {None} \cup [key : Key, count : Int]]
       /\ \A q \in Proc : loaded'[q] # None => loaded[q] # None
       /\ stale' \in BOOLEAN /\ call' = call
       /\ ~stale' => ~stale /\ Exact(p)
  BY <1>1, <1>2, Counts
<1>4. TypeOK'
  <2>1. pgdir' \in [Proc -> [Va -> Frame \cup {0, None}]]
    BY <1>1, <1>2, <1>3 DEF TypeOK, Entry
  <2>2. /\ state' \in [Proc -> {"UNUSED", "RUNNABLE", "ZOMBIE"}]
        /\ parent' \in [Proc -> Proc \cup {None}]
        /\ sz' \in [Proc -> 0 .. MaxSize]
    BY <1>1, <1>2 DEF TypeOK
  <2>3. /\ shmtop' \in [Proc -> 0 .. UserTop]
        /\ shmem_vaddr' \in [Proc -> [Key -> Va \cup {None}]]
        /\ freelist' \subseteq Frame
    BY <1>1, <1>2 DEF TypeOK
  <2>4. shmem_count' \in [Key -> Int]
    BY <1>1, <1>2, Increased
  <2> QED
    BY <1>1, <1>2, <1>10, <2>1, <2>2, <2>3, <2>4 DEF TypeOK
<1>5. Image'
  <2> SUFFICES ASSUME NEW q \in Proc
               PROVE  /\ sz'[q] <= shmtop'[q]
                      /\ \A a \in Va : a < sz'[q] => pgdir'[q][a] # None
    BY DEF Image
  <2>1. CASE q = np
    <3>1. /\ sz'[q] = sz[p] /\ shmtop'[q] = shmtop[p]
          /\ pgdir'[q] = Filled(pgdir[p], 0, sz[p])
      BY <1>1, <1>2, <2>1 DEF TypeOK
    <3>2. None \notin freelist
      BY <1>1, Basics
    <3> QED
      BY <1>1, <1>3, <3>1, <3>2 DEF Image
  <2>2. CASE q # np
    <3>1. sz'[q] = sz[q] /\ shmtop'[q] = shmtop[q] /\ pgdir'[q] = pgdir[q]
      BY <1>2, <2>2
    <3> QED
      BY <1>1, <3>1 DEF Image
  <2> QED
    BY <2>1, <2>2
<1>6. /\ Attached(np)' = Attached(p)
      /\ \A q \in Proc \ {np} : Attached(q)' = Attached(q)
  BY <1>1, <1>2 DEF Attached, TypeOK
<1>7. CallInv'
  <2> SUFFICES ASSUME NEW q \in Proc, call[q] # None
               PROVE  /\ state'[q] = "RUNNABLE" /\ call[q].key \notin Attached(q)'
                      /\ sz'[q] <= shmtop'[q] - call[q].num
    BY <1>10 DEF CallInv
  <2>1. q # np
    BY <1>2
  <2>2. /\ state'[q] = state[q] /\ Attached(q)' = Attached(q)
        /\ sz'[q] = sz[q] /\ shmtop'[q] = shmtop[q]
    BY <1>2, <1>6, <2>1
  <2> QED
    BY <1>1, <2>2 DEF CallInv
<1>8. Sized'
  <2> SUFFICES ASSUME NEW k \in Key,
                      shmem_count'[k] # 0 \/ \E q \in Proc : k \in Attached(q)'
               PROVE  shmem_pages[k] # 0
    BY <1>2 DEF Sized
  <2>1. k \notin Attached(p) => shmem_count'[k] = shmem_count[k]
    BY <1>1, <1>2, Increased
  <2>2. \A q \in Proc : k \in Attached(q)' => \E r \in Proc : k \in Attached(r)
    BY <1>6
  <2> QED
    BY <1>1, <2>1, <2>2 DEF Sized
<1>11. LoadInv'
  <2> SUFFICES ASSUME NEW q \in Proc, loaded'[q] # None PROVE state'[q] = "RUNNABLE"
    BY DEF LoadInv
  <2>1. state[q] = "RUNNABLE"
    BY <1>1, <1>10 DEF LoadInv
  <2> QED
    BY <1>1, <1>2, <2>1 DEF TypeOK
<1>9. ~stale' => CountedUsers'
  <2> SUFFICES ASSUME ~stale', NEW k \in Key
               PROVE  Cardinality(Users(k)') <= shmem_count'[k]
    BY DEF CountedUsers
  <2>1. /\ Cardinality(Users(k)) <= shmem_count[k] /\ IsFiniteSet(Users(k))
        /\ Cardinality(Users(k)) \in Nat /\ shmem_count[k] \in Int
    BY <1>1, <1>10, UsersFinite, Basics DEF CountedUsers
  <2>2. shmem_count'[k] = IF k \in Attached(p) THEN shmem_count[k] + 1
                          ELSE shmem_count[k]
    BY <1>1, <1>2, <1>10, Increased
  <2>3. \A q \in Proc : Live(q)' <=> Live(q) \/ q = np
    BY <1>1, <1>2 DEF Live, TypeOK
  <2>4. Users(k)' = IF k \in Attached(p) THEN Users(k) \cup {np} ELSE Users(k)
    BY <1>2, <1>6, <2>3 DEF Users, Live
  <2>5. np \notin Users(k)
    BY <1>2 DEF Users, Live
  <2>6. Cardinality(Users(k) \cup {np}) = Cardinality(Users(k)) + 1
    BY <2>1, <2>5, FS_AddElement
  <2> QED
    BY <2>1, <2>2, <2>4, <2>6
<1> QED
  BY <1>4, <1>5, <1>7, <1>8, <1>9, <1>11 DEF IInv

LEMMA ForkFailsIInv ==
  ASSUME IInv, NEW p \in Proc, ForkFails(p)
  PROVE  IInv'
<1>1. /\ TypeOK /\ Image /\ CallInv /\ LoadInv /\ Sized
      /\ ~stale => CountedUsers
  BY DEF IInv
<1>2. /\ state[p] = "RUNNABLE" /\ shmem_count' = [k \in Key |-> Increase(k, p)]
      /\ Stores(p, {})
      /\ UNCHANGED <<state, parent, space, shmem_pages, shmem_paddr, freelist,
                     overran, phase>>
  BY DEF ForkFails, Ready
<1>3. shmem_count' \in [Key -> Int]
  BY <1>1, <1>2, Increased
<1>10. /\ loaded' \in [Proc -> {None} \cup [key : Key, count : Int]]
       /\ \A q \in Proc : loaded'[q] # None => loaded[q] # None
       /\ stale' \in BOOLEAN /\ call' = call
       /\ ~stale' => ~stale /\ Exact(p)
  BY <1>1, <1>2, Counts
<1>4. TypeOK'
  BY <1>1, <1>2, <1>3, <1>10 DEF TypeOK, space
<1>5. Image' /\ CallInv' /\ LoadInv'
  BY <1>1, <1>2, <1>10 DEF Image, CallInv, LoadInv, Attached, space
<1>6. Sized'
  <2> SUFFICES ASSUME NEW k \in Key,
                      shmem_count'[k] # 0 \/ \E q \in Proc : k \in Attached(q)
               PROVE  shmem_pages[k] # 0
    BY <1>2 DEF Sized, Attached, space
  <2>1. k \notin Attached(p) => shmem_count'[k] = shmem_count[k]
    BY <1>1, <1>2, Increased
  <2> QED
    BY <1>1, <2>1 DEF Sized
<1>7. ASSUME ~stale', NEW k \in Key
      PROVE  Cardinality(Users(k)') <= shmem_count'[k]
  <2>1. shmem_count'[k] = IF k \in Attached(p) THEN shmem_count[k] + 1
                          ELSE shmem_count[k]
    BY <1>1, <1>2, <1>7, <1>10, Increased
  <2>2. Users(k)' = Users(k)
    BY <1>2 DEF Users, Live, Attached, space
  <2>3. /\ Cardinality(Users(k)) <= shmem_count[k]
        /\ Cardinality(Users(k)) \in Nat /\ shmem_count[k] \in Int
    BY <1>1, <1>7, <1>10, UsersFinite, Basics DEF CountedUsers
  <2> QED
    BY <2>1, <2>2, <2>3
<1> QED
  BY <1>4, <1>5, <1>6, <1>7 DEF IInv, CountedUsers

\* A process gives up its address space, its regions with it: exec() and wait()
\* differ in what they put in its place.
GivesUp(p, s, n, pd) ==
  /\ Live(p) /\ call[p] = None /\ Decrease(p)
  /\ s \in {"UNUSED", "RUNNABLE", "ZOMBIE"} /\ state' = [state EXCEPT ![p] = s]
  /\ parent' \in [Proc -> Proc \cup {None}]
  /\ n \in 0 .. MaxSize /\ sz' = [sz EXCEPT ![p] = n]
  /\ pd \in [Va -> Entry] /\ pgdir' = [pgdir EXCEPT ![p] = pd]
  /\ \A a \in Va : a < n => pd[a] # None
  /\ shmtop' = [shmtop EXCEPT ![p] = UserTop]
  /\ shmem_vaddr' = [shmem_vaddr EXCEPT ![p] = [k \in Key |-> None]]
  /\ freelist' \subseteq Frame /\ phase' \in {"up", "panicked", "corrupt"}
  /\ UNCHANGED <<shmem_pages, call>>
  /\ loaded' \in [Proc -> {None} \cup [key : Key, count : Int]]
  /\ \A q \in Proc : loaded'[q] # None => q # p /\ loaded[q] # None
  /\ stale' \in BOOLEAN /\ overran' \in BOOLEAN /\ (~stale' => ~stale /\ Exact(p))

LEMMA ReplacedIInv ==
  ASSUME IInv, NEW p \in Proc, NEW s, NEW n, NEW pd, GivesUp(p, s, n, pd)
  PROVE  IInv'
<1> USE DEF GivesUp
<1>1. /\ TypeOK /\ Image /\ CallInv /\ LoadInv /\ Sized
      /\ ~stale => CountedUsers
  BY DEF IInv
<1>2. Attached(p)' = {} /\ \A q \in Proc \ {p} : Attached(q)' = Attached(q)
  BY <1>1 DEF Attached, TypeOK
<1>3. \A q \in Proc \ {p} :
        /\ state'[q] = state[q] /\ sz'[q] = sz[q] /\ pgdir'[q] = pgdir[q]
        /\ shmtop'[q] = shmtop[q]
  OBVIOUS
<1>4. \A k \in Key : Users(k)' = Users(k) \ {p}
  BY <1>1, <1>2, <1>3 DEF Users, Live
<1>5. /\ shmem_count' \in [Key -> Int]
      /\ shmem_paddr' \in [Key -> [Index -> Frame \cup {0}]]
      /\ Sized' /\ (~stale' => CountedUsers')
  BY <1>1, <1>2, <1>4, Leaving
<1>9. LoadInv'
  BY <1>1, <1>3 DEF LoadInv
<1>6. TypeOK'
  <2>1. /\ state' \in [Proc -> {"UNUSED", "RUNNABLE", "ZOMBIE"}]
        /\ sz' \in [Proc -> 0 .. MaxSize]
    BY <1>1 DEF TypeOK
  <2>2. pgdir' \in [Proc -> [Va -> Frame \cup {0, None}]]
    BY <1>1 DEF TypeOK, Entry
  <2>3. shmtop' \in [Proc -> 0 .. UserTop]
    BY <1>1, ConstantAssumption DEF TypeOK
  <2>4. shmem_vaddr' \in [Proc -> [Key -> Va \cup {None}]]
    BY <1>1 DEF TypeOK
  <2> QED
    BY <1>1, <1>5, <2>1, <2>2, <2>3, <2>4 DEF TypeOK
<1>7. Image'
  <2> SUFFICES ASSUME NEW q \in Proc
               PROVE  /\ sz'[q] <= shmtop'[q]
                      /\ \A a \in Va : a < sz'[q] => pgdir'[q][a] # None
    BY DEF Image
  <2>1. CASE q = p
    <3>1. sz'[q] = n /\ shmtop'[q] = UserTop /\ pgdir'[q] = pd
      BY <1>1, <2>1 DEF TypeOK
    <3> QED
      BY <3>1, ConstantAssumption
  <2>2. CASE q # p
    BY <1>1, <1>3, <2>2 DEF Image
  <2> QED
    BY <2>1, <2>2
<1>8. CallInv'
  <2> SUFFICES ASSUME NEW q \in Proc, call[q] # None
               PROVE  /\ state'[q] = "RUNNABLE" /\ call[q].key \notin Attached(q)'
                      /\ sz'[q] <= shmtop'[q] - call[q].num
    BY DEF CallInv
  <2> QED
    BY <1>1, <1>2, <1>3 DEF CallInv
<1> QED
  BY <1>5, <1>6, <1>7, <1>8, <1>9 DEF IInv

LEMMA ExecIInv ==
  ASSUME IInv, NEW p \in Proc, Exec(p)
  PROVE  IInv'
<1>1. TypeOK
  BY DEF IInv
<1>2. PICK n \in 1 .. MaxSize :
        /\ n <= shmtop[p] /\ n <= Cardinality(freelist)
        /\ Decrease(p)
        /\ shmem_vaddr' = [shmem_vaddr EXCEPT ![p] = [k \in Key |-> None]]
        /\ shmtop' = [shmtop EXCEPT ![p] = UserTop]
        /\ pgdir' = [pgdir EXCEPT ![p] = Filled(Unmapped, 0, n)]
        /\ sz' = [sz EXCEPT ![p] = n]
        /\ Kfree(freelist \ Lowest(n), FramesOf(LastOut(p)), Freevm(pgdir[p], n))
  BY DEF Exec
<1>3. /\ state[p] = "RUNNABLE" /\ call[p] = None
      /\ Stores(p, LastOut(p)) /\ UNCHANGED <<state, parent, shmem_pages, overran>>
  BY DEF Exec, Ready
<1>4. /\ Filled(Unmapped, 0, n) \in [Va -> Entry]
      /\ \A a \in Va : a < n => Filled(Unmapped, 0, n)[a] # None
  BY <1>1, <1>2, NewImage
<1>5. freelist' \subseteq Frame /\ phase' \in {"up", "panicked", "corrupt"}
  <2>1. FramesOf(LastOut(p)) \subseteq Frame \cup {0}
    BY <1>1, FreedFrames DEF LastOut, Attached
  <2>2. Freevm(pgdir[p], n) \subseteq Frame \cup {0}
    BY <1>1, FreedFrames, Basics DEF Freevm
  <2>3. freelist \ Lowest(n) \in SUBSET Frame
    BY <1>1, Basics
  <2> QED
    BY <1>2, <2>1, <2>2, <2>3, KfreeType
<1>6. /\ state' = [state EXCEPT ![p] = "RUNNABLE"]
      /\ parent' \in [Proc -> Proc \cup {None}]
  BY <1>1, <1>3 DEF TypeOK
<1>7. n \in 0 .. MaxSize /\ Live(p)
  BY <1>3 DEF Live
<1>9. /\ loaded' \in [Proc -> {None} \cup [key : Key, count : Int]]
      /\ \A q \in Proc : loaded'[q] # None => q # p /\ loaded[q] # None
      /\ stale' \in BOOLEAN /\ overran' \in BOOLEAN /\ call' = call
      /\ ~stale' => ~stale /\ Exact(p)
  <2>1. loaded'[p] = None
    BY <1>1, <1>3 DEF Stores, TypeOK
  <2> QED
    BY <1>1, <1>3, <2>1, Counts DEF TypeOK
<1>8. GivesUp(p, "RUNNABLE", n, Filled(Unmapped, 0, n))
  BY <1>2, <1>3, <1>4, <1>5, <1>6, <1>7, <1>9 DEF GivesUp
<1> QED
  BY <1>8, ReplacedIInv

LEMMA ExecFailsIInv ==
  ASSUME IInv, NEW p \in Proc, ExecFails(p)
  PROVE  IInv'
<1>1. TypeOK
  BY DEF IInv
<1>2. PICK n \in 1 .. MaxSize :
        /\ n <= Cardinality(freelist)
        /\ Kfree(freelist \ Lowest(n), Freevm(Filled(Unmapped, 0, n), sz[p]), {})
  BY DEF ExecFails
<1>3. Filled(Unmapped, 0, n) \in [Va -> Entry]
  BY <1>1, <1>2, NewImage
<1>4. freelist' \subseteq Frame /\ phase' \in {"up", "panicked", "corrupt"}
  <2>1. Freevm(Filled(Unmapped, 0, n), sz[p]) \cup {} \subseteq Frame \cup {0}
    BY <1>1, <1>3, FreedFrames, Basics DEF Freevm
  <2>2. freelist \ Lowest(n) \in SUBSET Frame
    BY <1>1, Basics
  <2> QED
    BY <1>2, <2>1, <2>2, KfreeType
<1>5. UNCHANGED <<state, parent, space, region, kernel, overran>>
  BY DEF ExecFails
<1> QED
  BY <1>4, <1>5, FreelistIInv

\* The page table after sbrk() of a page up.
LEMMA Growing ==
  ASSUME TypeOK, NEW p \in Proc, Grow(p)
  PROVE  /\ state[p] = "RUNNABLE" /\ call[p] = None
         /\ sz[p] < MaxSize /\ sz[p] + 1 <= shmtop[p]
         /\ 1 \in 0 .. Cardinality(freelist) /\ Lowest(1) \subseteq freelist
         /\ freelist' = freelist \ Lowest(1)
         /\ pgdir' = [pgdir EXCEPT ![p] = Filled(pgdir[p], sz[p], 1)]
         /\ pgdir' \in [Proc -> [Va -> Entry]]
         /\ \A a \in Va : a = sz[p] => pgdir'[p][a] \in Lowest(1)
         /\ \A a \in Va : a # sz[p] => pgdir'[p][a] = pgdir[p][a]
         /\ sz' = [sz EXCEPT ![p] = sz[p] + 1]
         /\ UNCHANGED <<state, parent, shmtop, shmem_vaddr, region, kernel, overran, phase>>
<1>1. /\ state[p] = "RUNNABLE" /\ call[p] = None /\ sz[p] < MaxSize
      /\ sz[p] + 1 <= shmtop[p] /\ freelist # {}
      /\ freelist' = freelist \ Lowest(1)
      /\ pgdir' = [pgdir EXCEPT ![p] = Filled(pgdir[p], sz[p], 1)]
      /\ sz' = [sz EXCEPT ![p] = sz[p] + 1]
      /\ UNCHANGED <<state, parent, shmtop, shmem_vaddr, region, kernel, overran, phase>>
  BY DEF Grow, User, Ready
<1>2. 1 \in 0 .. Cardinality(freelist)
  <2>1. IsFiniteSet(freelist)
    <3>1. IsFiniteSet(Frame)
      BY FS_Interval, ConstantAssumption DEF Frame
    <3> QED
      BY <3>1, FS_Subset, Basics
  <2>2. Cardinality(freelist) # 0 /\ Cardinality(freelist) \in Nat
    BY <1>1, <2>1, FS_EmptySet, FS_CardinalityType
  <2> QED
    BY <2>2
<1>3. /\ Filled(pgdir[p], sz[p], 1) \in [Va -> Entry]
      /\ \A v \in Va : sz[p] <= v /\ v < sz[p] + 1 =>
           Filled(pgdir[p], sz[p], 1)[v] \in Lowest(1)
      /\ \A v \in Va : ~(sz[p] <= v /\ v < sz[p] + 1) =>
           Filled(pgdir[p], sz[p], 1)[v] = pgdir[p][v]
  <2>1. freelist \subseteq Frame /\ sz[p] \in Nat /\ pgdir[p] \in [Va -> Entry]
    BY Basics
  <2> QED
    BY <1>2, <2>1, FilledPages
<1>4. \A v \in Va : v = sz[p] <=> sz[p] <= v /\ v < sz[p] + 1
  BY Basics DEF Va
<1>5. /\ pgdir' \in [Proc -> [Va -> Entry]]
      /\ pgdir'[p] = Filled(pgdir[p], sz[p], 1)
  BY <1>1, <1>3, Basics
<1>6. Lowest(1) \subseteq freelist
  BY DEF Lowest
<1> QED
  BY <1>1, <1>2, <1>3, <1>4, <1>5, <1>6

LEMMA GrowIInv ==
  ASSUME IInv, NEW p \in Proc, Grow(p)
  PROVE  IInv'
<1>1. /\ TypeOK /\ Image /\ CallInv /\ LoadInv /\ Sized
      /\ ~stale => CountedUsers
  BY DEF IInv
<1>2. /\ state[p] = "RUNNABLE" /\ call[p] = None
      /\ sz[p] < MaxSize /\ sz[p] + 1 <= shmtop[p]
      /\ freelist' = freelist \ Lowest(1) /\ Lowest(1) \subseteq freelist
      /\ pgdir' = [pgdir EXCEPT ![p] = Filled(pgdir[p], sz[p], 1)]
      /\ pgdir' \in [Proc -> [Va -> Entry]]
      /\ \A a \in Va : a = sz[p] => pgdir'[p][a] \in Lowest(1)
      /\ \A a \in Va : a # sz[p] => pgdir'[p][a] = pgdir[p][a]
      /\ sz' = [sz EXCEPT ![p] = sz[p] + 1]
      /\ UNCHANGED <<state, parent, shmtop, shmem_vaddr, region, kernel, overran, phase>>
  BY <1>1, Growing
<1>3. TypeOK'
  <2>1. sz' \in [Proc -> 0 .. MaxSize]
    <3>1. sz[p] + 1 \in 0 .. MaxSize
      BY <1>1, <1>2, Basics
    <3> QED
      BY <1>1, <1>2, <3>1 DEF TypeOK
  <2>2. pgdir' \in [Proc -> [Va -> Frame \cup {0, None}]] /\ freelist' \subseteq Frame
    BY <1>1, <1>2, Basics DEF Entry
  <2> QED
    BY <1>1, <1>2, <2>1, <2>2 DEF TypeOK, region, kernel
<1>4. Image'
  <2> SUFFICES ASSUME NEW q \in Proc
               PROVE  /\ sz'[q] <= shmtop[q]
                      /\ \A a \in Va : a < sz'[q] => pgdir'[q][a] # None
    BY <1>2 DEF Image
  <2>1. CASE q = p
    <3>1. sz'[q] = sz[p] + 1
      BY <1>1, <1>2, <2>1 DEF TypeOK
    <3>2. \A a \in Va : a < sz'[q] => a = sz[p] \/ a < sz[p]
      BY <1>1, <3>1, Basics DEF Va
    <3>3. None \notin Lowest(1)
      BY <1>1, <1>2, Basics
    <3> QED
      BY <1>1, <1>2, <2>1, <3>1, <3>2, <3>3 DEF Image
  <2>2. CASE q # p
    <3>1. sz'[q] = sz[q] /\ pgdir'[q] = pgdir[q]
      BY <1>2, <2>2
    <3> QED
      BY <1>1, <3>1 DEF Image
  <2> QED
    BY <2>1, <2>2
<1>5. CallInv'
  <2> SUFFICES ASSUME NEW q \in Proc, call[q] # None
               PROVE  /\ state[q] = "RUNNABLE" /\ call[q].key \notin Attached(q)
                      /\ sz'[q] <= shmtop[q] - call[q].num
    BY <1>2 DEF CallInv, Attached, kernel
  <2>1. sz'[q] = sz[q]
    BY <1>2
  <2> QED
    BY <1>1, <2>1 DEF CallInv
<1>6. LoadInv' /\ Sized' /\ (~stale' => CountedUsers')
  BY <1>1, <1>2 DEF LoadInv, Sized, CountedUsers, Users, Live, Attached, region, kernel
<1> QED
  BY <1>3, <1>4, <1>5, <1>6 DEF IInv

\* The page table after sbrk() of a page down.
LEMMA Shrinking ==
  ASSUME TypeOK, Image, NEW p \in Proc, Shrink(p)
  PROVE  /\ state[p] = "RUNNABLE" /\ call[p] = None
         /\ sz[p] > 1 /\ sz[p] - 1 \in Va /\ pgdir[p][sz[p] - 1] \in Frame \cup {0}
         /\ Kfree(freelist, {pgdir[p][sz[p] - 1]}, {})
         /\ freelist' \subseteq Frame /\ phase' \in {"up", "panicked", "corrupt"}
         /\ \A q \in Proc \ {p} : pgdir'[q] = pgdir[q]
         /\ pgdir' \in [Proc -> [Va -> Entry]]
         /\ \A a \in Va : pgdir'[p][a] = IF a = sz[p] - 1 THEN None ELSE pgdir[p][a]
         /\ sz' = [sz EXCEPT ![p] = sz[p] - 1]
         /\ UNCHANGED <<state, parent, shmtop, shmem_vaddr, region, kernel, overran>>
<1>1. /\ state[p] = "RUNNABLE" /\ call[p] = None /\ sz[p] > 1
      /\ Kfree(freelist, {pgdir[p][sz[p] - 1]}, {})
      /\ pgdir' = [pgdir EXCEPT ![p][sz[p] - 1] = None]
      /\ sz' = [sz EXCEPT ![p] = sz[p] - 1]
      /\ UNCHANGED <<state, parent, shmtop, shmem_vaddr, region, kernel, overran>>
  BY DEF Shrink, User, Ready
<1>2. sz[p] - 1 \in Va /\ sz[p] - 1 < sz[p]
  BY <1>1, Basics DEF Va
<1>3. pgdir[p][sz[p] - 1] \in Frame \cup {0}
  BY <1>2, Basics DEF Image, Entry
<1>4. freelist' \subseteq Frame /\ phase' \in {"up", "panicked", "corrupt"}
  <2>1. freelist \in SUBSET Frame /\ {pgdir[p][sz[p] - 1]} \cup {} \subseteq Frame \cup {0}
    BY <1>3, Basics
  <2> QED
    BY <1>1, <2>1, KfreeType
<1>5. /\ \A q \in Proc \ {p} : pgdir'[q] = pgdir[q]
      /\ pgdir' \in [Proc -> [Va -> Entry]]
      /\ \A a \in Va : pgdir'[p][a] = IF a = sz[p] - 1 THEN None ELSE pgdir[p][a]
  BY <1>1, <1>2, Basics DEF Entry
<1> QED
  BY <1>1, <1>2, <1>3, <1>4, <1>5

LEMMA ShrinkIInv ==
  ASSUME IInv, NEW p \in Proc, Shrink(p)
  PROVE  IInv'
<1>1. /\ TypeOK /\ Image /\ CallInv /\ LoadInv /\ Sized
      /\ ~stale => CountedUsers
  BY DEF IInv
<1>2. /\ state[p] = "RUNNABLE" /\ call[p] = None /\ sz[p] > 1
      /\ freelist' \subseteq Frame /\ phase' \in {"up", "panicked", "corrupt"}
      /\ \A q \in Proc \ {p} : pgdir'[q] = pgdir[q]
      /\ pgdir' \in [Proc -> [Va -> Entry]]
      /\ \A a \in Va : pgdir'[p][a] = IF a = sz[p] - 1 THEN None ELSE pgdir[p][a]
      /\ sz' = [sz EXCEPT ![p] = sz[p] - 1]
      /\ UNCHANGED <<state, parent, shmtop, shmem_vaddr, region, kernel, overran>>
  BY <1>1, Shrinking
<1>3. TypeOK'
  <2>1. sz' \in [Proc -> 0 .. MaxSize]
    <3>1. sz[p] - 1 \in 0 .. MaxSize
      BY <1>1, <1>2, Basics
    <3> QED
      BY <1>1, <1>2, <3>1 DEF TypeOK
  <2>2. pgdir' \in [Proc -> [Va -> Frame \cup {0, None}]]
    BY <1>2 DEF Entry
  <2> QED
    BY <1>1, <1>2, <2>1, <2>2 DEF TypeOK, region, kernel
<1>4. Image'
  <2> SUFFICES ASSUME NEW q \in Proc
               PROVE  /\ sz'[q] <= shmtop[q]
                      /\ \A a \in Va : a < sz'[q] => pgdir'[q][a] # None
    BY <1>2 DEF Image
  <2>1. CASE q = p
    <3>1. sz'[q] = sz[p] - 1 /\ sz[p] \in Nat /\ shmtop[p] \in Nat
      BY <1>1, <1>2, <2>1, Basics DEF TypeOK
    <3>2. \A a \in Va : a < sz'[q] => a # sz[p] - 1 /\ a < sz[p]
      BY <3>1 DEF Va
    <3>3. sz'[q] <= shmtop[q]
      BY <1>1, <2>1, <3>1 DEF Image
    <3> QED
      BY <1>1, <1>2, <2>1, <3>2, <3>3 DEF Image
  <2>2. CASE q # p
    <3>1. sz'[q] = sz[q] /\ pgdir'[q] = pgdir[q]
      BY <1>2, <2>2
    <3> QED
      BY <1>1, <3>1 DEF Image
  <2> QED
    BY <2>1, <2>2
<1>5. CallInv'
  <2> SUFFICES ASSUME NEW q \in Proc, call[q] # None
               PROVE  /\ state[q] = "RUNNABLE" /\ call[q].key \notin Attached(q)
                      /\ sz'[q] <= shmtop[q] - call[q].num
    BY <1>2 DEF CallInv, Attached, kernel
  <2>1. sz'[q] = sz[q]
    BY <1>2
  <2> QED
    BY <1>1, <2>1 DEF CallInv
<1>6. LoadInv' /\ Sized' /\ (~stale' => CountedUsers')
  BY <1>1, <1>2 DEF LoadInv, Sized, CountedUsers, Users, Live, Attached, region, kernel
<1> QED
  BY <1>3, <1>4, <1>5, <1>6 DEF IInv

LEMMA ExitIInv ==
  ASSUME IInv, NEW p \in Proc, Exit(p)
  PROVE  IInv'
<1>1. /\ TypeOK /\ Image /\ CallInv /\ LoadInv /\ Sized
      /\ ~stale => CountedUsers
  BY DEF IInv
<1>2. /\ state[p] = "RUNNABLE" /\ call[p] = None /\ loaded[p] = None
      /\ state' = [state EXCEPT ![p] = "ZOMBIE"]
      /\ parent' = [q \in Proc |-> IF parent[q] = p THEN Initproc ELSE parent[q]]
      /\ UNCHANGED <<space, region, freelist, kernel, overran, phase>>
  BY DEF Exit, User, Ready
<1>3. TypeOK'
  <2>1. /\ state' \in [Proc -> {"UNUSED", "RUNNABLE", "ZOMBIE"}]
        /\ parent' \in [Proc -> Proc \cup {None}]
    BY <1>1, <1>2, Basics DEF TypeOK
  <2> QED
    BY <1>1, <1>2, <2>1 DEF TypeOK, space, region, kernel
<1>4. Image' /\ Sized' /\ LoadInv'
  <2>1. Image' /\ Sized'
    BY <1>1, <1>2 DEF Image, Sized, Attached, space, region
  <2>2. LoadInv'
    BY <1>1, <1>2 DEF LoadInv, kernel
  <2> QED
    BY <2>1, <2>2
<1>5. CallInv'
  <2> SUFFICES ASSUME NEW q \in Proc, call[q] # None
               PROVE  /\ state'[q] = "RUNNABLE" /\ call[q].key \notin Attached(q)
                      /\ sz[q] <= shmtop[q] - call[q].num
    BY <1>2 DEF CallInv, Attached, space, kernel
  <2>1. state'[q] = state[q]
    BY <1>2
  <2> QED
    BY <1>1, <2>1 DEF CallInv
<1>6. ~stale' => CountedUsers'
  <2>1. \A q \in Proc : Live(q)' <=> Live(q)
    BY <1>1, <1>2 DEF Live, TypeOK
  <2>2. \A k \in Key : Users(k)' = Users(k)
    BY <1>2, <2>1 DEF Users, Attached, space
  <2> QED
    BY <1>1, <1>2, <2>2 DEF CountedUsers, region, kernel
<1> QED
  BY <1>3, <1>4, <1>5, <1>6 DEF IInv

\* The child wait() reaps.
LEMMA Waiting ==
  ASSUME TypeOK, CallInv, LoadInv, NEW p \in Proc, Wait(p)
  PROVE  \E q \in Proc :
           /\ phase = "up" /\ state[p] = "RUNNABLE" /\ call[p] = None
           /\ state[q] = "ZOMBIE" /\ q # p /\ call[q] = None
           /\ loaded[q] = None /\ Exact(q)
           /\ overran' = (overran \/ sz[p] > shmtop[q])
           /\ Kfree(freelist, Freevm(pgdir[q], sz[p]), FramesOf(LastOut(q)))
           /\ Decrease(q)
           /\ state' = [state EXCEPT ![q] = "UNUSED"]
           /\ parent' = [parent EXCEPT ![q] = None]
           /\ sz' = [sz EXCEPT ![q] = 0]
           /\ pgdir' = [pgdir EXCEPT ![q] = Unmapped]
           /\ shmtop' = [shmtop EXCEPT ![q] = UserTop]
           /\ shmem_vaddr' = [shmem_vaddr EXCEPT ![q] = [k \in Key |-> None]]
           /\ UNCHANGED <<shmem_pages, call, loaded>>
           /\ stale' \in BOOLEAN /\ (~stale' => ~stale)
<1> DEFINE zombie == {q \in Proc : parent[q] = p /\ state[q] = "ZOMBIE"}
<1>1. PICK q : q = Min(zombie)
  OBVIOUS
<1>2. zombie # {} /\ zombie \in SUBSET Proc
  BY DEF Wait
<1>3. q \in Proc /\ state[q] = "ZOMBIE"
  BY <1>1, <1>2, MinProperties
<1>4. /\ Kfree(freelist, Freevm(pgdir[q], sz[p]), FramesOf(LastOut(q)))
      /\ Decrease(q)
      /\ state' = [state EXCEPT ![q] = "UNUSED"]
      /\ parent' = [parent EXCEPT ![q] = None]
      /\ sz' = [sz EXCEPT ![q] = 0]
      /\ pgdir' = [pgdir EXCEPT ![q] = Unmapped]
      /\ shmtop' = [shmtop EXCEPT ![q] = UserTop]
      /\ shmem_vaddr' = [shmem_vaddr EXCEPT ![q] = [k \in Key |-> None]]
      /\ overran' = (overran \/ sz[p] > shmtop[q])
      /\ UNCHANGED <<shmem_pages, call, loaded>>
  BY <1>1 DEF Wait
<1>5. phase = "up" /\ state[p] = "RUNNABLE" /\ call[p] = None
  BY DEF Wait, User, Ready
<1>6. q # p /\ call[q] = None
  BY <1>3, <1>5 DEF CallInv
<1>7. loaded[q] = None /\ Exact(q)
  BY <1>3 DEF LoadInv, Exact, Count
<1>8. stale' \in BOOLEAN /\ (~stale' => ~stale)
  <2>1. stale' = (stale \/ AtWork(LastOut(q), q))
    BY <1>1 DEF Wait
  <2> QED
    BY <2>1
<1> QED
  BY <1>3, <1>4, <1>5, <1>6, <1>7, <1>8

LEMMA WaitIInv ==
  ASSUME IInv, NEW p \in Proc, Wait(p)
  PROVE  IInv'
<1>1. TypeOK /\ CallInv /\ LoadInv
  BY DEF IInv
<1>2. PICK q \in Proc :
        /\ state[q] = "ZOMBIE" /\ call[q] = None /\ loaded[q] = None /\ Exact(q)
        /\ overran' = (overran \/ sz[p] > shmtop[q])
        /\ Kfree(freelist, Freevm(pgdir[q], sz[p]), FramesOf(LastOut(q)))
        /\ Decrease(q)
        /\ state' = [state EXCEPT ![q] = "UNUSED"]
        /\ parent' = [parent EXCEPT ![q] = None]
        /\ sz' = [sz EXCEPT ![q] = 0]
        /\ pgdir' = [pgdir EXCEPT ![q] = Unmapped]
        /\ shmtop' = [shmtop EXCEPT ![q] = UserTop]
        /\ shmem_vaddr' = [shmem_vaddr EXCEPT ![q] = [k \in Key |-> None]]
        /\ UNCHANGED <<shmem_pages, call, loaded>>
        /\ stale' \in BOOLEAN /\ (~stale' => ~stale)
  BY <1>1, Waiting
<1>3. freelist' \subseteq Frame /\ phase' \in {"up", "panicked", "corrupt"}
  <2>1. FramesOf(LastOut(q)) \subseteq Frame \cup {0}
    BY <1>1, FreedFrames DEF LastOut, Attached
  <2>2. Freevm(pgdir[q], sz[p]) \subseteq Frame \cup {0}
    BY <1>1, FreedFrames, Basics DEF Freevm
  <2>3. freelist \in SUBSET Frame
    BY <1>1, Basics
  <2> QED
    BY <1>2, <2>1, <2>2, <2>3, KfreeType
<1>4. parent' \in [Proc -> Proc \cup {None}] /\ Live(q)
  BY <1>1, <1>2 DEF TypeOK, Live
<1>5. 0 \in 0 .. MaxSize /\ Unmapped \in [Va -> Entry]
      /\ \A a \in Va : a < 0 => Unmapped[a] # None
  BY ConstantAssumption DEF Unmapped, Entry, Va
<1>7. /\ loaded' \in [Proc -> {None} \cup [key : Key, count : Int]]
      /\ \A r \in Proc : loaded'[r] # None => r # q /\ loaded[r] # None
      /\ stale' \in BOOLEAN /\ overran' \in BOOLEAN /\ call' = call
      /\ ~stale' => ~stale
  BY <1>1, <1>2 DEF TypeOK, kernel
<1>6. GivesUp(q, "UNUSED", 0, Unmapped)
  BY <1>2, <1>3, <1>4, <1>5, <1>7 DEF GivesUp
<1> QED
  BY <1>6, ReplacedIInv

LEMMA NextIInv ==
  ASSUME IInv, [Next]_vars
  PROVE  IInv'
<1>1. CASE UNCHANGED vars
  <2>1. freelist' \subseteq Frame /\ phase' \in {"up", "panicked", "corrupt"}
    BY <1>1 DEF vars, IInv, TypeOK
  <2>2. UNCHANGED <<state, parent, space, region, kernel, overran>>
    BY <1>1 DEF vars
  <2> QED
    BY <2>1, <2>2, FreelistIInv
<1>2. CASE Next
  <2>1. PICK p \in Proc :
          \/ ShmCheck(p) \/ LoadCount(p) \/ ShmAttach(p)
          \/ Fork(p) \/ ForkFails(p) \/ Exec(p) \/ ExecFails(p)
          \/ Grow(p) \/ Shrink(p) \/ Exit(p) \/ Wait(p)
    BY <1>2 DEF Next
  <2> QED
    BY <2>1, ShmCheckIInv, LoadCountIInv, ShmAttachIInv, ForkIInv, ForkFailsIInv, ExecIInv,
       ExecFailsIInv, GrowIInv, ShrinkIInv, ExitIInv, WaitIInv
<1> QED
  BY <1>1, <1>2

THEOREM Invariance == Spec => []IInv
<1>1. Init => IInv
  BY InitIInv
<1>2. IInv /\ [Next]_vars => IInv'
  BY NextIInv
<1> QED
  BY <1>1, <1>2, PTL DEF Spec

\* Every variable keeps its type: no address space grows past its regions and no
\* page is mapped outside it, whatever is preempted where.
THEOREM TypeCorrect == Spec => []TypeOK
<1>1. IInv => TypeOK
  BY DEF IInv
<1> QED
  BY <1>1, Invariance, PTL

\* No region is torn down under a process that uses it: shm_decrease_count
\* reaches zero only when nobody is attached, as long as no call, preempted or
\* not, has acted on a count that had changed under it.
THEOREM RefCountHolds == Spec => []RefCount
<1>1. IInv => RefCount
  BY DEF IInv, CountedUsers, RefCount
<1> QED
  BY <1>1, Invariance, PTL
------------------------------------------------------------------------------
(* The processes of a region see the same frames. *)

\* Where the regions of a process are.
LEMMA Extents ==
  ASSUME TypeOK, NEW p \in Proc, AlikeAt(p), NEW k \in Attached(p)
  PROVE  /\ k \in Key /\ shmem_vaddr[p][k] \in Nat /\ shmem_pages[k] \in Nat
         /\ \A i \in 0 .. shmem_pages[k] - 1 :
              /\ shmem_vaddr[p][k] + shmem_pages[k] - 1 - i \in Extent(p, k)
              /\ i \in Index
         /\ \A a \in Extent(p, k) : a \in Va /\ shmtop[p] <= a
<1>1. k \in Key /\ shmem_vaddr[p][k] \in Va
  BY DEF Attached, TypeOK
<1>2. /\ shmem_vaddr[p][k] \in Nat /\ shmem_pages[k] \in Nat
      /\ shmem_pages[k] <= MaxPages /\ MaxPages \in Nat
      /\ shmtop[p] \in Nat /\ UserTop \in Nat
  BY <1>1, Basics, ConstantAssumption DEF Va
<1>3. \A i \in 0 .. shmem_pages[k] - 1 :
        /\ shmem_vaddr[p][k] + shmem_pages[k] - 1 - i \in
             shmem_vaddr[p][k] .. shmem_vaddr[p][k] + shmem_pages[k] - 1
        /\ i \in Index
  BY <1>2 DEF Index
<1>4. Extent(p, k) \subseteq shmtop[p] .. UserTop - 1
  BY DEF AlikeAt
<1>5. \A a \in shmtop[p] .. UserTop - 1 : a \in Va /\ shmtop[p] <= a
  BY <1>2 DEF Va
<1> QED
  BY <1>1, <1>2, <1>3, <1>4, <1>5 DEF Extent

\* What a process sees of its regions when nothing that concerns it changes;
\* r is the process itself, or a child that gets the same regions.
LEMMA AlikeKept ==
  ASSUME TypeOK, NEW p \in Proc, AlikeAt(p), NEW r \in Proc,
         shmem_vaddr'[r] = shmem_vaddr[p], shmtop'[r] = shmtop[p],
         \A k \in Attached(p) :
           /\ shmem_pages'[k] = shmem_pages[k]
           /\ \A i \in Index : i < shmem_pages[k] =>
                shmem_paddr'[k][i] = shmem_paddr[k][i],
         \A a \in Va : shmtop[p] <= a => pgdir'[r][a] = pgdir[p][a]
  PROVE  AlikeAt(r)'
<1>1. Attached(r)' = Attached(p)
  BY DEF Attached
<1>2. \A k \in Attached(p) : Extent(r, k)' = Extent(p, k)
  BY DEF Extent
<1>3. /\ shmtop'[r] .. UserTop - 1 = UNION {Extent(r, k)' : k \in Attached(r)'}
      /\ \A j, k \in Attached(r)' : j # k => Extent(r, j)' \cap Extent(r, k)' = {}
  BY <1>1, <1>2 DEF AlikeAt
<1>4. ASSUME NEW k \in Attached(p), NEW i \in 0 .. shmem_pages[k] - 1
      PROVE  pgdir'[r][shmem_vaddr'[r][k] + shmem_pages'[k] - 1 - i] = shmem_paddr'[k][i]
  <2>1. PICK a : a = shmem_vaddr[p][k] + shmem_pages[k] - 1 - i
    OBVIOUS
  <2>2. a \in Va /\ shmtop[p] <= a /\ i \in Index /\ shmem_pages[k] \in Nat
    BY <2>1, Extents
  <2>3. pgdir[p][a] = shmem_paddr[k][i]
    BY <2>1 DEF AlikeAt
  <2>4. pgdir'[r][a] = pgdir[p][a] /\ shmem_paddr'[k][i] = shmem_paddr[k][i]
    BY <2>2
  <2>5. shmem_vaddr'[r][k] + shmem_pages'[k] - 1 - i = a
    BY <2>1
  <2> QED
    BY <2>3, <2>4, <2>5
<1>5. \A k \in Attached(r)' : \A i \in 0 .. shmem_pages'[k] - 1 :
        pgdir'[r][shmem_vaddr'[r][k] + shmem_pages'[k] - 1 - i] = shmem_paddr'[k][i]
  BY <1>1, <1>4
<1> QED
  BY <1>3, <1>5 DEF AlikeAt

\* A process without regions.
LEMMA AlikeEmpty ==
  ASSUME NEW p \in Proc, shmtop'[p] = UserTop, Attached(p)' = {}
  PROVE  AlikeAt(p)'
<1>1. UserTop .. UserTop - 1 = {}
  BY ConstantAssumption
<1> QED
  BY <1>1 DEF AlikeAt

\* Who leaves a region last leaves nobody in it.
LEMMA NotLast ==
  ASSUME TypeOK, CountedUsers, NEW p \in Proc, Exact(p), NEW q \in Proc \ {p}, Live(p), Live(q),
         NEW k \in Attached(q)
  PROVE  k \notin LastOut(p)
<1> SUFFICES ASSUME k \in Attached(p), shmem_count[k] = 1 PROVE FALSE
  BY DEF LastOut, Exact, Attached
<1>1. k \in Key /\ {p} \in SUBSET Users(k) /\ q \in Users(k)
  BY DEF Users, Attached
<1>2. /\ IsFiniteSet(Users(k) \ {q})
      /\ Cardinality(Users(k) \ {q}) = Cardinality(Users(k)) - 1
  BY <1>1, UsersFinite, FS_RemoveElement
<1>3. Cardinality(Users(k) \ {q}) # 0
  BY <1>1, <1>2, FS_EmptySet
<1>4. Cardinality(Users(k)) <= 1 /\ Cardinality(Users(k)) \in Nat
  BY <1>1, UsersFinite DEF CountedUsers
<1>5. Cardinality(Users(k) \ {q}) \in Nat
  BY <1>2, FS_CardinalityType
<1> QED
  BY <1>2, <1>3, <1>4, <1>5

\* A step that touches no page table and no region.
LEMMA AlikeStays ==
  ASSUME TypeOK, Alike, UNCHANGED <<space, shmem_pages, shmem_paddr>>,
         \A q \in Proc : Live(q)' => Live(q)
  PROVE  Alike'
<1> SUFFICES ASSUME NEW q \in Proc, Live(q)'
             PROVE  AlikeAt(q)'
  BY DEF Alike
<1>1. AlikeAt(q)
  BY DEF Alike
<1> QED
  BY <1>1, AlikeKept DEF space

\* A process gives its regions up (see ReplacedIInv).
LEMMA ReplacedAlike ==
  ASSUME TypeOK, CountedUsers, Alike, NEW p \in Proc, Live(p), Exact(p), Decrease(p),
         shmem_pages' = shmem_pages, shmtop' = [shmtop EXCEPT ![p] = UserTop],
         shmem_vaddr' = [shmem_vaddr EXCEPT ![p] = [k \in Key |-> None]],
         \A q \in Proc \ {p} : state'[q] = state[q] /\ pgdir'[q] = pgdir[q]
  PROVE  Alike'
<1> SUFFICES ASSUME NEW q \in Proc, Live(q)'
             PROVE  AlikeAt(q)'
  BY DEF Alike
<1>1. CASE q = p
  <2>1. shmtop'[p] = UserTop /\ Attached(p)' = {}
    BY DEF TypeOK, Attached
  <2> QED
    BY <1>1, <2>1, AlikeEmpty
<1>2. CASE q # p
  <2>1. /\ Live(q) /\ AlikeAt(q)
        /\ shmem_vaddr'[q] = shmem_vaddr[q] /\ shmtop'[q] = shmtop[q]
        /\ pgdir'[q] = pgdir[q]
    BY <1>2 DEF Live, Alike
  <2>2. ASSUME NEW k \in Attached(q), NEW i \in Index, i < shmem_pages[k]
        PROVE  shmem_paddr'[k][i] = shmem_paddr[k][i]
    <3>1. k \notin LastOut(p) /\ k \in Key
      BY <1>2, <2>1, NotLast DEF Attached
    <3> QED
      BY <3>1 DEF Decrease
  <2> QED
    BY <2>1, <2>2, AlikeKept
<1> QED
  BY <1>1, <1>2

\* shmgetat maps the frames that the others have mapped, below its regions.
LEMMA AttachAlike ==
  ASSUME AInv, NEW p \in Proc, ShmAttach(p), call' # call, ~stale'
  PROVE  Alike'
<1>0. TypeOK /\ CallInv /\ Image
  BY DEF AInv, IInv
<1>2. PICK k, n, top : k = call[p].key /\ n = call[p].num /\ top = shmtop[p]
  OBVIOUS
<1>5. /\ ~stale /\ (call[p].new <=> shmem_count[k] = 0)
      /\ ~call[p].new => n = shmem_pages[k]
  BY <1>0, <1>2, Attaching
<1>1. TypeOK /\ CallInv /\ CountedUsers /\ Alike /\ Image
  BY <1>0, <1>5 DEF AInv, IInv
<1>3. /\ call[p] # None /\ k \in Key /\ n \in Nat /\ n >= 1 /\ n <= MaxPages
      /\ state[p] = "RUNNABLE" /\ k \notin Attached(p)
      /\ top - n \in Va /\ sz[p] <= top - n /\ top \in Nat /\ top <= UserTop
  BY <1>1, <1>2, Attaching
<1>4. /\ shmem_paddr' = [shmem_paddr EXCEPT ![k] =
           [i \in Index |-> IF call[p].new /\ i < n THEN Nth(Lowest(n), i)
                            ELSE shmem_paddr[k][i]]]
      /\ \A q \in Proc \ {p} : pgdir'[q] = pgdir[q]
      /\ \A a \in Va : top - n <= a /\ a < top =>
           pgdir'[p][a] = shmem_paddr'[k][top - 1 - a]
      /\ \A a \in Va : ~(top - n <= a /\ a < top) => pgdir'[p][a] = pgdir[p][a]
      /\ shmem_pages' = [shmem_pages EXCEPT ![k] = n]
      /\ shmem_vaddr' = [shmem_vaddr EXCEPT ![p][k] = top - n]
      /\ shmtop' = [shmtop EXCEPT ![p] = top - n]
      /\ state' = state
  BY <1>1, <1>2, Attaching
\* The regions of a process other than k, and k if it has it already, are as before.
<1>6. ASSUME NEW q \in Proc, Live(q), NEW j \in Attached(q)
      PROVE  /\ j \in Key /\ shmem_pages'[j] = shmem_pages[j]
             /\ \A i \in Index : i < shmem_pages[j] =>
                  shmem_paddr'[j][i] = shmem_paddr[j][i]
  <2>1. j \in Key /\ shmem_count[j] # 0
    BY <1>1, <1>6, AttachedCounted
  <2>2. CASE j # k
    BY <1>4, <2>1, <2>2
  <2>3. CASE j = k
    <3>1. ~call[p].new /\ n = shmem_pages[k]
      BY <1>5, <2>1, <2>3
    <3>2. \A i \in Index : shmem_paddr'[k][i] = shmem_paddr[k][i]
      BY <1>1, <1>3, <1>4, <3>1 DEF TypeOK
    <3>3. shmem_pages'[k] = shmem_pages[k]
      BY <1>1, <1>3, <1>4, <3>1 DEF TypeOK
    <3> QED
      BY <2>1, <2>3, <3>2, <3>3
  <2> QED
    BY <2>2, <2>3
<1>7. ASSUME NEW q \in Proc \ {p}, Live(q)
      PROVE  AlikeAt(q)'
  <2>1. AlikeAt(q) /\ shmem_vaddr'[q] = shmem_vaddr[q] /\ shmtop'[q] = shmtop[q]
    BY <1>1, <1>4, <1>7 DEF Alike
  <2> QED
    BY <1>1, <1>4, <1>6, <1>7, <2>1, AlikeKept
<1>8. Live(p)
  BY <1>3 DEF Live
<1>9. AlikeAt(p)
  BY <1>1, <1>8 DEF Alike
<1>10. /\ shmem_vaddr'[p][k] = top - n /\ shmtop'[p] = top - n /\ shmem_pages'[k] = n
       /\ \A j \in Key \ {k} : shmem_vaddr'[p][j] = shmem_vaddr[p][j]
  BY <1>1, <1>3, <1>4 DEF TypeOK
<1>11. Attached(p)' = Attached(p) \cup {k}
  <2>1. top - n # None
    BY <1>1, <1>3, Basics DEF Va
  <2> QED
    BY <1>3, <1>10, <2>1 DEF Attached
<1>12. Extent(p, k)' = top - n .. top - 1
  BY <1>3, <1>10 DEF Extent
<1>13. \A j \in Attached(p) : Extent(p, j)' = Extent(p, j)
  <2> SUFFICES ASSUME NEW j \in Attached(p)
               PROVE  /\ shmem_vaddr'[p][j] = shmem_vaddr[p][j]
                      /\ shmem_pages'[j] = shmem_pages[j]
    BY DEF Extent
  <2> QED
    BY <1>3, <1>6, <1>8, <1>10
<1>14. UNION {Extent(p, j) : j \in Attached(p)} = top .. UserTop - 1
  BY <1>2, <1>9 DEF AlikeAt
<1>15. shmtop'[p] .. UserTop - 1 = UNION {Extent(p, j)' : j \in Attached(p)'}
  <2>1. UNION {Extent(p, j)' : j \in Attached(p)'} =
          (UNION {Extent(p, j) : j \in Attached(p)}) \cup (top - n .. top - 1)
    BY <1>11, <1>12, <1>13
  <2>2. top - n .. UserTop - 1 = (top - n .. top - 1) \cup (top .. UserTop - 1)
    BY <1>3, ConstantAssumption
  <2> QED
    BY <1>10, <1>14, <2>1, <2>2
<1>16. \A i, j \in Attached(p)' : i # j => Extent(p, i)' \cap Extent(p, j)' = {}
  <2>1. \A j \in Attached(p) : Extent(p, j) \cap (top - n .. top - 1) = {}
    <3>1. (top .. UserTop - 1) \cap (top - n .. top - 1) = {}
      BY <1>3, ConstantAssumption
    <3> QED
      BY <1>14, <3>1
  <2>2. \A i, j \in Attached(p) : i # j => Extent(p, i) \cap Extent(p, j) = {}
    BY <1>9 DEF AlikeAt
  <2>3. ASSUME NEW i \in Attached(p)', NEW j \in Attached(p)', i # j
        PROVE  Extent(p, i)' \cap Extent(p, j)' = {}
    <3>1. CASE i = k
      BY <1>11, <1>12, <1>13, <2>1, <2>3, <3>1
    <3>2. CASE j = k
      BY <1>11, <1>12, <1>13, <2>1, <2>3, <3>2
    <3>3. CASE i # k /\ j # k
      BY <1>11, <1>13, <2>2, <2>3, <3>3
    <3> QED
      BY <3>1, <3>2, <3>3
  <2> QED
    BY <2>3
<1>17. ASSUME NEW j \in Attached(p)', NEW i \in 0 .. shmem_pages'[j] - 1
       PROVE  pgdir'[p][shmem_vaddr'[p][j] + shmem_pages'[j] - 1 - i] = shmem_paddr'[j][i]
  <2>1. CASE j = k
    <3>1. i \in 0 .. n - 1
      BY <1>10, <2>1
    <3>2. PICK a : a = top - 1 - i
      OBVIOUS
    <3>3. a \in Va /\ top - n <= a /\ a < top /\ top - 1 - a = i
      BY <1>3, <3>1, <3>2, ConstantAssumption DEF Va
    <3>4. shmem_vaddr'[p][j] + shmem_pages'[j] - 1 - i = a
      BY <1>3, <1>10, <2>1, <3>1, <3>2
    <3> QED
      BY <1>4, <2>1, <3>3, <3>4
  <2>2. CASE j # k
    <3>1. j \in Attached(p)
      BY <1>11, <2>2
    <3>2. /\ shmem_pages'[j] = shmem_pages[j] /\ shmem_vaddr'[p][j] = shmem_vaddr[p][j]
          /\ \A l \in Index : l < shmem_pages[j] => shmem_paddr'[j][l] = shmem_paddr[j][l]
      BY <1>6, <1>8, <1>10, <2>2, <3>1
    <3>3. i \in 0 .. shmem_pages[j] - 1
      BY <3>2
    <3>4. PICK a : a = shmem_vaddr[p][j] + shmem_pages[j] - 1 - i
      OBVIOUS
    <3>5. a \in Va /\ top <= a /\ i \in Index /\ shmem_pages[j] \in Nat
      BY <1>1, <1>2, <1>9, <3>1, <3>3, <3>4, Extents
    <3>6. pgdir[p][a] = shmem_paddr[j][i]
      BY <1>9, <3>1, <3>3, <3>4 DEF AlikeAt
    <3>7. ~(top - n <= a /\ a < top) /\ i < shmem_pages[j]
      BY <1>3, <3>3, <3>5 DEF Va, Index
    <3> QED
      BY <1>4, <3>2, <3>4, <3>5, <3>6, <3>7
  <2> QED
    BY <2>1, <2>2
<1>18. AlikeAt(p)'
  BY <1>15, <1>16, <1>17 DEF AlikeAt
<1>19. \A q \in Proc : Live(q)' <=> Live(q)
  BY <1>4 DEF Live
<1> QED
  BY <1>7, <1>18, <1>19 DEF Alike

\* A child has its parent's regions where its parent has them.
LEMMA ForkAlike ==
  ASSUME AInv, ~stale, NEW p \in Proc, Fork(p)
  PROVE  Alike'
<1>1. TypeOK /\ CallInv /\ Alike /\ Image
  BY DEF AInv, IInv
<1>2. PICK np \in Proc :
        /\ state[p] = "RUNNABLE" /\ sz[p] \in 0 .. Cardinality(freelist)
        /\ shmem_vaddr' = [shmem_vaddr EXCEPT ![np] = shmem_vaddr[p]]
        /\ shmtop' = [shmtop EXCEPT ![np] = shmtop[p]]
        /\ pgdir' = [pgdir EXCEPT ![np] = Filled(pgdir[p], 0, sz[p])]
        /\ state' = [state EXCEPT ![np] = "RUNNABLE"]
        /\ UNCHANGED <<shmem_pages, shmem_paddr>>
  BY <1>1, Forking
<1> SUFFICES ASSUME NEW q \in Proc, Live(q)'
             PROVE  AlikeAt(q)'
  BY DEF Alike
<1>3. CASE q = np
  <2>1. AlikeAt(p)
    BY <1>1, <1>2 DEF Alike, Live
  <2>2. /\ shmem_vaddr'[q] = shmem_vaddr[p] /\ shmtop'[q] = shmtop[p]
        /\ pgdir'[q] = Filled(pgdir[p], 0, sz[p])
    BY <1>1, <1>2, <1>3 DEF TypeOK
  <2>3. \A v \in Va : ~(0 <= v /\ v < 0 + sz[p]) =>
          Filled(pgdir[p], 0, sz[p])[v] = pgdir[p][v]
    <3>1. freelist \subseteq Frame /\ pgdir[p] \in [Va -> Entry]
      BY <1>1, Basics
    <3> QED
      BY <1>2, <3>1, FilledPages
  <2>4. \A a \in Va : shmtop[p] <= a => pgdir'[q][a] = pgdir[p][a]
    <3>1. sz[p] <= shmtop[p] /\ sz[p] \in Nat /\ shmtop[p] \in Nat
      BY <1>1, Basics DEF Image
    <3>2. \A a \in Va : shmtop[p] <= a => ~(0 <= a /\ a < 0 + sz[p])
      BY <3>1 DEF Va
    <3> QED
      BY <2>2, <2>3, <3>2
  <2> QED
    BY <1>1, <1>2, <2>1, <2>2, <2>4, AlikeKept
<1>4. CASE q # np
  <2>1. Live(q) /\ AlikeAt(q) /\ shmem_vaddr'[q] = shmem_vaddr[q]
        /\ shmtop'[q] = shmtop[q] /\ pgdir'[q] = pgdir[q]
    BY <1>1, <1>2, <1>4 DEF Live, Alike
  <2> QED
    BY <1>1, <1>2, <2>1, AlikeKept
<1> QED
  BY <1>3, <1>4

\* sbrk() moves pages below the regions only.
LEMMA SbrkAlike ==
  ASSUME AInv, ~stale, NEW p \in Proc, Grow(p) \/ Shrink(p)
  PROVE  Alike'
<1>1. TypeOK /\ Alike /\ Image
  BY DEF AInv, IInv
<1>2. /\ UNCHANGED <<state, shmtop, shmem_vaddr, shmem_pages, shmem_paddr>>
      /\ \A q \in Proc \ {p} : pgdir'[q] = pgdir[q]
      /\ \A a \in Va : shmtop[p] <= a => pgdir'[p][a] = pgdir[p][a]
  <2>0. \A a \in Va : a \in Nat
    BY ConstantAssumption DEF Va
  <2>1. CASE Grow(p)
    <3>1. /\ sz[p] + 1 <= shmtop[p]
          /\ pgdir' = [pgdir EXCEPT ![p] = Filled(pgdir[p], sz[p], 1)]
          /\ \A a \in Va : a # sz[p] => pgdir'[p][a] = pgdir[p][a]
          /\ UNCHANGED <<state, shmtop, shmem_vaddr, region>>
      BY <1>1, <2>1, Growing
    <3>2. \A a \in Va : shmtop[p] <= a => a # sz[p]
      BY <1>1, <2>0, <3>1, Basics
    <3> QED
      BY <3>1, <3>2 DEF region
  <2>2. CASE Shrink(p)
    <3>1. /\ \A q \in Proc \ {p} : pgdir'[q] = pgdir[q]
          /\ \A a \in Va : pgdir'[p][a] = IF a = sz[p] - 1 THEN None ELSE pgdir[p][a]
          /\ UNCHANGED <<state, shmtop, shmem_vaddr, region>>
      BY <1>1, <2>2, Shrinking
    <3>2. \A a \in Va : shmtop[p] <= a => a # sz[p] - 1
      <4>1. sz[p] <= shmtop[p] /\ sz[p] \in Nat /\ shmtop[p] \in Nat
        BY <1>1, Basics DEF Image
      <4> QED
        BY <2>0, <4>1
    <3> QED
      BY <3>1, <3>2 DEF region
  <2> QED
    BY <2>1, <2>2
<1> SUFFICES ASSUME NEW q \in Proc, Live(q)'
             PROVE  AlikeAt(q)'
  BY DEF Alike
<1>3. AlikeAt(q) /\ \A a \in Va : shmtop[q] <= a => pgdir'[q][a] = pgdir[q][a]
  BY <1>1, <1>2 DEF Live, Alike
<1> QED
  BY <1>1, <1>2, <1>3, AlikeKept

\* shmgetat that finds no frame panics and changes nothing else.
LEMMA AttachPanics ==
  ASSUME TypeOK, NEW p \in Proc, ShmAttach(p), call' = call
  PROVE  /\ phase' = "panicked"
         /\ UNCHANGED <<state, parent, space, region, freelist, kernel, overran>>
<1>1. call[p] # None
  BY DEF ShmAttach
<1> QED
  BY <1>1 DEF ShmAttach, TypeOK

\* A call that has not gone by a stale count leaves stale FALSE, and was not
\* the first.
LEMMA StaleStays ==
  ASSUME TypeOK, [Next]_vars, ~stale'
  PROVE  ~stale
<1>1. CASE UNCHANGED vars
  BY <1>1 DEF vars, kernel
<1>2. CASE Next
  <2>1. PICK p \in Proc :
          \/ ShmCheck(p) \/ LoadCount(p) \/ ShmAttach(p)
          \/ Fork(p) \/ ForkFails(p) \/ Exec(p) \/ ExecFails(p)
          \/ Grow(p) \/ Shrink(p) \/ Exit(p) \/ Wait(p)
    BY <1>2 DEF Next
  <2>2. CASE ShmAttach(p)
    BY <2>2 DEF ShmAttach, kernel
  <2>3. CASE Fork(p) \/ ForkFails(p) \/ Exec(p)
    BY <2>3 DEF Fork, ForkFails, Exec, Stores
  <2>4. CASE \/ ShmCheck(p) \/ LoadCount(p) \/ ExecFails(p)
             \/ Grow(p) \/ Shrink(p) \/ Exit(p)
    BY <2>4 DEF ShmCheck, LoadCount, ExecFails, Grow, Shrink, Exit, kernel
  <2>5. CASE Wait(p)
    BY <2>5 DEF Wait
  <2> QED
    BY <2>1, <2>2, <2>3, <2>4, <2>5
<1> QED
  BY <1>1, <1>2

LEMMA NextAInv ==
  ASSUME AInv, [Next]_vars
  PROVE  AInv'
<1>2. IInv'
  BY NextIInv DEF AInv
<1> SUFFICES ASSUME ~stale' PROVE Alike'
  BY <1>2 DEF AInv
<1>1. TypeOK /\ CallInv /\ LoadInv /\ CountedUsers /\ Alike /\ Image /\ IInv /\ ~stale
  BY StaleStays DEF AInv, IInv
<1>3. CASE UNCHANGED vars
  BY <1>1, <1>3, AlikeStays DEF vars, Live, region
<1>4. CASE Next
  <2>1. PICK p \in Proc :
          \/ ShmCheck(p) \/ LoadCount(p) \/ ShmAttach(p)
          \/ Fork(p) \/ ForkFails(p) \/ Exec(p) \/ ExecFails(p)
          \/ Grow(p) \/ Shrink(p) \/ Exit(p) \/ Wait(p)
    BY <1>4 DEF Next
  <2>3. Alike'
    <3>1. CASE ShmCheck(p) \/ LoadCount(p)
      BY <1>1, <3>1, AlikeStays DEF ShmCheck, LoadCount, Live, region
    <3>2. CASE ShmAttach(p)
      <4>1. CASE call' = call
        BY <1>1, <3>2, <4>1, AttachPanics, AlikeStays DEF Live, region
      <4> QED
        BY <3>2, <4>1, AttachAlike
    <3>3. CASE ForkFails(p)
      BY <1>1, <3>3, AlikeStays DEF ForkFails, Live
    <3>4. CASE ExecFails(p)
      BY <1>1, <3>4, AlikeStays DEF ExecFails, Live, region
    <3>5. CASE Exit(p)
      <4>1. UNCHANGED <<space, shmem_pages, shmem_paddr>>
        BY <3>5 DEF Exit, region
      <4>2. \A q \in Proc : Live(q)' => Live(q)
        BY <3>5 DEF Exit, User, Ready, Live
      <4> QED
        BY <1>1, <4>1, <4>2, AlikeStays
    <3>6. CASE Exec(p)
      <4>1. PICK n \in 1 .. MaxSize :
              /\ Decrease(p)
              /\ shmem_vaddr' = [shmem_vaddr EXCEPT ![p] = [k \in Key |-> None]]
              /\ shmtop' = [shmtop EXCEPT ![p] = UserTop]
              /\ pgdir' = [pgdir EXCEPT ![p] = Filled(Unmapped, 0, n)]
        BY <3>6 DEF Exec
      <4>2. Live(p) /\ state' = state /\ shmem_pages' = shmem_pages /\ Exact(p)
        <5>1. Stores(p, LastOut(p)) /\ state[p] = "RUNNABLE"
          BY <3>6 DEF Exec, Ready
        <5>2. Exact(p)
          BY <1>1, <5>1, Counts
        <5> QED
          BY <3>6, <5>1, <5>2 DEF Exec, Live
      <4>3. \A q \in Proc \ {p} : state'[q] = state[q] /\ pgdir'[q] = pgdir[q]
        BY <4>1, <4>2
      <4> QED
        BY <1>1, <4>1, <4>2, <4>3, ReplacedAlike
    <3>7. CASE Wait(p)
      <4>1. PICK q \in Proc :
              /\ state[q] = "ZOMBIE" /\ Decrease(q) /\ Exact(q)
              /\ state' = [state EXCEPT ![q] = "UNUSED"]
              /\ pgdir' = [pgdir EXCEPT ![q] = Unmapped]
              /\ shmtop' = [shmtop EXCEPT ![q] = UserTop]
              /\ shmem_vaddr' = [shmem_vaddr EXCEPT ![q] = [k \in Key |-> None]]
              /\ UNCHANGED <<shmem_pages, call, loaded>>
        BY <1>1, <3>7, Waiting
      <4>2. /\ Live(q)
            /\ \A r \in Proc \ {q} : state'[r] = state[r] /\ pgdir'[r] = pgdir[r]
        BY <4>1 DEF Live
      <4> QED
        BY <1>1, <4>1, <4>2, ReplacedAlike
    <3>8. CASE Fork(p)
      BY <1>1, <3>8, ForkAlike
    <3>9. CASE Grow(p) \/ Shrink(p)
      BY <1>1, <3>9, SbrkAlike
    <3> QED
      BY <2>1, <3>1, <3>2, <3>3, <3>4, <3>5, <3>6, <3>7, <3>8, <3>9
  <2> QED
    BY <2>3
<1> QED
  BY <1>3, <1>4

LEMMA InitAInv == Init => AInv
<1> SUFFICES ASSUME Init PROVE AInv
  OBVIOUS
<1>1. IInv
  BY InitIInv
<1>3. \A p \in Proc : shmtop[p] = UserTop /\ Attached(p) = {}
  BY DEF Init, Attached
<1>4. UserTop .. UserTop - 1 = {}
  BY ConstantAssumption
<1>5. Alike
  BY <1>3, <1>4 DEF Alike, AlikeAt
<1> QED
  BY <1>1, <1>5 DEF AInv

\* All processes attached to a key see the same frames in the same order and
\* have their regions back to back above shmtop, through shmgetat, fork, exec
\* and wait, the kernel preempted or not, until a call has acted on a count that
\* had changed under it.
THEOREM SharedAlikeHolds == Spec => []SharedAlike
<1>1. Init => AInv
  BY InitAInv
<1>2. AInv /\ [Next]_vars => AInv'
  BY NextAInv
<1>3. AInv => SharedAlike
  BY DEF AInv, Alike, AlikeAt, SharedAlike
<1> QED
  BY <1>1, <1>2, <1>3, PTL DEF Spec
------------------------------------------------------------------------------
(* Nothing is mapped twice or freed in use. *)

\* Frames change hands through the free list only: a step takes `fresh' for
\* process r or for region s from it, and gives back `gone', which nobody uses
\* after the step.
Handover(r, s, pfresh, rfresh, gone) ==
  /\ pfresh \subseteq freelist /\ rfresh \subseteq freelist /\ pfresh \cap rfresh = {}
  /\ gone \cap freelist = {}
  /\ freelist' \subseteq (freelist \ (pfresh \cup rfresh)) \cup gone
  /\ \A p \in Proc, a \in Va : Owns(p, a)' =>
       \/ p = r /\ pgdir'[p][a] \in pfresh
       \/ Owns(p, a) /\ pgdir'[p][a] = pgdir[p][a] /\ pgdir[p][a] \notin gone
  /\ \A a, b \in Va :
       /\ Owns(r, a)' /\ Owns(r, b)'
       /\ pgdir'[r][a] \in pfresh /\ pgdir'[r][a] = pgdir'[r][b]
       => a = b
  /\ \A k \in Key, i \in Index : Holds(k, i)' =>
       \/ k = s /\ shmem_paddr'[k][i] \in rfresh
       \/ /\ Holds(k, i) /\ shmem_paddr'[k][i] = shmem_paddr[k][i]
          /\ shmem_paddr[k][i] \notin gone
  /\ \A i, j \in Index :
       /\ Holds(s, i)' /\ Holds(s, j)'
       /\ shmem_paddr'[s][i] \in rfresh /\ shmem_paddr'[s][i] = shmem_paddr'[s][j]
       => i = j

LEMMA FramesKept ==
  ASSUME TypeOK, PrivateInv, RegionInv, NEW r, NEW s,
         NEW pfresh, NEW rfresh, NEW gone, Handover(r, s, pfresh, rfresh, gone)
  PROVE  PrivateInv' /\ RegionInv'
<1>1. freelist \in SUBSET Frame /\ pfresh \in SUBSET Frame /\ rfresh \in SUBSET Frame
  BY Basics DEF Handover
<1>2. \A p \in Proc, a \in Va : Owns(p, a)' => pgdir'[p][a] \in Frame \ freelist'
  BY <1>1 DEF Handover, PrivateInv
<1>3. \A p, q \in Proc, a, b \in Va :
        Owns(p, a)' /\ Owns(q, b)' /\ pgdir'[p][a] = pgdir'[q][b] => p = q /\ a = b
  BY <1>1 DEF Handover, PrivateInv
<1>4. \A k \in Key, i \in Index : Holds(k, i)' => shmem_paddr'[k][i] \in Frame \ freelist'
  BY <1>1 DEF Handover, RegionInv
<1>5. \A k, l \in Key, i, j \in Index :
        Holds(k, i)' /\ Holds(l, j)' /\ shmem_paddr'[k][i] = shmem_paddr'[l][j] =>
          k = l /\ i = j
  BY <1>1 DEF Handover, RegionInv
<1>6. \A p \in Proc, a \in Va, k \in Key, i \in Index :
        Owns(p, a)' /\ Holds(k, i)' => pgdir'[p][a] # shmem_paddr'[k][i]
  BY <1>1 DEF Handover, PrivateInv, RegionInv
<1> QED
  BY <1>2, <1>3, <1>4, <1>5, <1>6 DEF PrivateInv, RegionInv

\* What freevm() frees by a size that is not larger than shmtop is in the
\* process's own image and heap.
LEMMA FreedIsPrivate ==
  ASSUME TypeOK, Gap, PrivateInv, NEW p \in Proc, Live(p), NEW n \in Int, n <= shmtop[p]
  PROVE  /\ Freevm(pgdir[p], n) \subseteq Frame \ freelist
         /\ \A f \in Freevm(pgdir[p], n) : \E a \in Va : Owns(p, a) /\ f = pgdir[p][a]
<1>1. \A a \in Va : a < n /\ pgdir[p][a] # None => Owns(p, a)
  <2> SUFFICES ASSUME NEW a \in Va, a < n, pgdir[p][a] # None
               PROVE  a < sz[p]
    BY DEF Owns
  <2>1. sz[p] \in Nat /\ shmtop[p] \in Nat /\ a \in Nat
    BY Basics DEF Va
  <2> QED
    BY <2>1 DEF Gap
<1> QED
  BY <1>1 DEF Freevm, Below, PrivateInv

\* The frames of the regions a process leaves empty.
LEMMA FreedIsRegion ==
  ASSUME TypeOK, RegionInv, NEW p \in Proc, Exact(p)
  PROVE  /\ FramesOf(LastOut(p)) \subseteq Frame \ freelist
         /\ \A f \in FramesOf(LastOut(p)) : \E k \in LastOut(p), i \in Index :
              Holds(k, i) /\ f = shmem_paddr[k][i]
<1>1. ASSUME NEW k \in LastOut(p), NEW i \in 0 .. shmem_pages[k] - 1
      PROVE  k \in Key /\ i \in Index /\ Holds(k, i)
  <2>1. k \in Key /\ shmem_count[k] = 1
    BY DEF LastOut, Attached, Exact
  <2>2. shmem_pages[k] \in Nat /\ shmem_pages[k] <= MaxPages
    BY <2>1, Basics
  <2> QED
    BY <2>1, <2>2, ConstantAssumption DEF Index, Holds
<1> QED
  BY <1>1 DEF FramesOf, RegionInv

\* Freeing frames that are taken, each once, is what kfree is for.
LEMMA KfreeSound ==
  ASSUME NEW base \in SUBSET freelist, freelist \in SUBSET Frame, NEW first, NEW second,
         first \subseteq Frame \ base, second \subseteq Frame \ base,
         first \cap second = {}, Kfree(base, first, second)
  PROVE  phase' = "up" /\ freelist' = base \cup first \cup second
<1>1. 0 \notin Frame
  BY DEF Frame
<1> QED
  BY <1>1 DEF Kfree

\* A step that takes nothing from the free list for good, and ends no use.
LEMMA FramesStay ==
  ASSUME TypeOK, Gap, PrivateInv, RegionInv,
         UNCHANGED <<space, shmem_pages, shmem_paddr>>, freelist' \subseteq freelist,
         \A q \in Proc : Live(q)' => Live(q),
         \A k \in Key : shmem_count'[k] # 0 => shmem_count[k] # 0
  PROVE  Gap' /\ PrivateInv' /\ RegionInv'
<1>1. Gap'
  BY DEF Gap, space
<1>2. \A p \in Proc, a \in Va : Owns(p, a)' => Owns(p, a)
  BY DEF Owns, space
<1>3. \A k \in Key, i \in Index : Holds(k, i)' => Holds(k, i)
  BY DEF Holds
<1>4. PrivateInv'
  BY <1>2 DEF PrivateInv, space
<1>5. RegionInv'
  BY <1>2, <1>3 DEF RegionInv, space
<1> QED
  BY <1>1, <1>4, <1>5

\* A process gives its address space up for one of n fresh pages.
Replaces(p, n, pd, fresh, gone) ==
  /\ Live(p) /\ Exact(p) /\ Decrease(p) /\ shmem_pages' = shmem_pages
  /\ \A q \in Proc \ {p} : state'[q] = state[q]
  /\ n \in Nat /\ sz' = [sz EXCEPT ![p] = n]
  /\ pd \in [Va -> Entry] /\ pgdir' = [pgdir EXCEPT ![p] = pd]
  /\ shmtop' = [shmtop EXCEPT ![p] = UserTop]
  /\ shmem_vaddr' = [shmem_vaddr EXCEPT ![p] = [k \in Key |-> None]]
  /\ fresh \subseteq freelist /\ freelist' = (freelist \ fresh) \cup gone
  /\ \A a \in Va : a < n => pd[a] \in fresh
  /\ \A a \in Va : ~(a < n) => pd[a] = None
  /\ \A a, b \in Va : a < n /\ b < n /\ pd[a] = pd[b] => a = b
  /\ \A f \in gone :
       \/ \E a \in Va : Owns(p, a) /\ f = pgdir[p][a]
       \/ \E k \in LastOut(p), i \in Index : Holds(k, i) /\ f = shmem_paddr[k][i]

LEMMA ReplacedFrames ==
  ASSUME TypeOK, CountedUsers, Gap, PrivateInv, RegionInv, NEW p \in Proc,
         NEW n, NEW pd, NEW fresh, NEW gone, Replaces(p, n, pd, fresh, gone)
  PROVE  Gap' /\ PrivateInv' /\ RegionInv'
<1>0. /\ Live(p) /\ Exact(p) /\ Decrease(p) /\ shmem_pages' = shmem_pages
      /\ \A q \in Proc \ {p} : state'[q] = state[q]
      /\ n \in Nat /\ sz' = [sz EXCEPT ![p] = n]
      /\ pd \in [Va -> Entry] /\ pgdir' = [pgdir EXCEPT ![p] = pd]
      /\ shmtop' = [shmtop EXCEPT ![p] = UserTop]
      /\ shmem_vaddr' = [shmem_vaddr EXCEPT ![p] = [k \in Key |-> None]]
  BY DEF Replaces
<1>1. /\ sz'[p] = n /\ pgdir'[p] = pd /\ shmtop'[p] = UserTop /\ Attached(p)' = {}
      /\ \A q \in Proc \ {p} :
           /\ sz'[q] = sz[q] /\ pgdir'[q] = pgdir[q] /\ shmtop'[q] = shmtop[q]
           /\ Attached(q)' = Attached(q) /\ (Live(q)' <=> Live(q))
  BY <1>0 DEF TypeOK, Attached, Live
<1>3. Gap'
  <2>1. \A a \in Va : n <= a => ~(a < n)
    BY <1>0 DEF Va
  <2> QED
    BY <1>1, <2>1 DEF Replaces, Gap
<1>4. /\ LastOut(p) \subseteq Key /\ gone \cap freelist = {}
      /\ \A f \in gone : f \notin freelist
  <2>1. LastOut(p) \subseteq Key
    BY DEF LastOut, Attached
  <2> QED
    BY <2>1 DEF Replaces, PrivateInv, RegionInv
<1>5. ASSUME NEW q \in Proc, NEW a \in Va, Owns(q, a)'
      PROVE  \/ q = p /\ pgdir'[q][a] \in fresh
             \/ Owns(q, a) /\ pgdir'[q][a] = pgdir[q][a] /\ pgdir[q][a] \notin gone
  <2>1. CASE q = p
    BY <1>1, <1>5, <2>1 DEF Replaces, Owns
  <2>2. CASE q # p
    <3>1. Owns(q, a) /\ pgdir'[q][a] = pgdir[q][a]
      BY <1>1, <1>5, <2>2 DEF Owns
    <3>2. \A b \in Va : Owns(p, b) => pgdir[q][a] # pgdir[p][b]
      BY <2>2, <3>1 DEF PrivateInv
    <3>3. \A k \in LastOut(p), i \in Index : Holds(k, i) => pgdir[q][a] # shmem_paddr[k][i]
      BY <1>4, <3>1 DEF RegionInv
    <3> QED
      BY <3>1, <3>2, <3>3 DEF Replaces
  <2> QED
    BY <2>1, <2>2
<1>6. \A a, b \in Va :
        /\ Owns(p, a)' /\ Owns(p, b)'
        /\ pgdir'[p][a] \in fresh /\ pgdir'[p][a] = pgdir'[p][b]
        => a = b
  BY <1>1 DEF Replaces, Owns
<1>7. ASSUME NEW k \in Key, NEW i \in Index, Holds(k, i)'
      PROVE  /\ Holds(k, i) /\ shmem_paddr'[k][i] = shmem_paddr[k][i]
             /\ shmem_paddr[k][i] \notin gone
  <2>1. shmem_count'[k] = IF k \in Attached(p) THEN shmem_count[k] - 1 ELSE shmem_count[k]
    BY <1>0 DEF Decrease, Exact
  <2>2. k \in Attached(p) => shmem_count[k] # 0
    BY <1>0, AttachedCounted
  <2>3. shmem_count'[k] # 0 /\ i < shmem_pages[k]
    BY <1>0, <1>7 DEF Holds
  <2>4. k \notin LastOut(p)
    BY <1>0, <2>1, <2>3 DEF LastOut, Exact
  <2>5. Holds(k, i)
    BY <2>1, <2>2, <2>3 DEF Holds
  <2>6. shmem_paddr'[k][i] = shmem_paddr[k][i]
    BY <1>0, <2>4 DEF Decrease
  <2>7. \A l \in LastOut(p), j \in Index : Holds(l, j) => shmem_paddr[k][i] # shmem_paddr[l][j]
    BY <1>4, <2>4, <2>5 DEF RegionInv
  <2>8. \A a \in Va : Owns(p, a) => shmem_paddr[k][i] # pgdir[p][a]
    BY <2>5 DEF RegionInv
  <2> QED
    BY <2>5, <2>6, <2>7, <2>8 DEF Replaces
<1>8. PrivateInv' /\ RegionInv'
  <2>1. Handover(p, p, fresh, {}, gone)
    BY <1>4, <1>5, <1>6, <1>7 DEF Replaces, Handover
  <2> QED
    BY <2>1, FramesKept
<1> QED
  BY <1>3, <1>8

LEMMA AttachFrames ==
  ASSUME FInv, NEW p \in Proc, ShmAttach(p), call' # call, ~stale', ~overran'
  PROVE  Kept'
<1>0. TypeOK /\ CallInv /\ Image
  BY DEF FInv, AInv, IInv
<1>2. PICK k, n, top : k = call[p].key /\ n = call[p].num /\ top = shmtop[p]
  OBVIOUS
<1>5. /\ ~stale /\ ~overran /\ Exact(p) /\ (call[p].new <=> shmem_count[k] = 0)
      /\ ~call[p].new => n = shmem_pages[k]
  BY <1>0, <1>2, Attaching
<1>1. /\ TypeOK /\ CallInv /\ Image /\ CountedUsers
      /\ phase # "corrupt" /\ Gap /\ PrivateInv /\ RegionInv
  BY <1>0, <1>5 DEF FInv, AInv, IInv, Kept
<1>3. /\ call[p] # None /\ k \in Key /\ n \in Nat /\ n >= 1 /\ n <= MaxPages
      /\ state[p] = "RUNNABLE" /\ k \notin Attached(p)
      /\ top - n \in Va /\ sz[p] <= top - n /\ top \in Nat /\ top <= UserTop
      /\ freelist' = IF call[p].new THEN freelist \ Lowest(n) ELSE freelist
      /\ call[p].new => n \in 0 .. Cardinality(freelist)
  BY <1>1, <1>2, Attaching
<1>4. /\ shmem_paddr' = [shmem_paddr EXCEPT ![k] =
           [i \in Index |-> IF call[p].new /\ i < n THEN Nth(Lowest(n), i)
                            ELSE shmem_paddr[k][i]]]
      /\ \A q \in Proc \ {p} : pgdir'[q] = pgdir[q]
      /\ \A a \in Va : ~(top - n <= a /\ a < top) => pgdir'[p][a] = pgdir[p][a]
      /\ shmem_count' = [shmem_count EXCEPT ![k] = shmem_count[k] + 1]
      /\ shmem_pages' = [shmem_pages EXCEPT ![k] = n]
      /\ shmem_vaddr' = [shmem_vaddr EXCEPT ![p][k] = top - n]
      /\ shmtop' = [shmtop EXCEPT ![p] = top - n]
      /\ UNCHANGED <<state, parent, sz, phase>>
  <2>1. shmem_count' = [shmem_count EXCEPT ![k] = Count(p, k) + 1]
    BY <1>1, <1>2, Attaching
  <2>2. shmem_count' = [shmem_count EXCEPT ![k] = shmem_count[k] + 1]
    BY <1>3, <1>5, <2>1 DEF Exact
  <2>3. /\ shmem_paddr' = [shmem_paddr EXCEPT ![k] =
             [i \in Index |-> IF call[p].new /\ i < n THEN Nth(Lowest(n), i)
                              ELSE shmem_paddr[k][i]]]
    BY <1>1, <1>2, Attaching
  <2>4. \A q \in Proc \ {p} : pgdir'[q] = pgdir[q]
    BY <1>1, <1>2, Attaching
  <2>5. \A a \in Va : ~(top - n <= a /\ a < top) => pgdir'[p][a] = pgdir[p][a]
    BY <1>1, <1>2, Attaching
  <2>6. /\ shmem_pages' = [shmem_pages EXCEPT ![k] = n]
        /\ shmem_vaddr' = [shmem_vaddr EXCEPT ![p][k] = top - n]
        /\ shmtop' = [shmtop EXCEPT ![p] = top - n]
    BY <1>1, <1>2, Attaching
  <2>7. UNCHANGED <<state, parent, sz, phase>>
    BY <1>1, <1>2, Attaching
  <2> QED
    BY <2>2, <2>3, <2>4, <2>5, <2>6, <2>7, Zenon
<1>6. /\ Attached(p)' = Attached(p) \cup {k} /\ shmtop'[p] = top - n
      /\ \A q \in Proc \ {p} : Attached(q)' = Attached(q) /\ shmtop'[q] = shmtop[q]
  <2>1. top - n # None
    BY <1>1, <1>3, Basics DEF Va
  <2>2. \A q \in Proc, j \in Key : shmem_vaddr'[q][j] =
          IF q = p /\ j = k THEN top - n ELSE shmem_vaddr[q][j]
    BY <1>1, <1>3, <1>4 DEF TypeOK
  <2>3. shmtop'[p] = top - n /\ \A q \in Proc \ {p} : shmtop'[q] = shmtop[q]
    BY <1>1, <1>4 DEF TypeOK
  <2> QED
    BY <1>3, <2>1, <2>2, <2>3 DEF Attached
<1>8. Gap'
  <2> SUFFICES ASSUME NEW q \in Proc, Live(q)', NEW a \in Va, sz[q] <= a, a < shmtop'[q]
               PROVE  pgdir'[q][a] = None
    BY <1>4 DEF Gap
  <2>1. Live(q)
    BY <1>4 DEF Live
  <2>2. CASE q = p
    <3>1. a < top /\ ~(top - n <= a /\ a < top)
      BY <1>3, <1>6, <2>2 DEF Va
    <3> QED
      BY <1>1, <1>2, <1>4, <2>1, <2>2, <3>1 DEF Gap
  <2>3. CASE q # p
    BY <1>1, <1>4, <1>6, <2>1, <2>3 DEF Gap
  <2> QED
    BY <2>2, <2>3
<1>9. ASSUME NEW q \in Proc, NEW a \in Va, Owns(q, a)'
      PROVE  Owns(q, a) /\ pgdir'[q][a] = pgdir[q][a]
  <2>1. Owns(q, a)
    BY <1>4, <1>9 DEF Owns, Live
  <2>2. CASE q = p
    <3>1. ~(top - n <= a /\ a < top)
      BY <1>1, <1>3, <2>1, <2>2, Basics DEF Owns, Va
    <3> QED
      BY <1>4, <2>1, <2>2, <3>1
  <2> QED
    BY <1>4, <2>1, <2>2
<1>10. PrivateInv' /\ RegionInv'
  <2>1. CASE call[p].new
    <3>1. /\ Lowest(n) \subseteq freelist
          /\ \A i \in 0 .. n - 1 : Nth(Lowest(n), i) \in Lowest(n)
          /\ \A i, j \in 0 .. n - 1 : Nth(Lowest(n), i) = Nth(Lowest(n), j) => i = j
      <4>1. freelist \subseteq Frame
        BY <1>1, Basics
      <4> QED
        BY <1>3, <2>1, <4>1, LowestFrames
    <3>2. \A i \in Index : i < n => i \in 0 .. n - 1 /\ shmem_paddr'[k][i] = Nth(Lowest(n), i)
      <4>1. \A i \in Index : i < n => i \in 0 .. n - 1
        BY <1>3, ConstantAssumption DEF Index
      <4> QED
        BY <1>1, <1>3, <1>4, <2>1, <4>1 DEF TypeOK
    <3>3. \A i \in Index : Holds(k, i)' => i < n
      BY <1>1, <1>3, <1>4 DEF Holds, TypeOK
    <3>4. \A j \in Key \ {k}, i \in Index : Holds(j, i)' =>
            Holds(j, i) /\ shmem_paddr'[j][i] = shmem_paddr[j][i]
      BY <1>4 DEF Holds
    <3>5. Handover(p, k, {}, Lowest(n), {})
      BY <1>3, <1>9, <2>1, <3>1, <3>2, <3>3, <3>4 DEF Handover
    <3> QED
      BY <1>1, <3>5, FramesKept
  <2>2. CASE ~call[p].new
    <3>1. shmem_paddr' = shmem_paddr
      BY <1>1, <1>3, <1>4, <2>2 DEF TypeOK
    <3>2. shmem_pages' = shmem_pages
      BY <1>1, <1>3, <1>4, <1>5, <2>2 DEF TypeOK
    <3>3. \A j \in Key, i \in Index : Holds(j, i)' => Holds(j, i)
      BY <1>1, <1>3, <1>4, <1>5, <2>2, <3>2 DEF Holds, TypeOK
    <3>4. Handover(p, k, {}, {}, {})
      BY <1>3, <1>9, <2>2, <3>1, <3>3 DEF Handover
    <3> QED
      BY <1>1, <3>4, FramesKept
  <2> QED
    BY <1>1, <1>3, <2>1, <2>2, Basics
<1> QED
  BY <1>1, <1>4, <1>8, <1>10 DEF Kept

LEMMA ForkFrames ==
  ASSUME FInv, NEW p \in Proc, Fork(p), ~stale', ~overran'
  PROVE  Kept'
<1>0. ~stale /\ ~overran /\ Exact(p)
  <2>1. TypeOK /\ Stores(p, {}) /\ overran' = overran
    BY DEF FInv, AInv, IInv, Fork
  <2> QED
    BY <2>1, Counts
<1>1. /\ TypeOK /\ CallInv /\ Image /\ CountedUsers
      /\ phase # "corrupt" /\ Gap /\ PrivateInv /\ RegionInv
  BY <1>0 DEF FInv, AInv, IInv, Kept
<1>2. PICK np \in Proc :
        /\ state[p] = "RUNNABLE" /\ sz[p] \in 0 .. Cardinality(freelist)
        /\ state[np] = "UNUSED"
        /\ shmem_count' = [k \in Key |-> Increase(k, p)]
        /\ shmem_vaddr' = [shmem_vaddr EXCEPT ![np] = shmem_vaddr[p]]
        /\ shmtop' = [shmtop EXCEPT ![np] = shmtop[p]]
        /\ pgdir' = [pgdir EXCEPT ![np] = Filled(pgdir[p], 0, sz[p])]
        /\ freelist' = freelist \ Lowest(sz[p])
        /\ sz' = [sz EXCEPT ![np] = sz[p]]
        /\ state' = [state EXCEPT ![np] = "RUNNABLE"]
        /\ UNCHANGED <<shmem_pages, shmem_paddr, phase>>
  BY <1>1, Forking
<1>3. /\ sz'[np] = sz[p] /\ pgdir'[np] = Filled(pgdir[p], 0, sz[p])
      /\ shmtop'[np] = shmtop[p] /\ Attached(np)' = Attached(p) /\ Live(p)
      /\ \A q \in Proc \ {np} :
           /\ sz'[q] = sz[q] /\ pgdir'[q] = pgdir[q] /\ shmtop'[q] = shmtop[q]
           /\ Attached(q)' = Attached(q) /\ (Live(q)' <=> Live(q))
  BY <1>1, <1>2 DEF TypeOK, Attached, Live
<1>4. /\ \A v \in Va : v < sz[p] => pgdir'[np][v] \in Lowest(sz[p])
      /\ \A v \in Va : ~(v < sz[p]) => pgdir'[np][v] = pgdir[p][v]
      /\ \A v, w \in Va : v < sz[p] /\ w < sz[p] /\ pgdir'[np][v] = pgdir'[np][w] => v = w
  <2>1. freelist \subseteq Frame /\ pgdir[p] \in [Va -> Entry] /\ sz[p] \in Nat
    BY <1>1, Basics
  <2>2. /\ \A v \in Va : 0 <= v /\ v < 0 + sz[p] =>
             Filled(pgdir[p], 0, sz[p])[v] \in Lowest(sz[p])
        /\ \A v \in Va : ~(0 <= v /\ v < 0 + sz[p]) =>
             Filled(pgdir[p], 0, sz[p])[v] = pgdir[p][v]
        /\ \A v, w \in Va :
             /\ 0 <= v /\ v < 0 + sz[p] /\ 0 <= w /\ w < 0 + sz[p]
             /\ Filled(pgdir[p], 0, sz[p])[v] = Filled(pgdir[p], 0, sz[p])[w]
             => v = w
    BY <1>2, <2>1, FilledPages
  <2>3. \A v \in Va : v < sz[p] <=> 0 <= v /\ v < 0 + sz[p]
    BY <2>1 DEF Va
  <2> QED
    BY <1>3, <2>2, <2>3
<1>6. Gap'
  <2>1. \A a \in Va : sz[p] <= a => ~(a < sz[p])
    BY <1>1, Basics DEF Va
  <2> QED
    BY <1>1, <1>3, <1>4, <2>1 DEF Gap
<1>7. PrivateInv' /\ RegionInv'
  <2>1. Lowest(sz[p]) \subseteq freelist
    BY DEF Lowest
  <2>2. \A q \in Proc, a \in Va : Owns(q, a)' =>
          \/ q = np /\ pgdir'[q][a] \in Lowest(sz[p])
          \/ Owns(q, a) /\ pgdir'[q][a] = pgdir[q][a]
    BY <1>3, <1>4 DEF Owns
  <2>3. ASSUME NEW k \in Key, NEW i \in Index, Holds(k, i)'
        PROVE  Holds(k, i)
    <3>1. shmem_count'[k] = IF k \in Attached(p) THEN shmem_count[k] + 1 ELSE shmem_count[k]
      BY <1>0, <1>1, <1>2, Increased
    <3>2. k \in Attached(p) => shmem_count[k] # 0
      BY <1>1, <1>3, AttachedCounted
    <3> QED
      BY <1>2, <2>3, <3>1, <3>2 DEF Holds
  <2>4. \A a, b \in Va : Owns(np, a)' /\ Owns(np, b)' /\ pgdir'[np][a] = pgdir'[np][b] => a = b
    BY <1>3, <1>4 DEF Owns
  <2>5. Handover(np, np, Lowest(sz[p]), {}, {})
    BY <1>2, <2>1, <2>2, <2>3, <2>4 DEF Handover
  <2> QED
    BY <1>1, <2>5, FramesKept
<1> QED
  BY <1>1, <1>2, <1>6, <1>7 DEF Kept

\* What is freed of an address space whose size is at most shmtop: pages of
\* the image and heap, and of the regions nobody else is in; none twice.
LEMMA TornDown ==
  ASSUME TypeOK, Gap, PrivateInv, RegionInv, NEW p \in Proc, Live(p), Exact(p),
         NEW n \in Int, n <= shmtop[p]
  PROVE  /\ Freevm(pgdir[p], n) \subseteq Frame \ freelist
         /\ FramesOf(LastOut(p)) \subseteq Frame \ freelist
         /\ Freevm(pgdir[p], n) \cap FramesOf(LastOut(p)) = {}
         /\ \A f \in Freevm(pgdir[p], n) \cup FramesOf(LastOut(p)) :
              \/ \E a \in Va : Owns(p, a) /\ f = pgdir[p][a]
              \/ \E k \in LastOut(p), i \in Index : Holds(k, i) /\ f = shmem_paddr[k][i]
<1>1. /\ Freevm(pgdir[p], n) \subseteq Frame \ freelist
      /\ \A f \in Freevm(pgdir[p], n) : \E a \in Va : Owns(p, a) /\ f = pgdir[p][a]
  BY FreedIsPrivate
<1>2. /\ FramesOf(LastOut(p)) \subseteq Frame \ freelist
      /\ \A f \in FramesOf(LastOut(p)) : \E k \in LastOut(p), i \in Index :
           Holds(k, i) /\ f = shmem_paddr[k][i]
  BY FreedIsRegion
<1>3. LastOut(p) \subseteq Key
  BY DEF LastOut, Attached
<1>4. Freevm(pgdir[p], n) \cap FramesOf(LastOut(p)) = {}
  BY <1>1, <1>2, <1>3 DEF RegionInv
<1> QED
  BY <1>1, <1>2, <1>4

LEMMA ExecFrames ==
  ASSUME FInv, NEW p \in Proc, Exec(p), ~stale', ~overran'
  PROVE  Kept'
<1>0. ~stale /\ ~overran /\ Exact(p)
  <2>1. TypeOK /\ Stores(p, LastOut(p)) /\ overran' = overran
    BY DEF FInv, AInv, IInv, Exec
  <2> QED
    BY <2>1, Counts
<1>1. /\ TypeOK /\ CountedUsers /\ Gap /\ PrivateInv /\ RegionInv
  BY <1>0 DEF FInv, AInv, IInv, Kept
<1>2. PICK n \in 1 .. MaxSize :
        /\ n <= shmtop[p] /\ n <= Cardinality(freelist)
        /\ Decrease(p)
        /\ shmem_vaddr' = [shmem_vaddr EXCEPT ![p] = [k \in Key |-> None]]
        /\ shmtop' = [shmtop EXCEPT ![p] = UserTop]
        /\ pgdir' = [pgdir EXCEPT ![p] = Filled(Unmapped, 0, n)]
        /\ sz' = [sz EXCEPT ![p] = n]
        /\ Kfree(freelist \ Lowest(n), FramesOf(LastOut(p)), Freevm(pgdir[p], n))
  BY DEF Exec
<1>3. state' = state /\ shmem_pages' = shmem_pages /\ Live(p) /\ Exact(p)
  BY <1>0 DEF Exec, Ready, Live
<1>4. /\ Filled(Unmapped, 0, n) \in [Va -> Entry]
      /\ \A a \in Va : a < n => Filled(Unmapped, 0, n)[a] \in Lowest(n)
      /\ \A a \in Va : ~(a < n) => Filled(Unmapped, 0, n)[a] = None
      /\ \A a, b \in Va :
           a < n /\ b < n /\ Filled(Unmapped, 0, n)[a] = Filled(Unmapped, 0, n)[b] => a = b
  BY <1>1, <1>2, NewImage
<1>5. n \in Nat /\ n <= shmtop[p]
  BY <1>1, <1>2, Basics
<1>6. PICK first, second : first = FramesOf(LastOut(p)) /\ second = Freevm(pgdir[p], n)
  OBVIOUS
<1>7. /\ first \subseteq Frame \ freelist /\ second \subseteq Frame \ freelist
      /\ first \cap second = {}
      /\ \A f \in first \cup second :
           \/ \E a \in Va : Owns(p, a) /\ f = pgdir[p][a]
           \/ \E k \in LastOut(p), i \in Index : Holds(k, i) /\ f = shmem_paddr[k][i]
  BY <1>1, <1>3, <1>5, <1>6, TornDown
<1>8. /\ phase' = "up"
      /\ freelist' = (freelist \ Lowest(n)) \cup (first \cup second)
  <2>1. freelist \ Lowest(n) \in SUBSET freelist /\ freelist \in SUBSET Frame
    BY <1>1, Basics
  <2>2. first \subseteq Frame \ (freelist \ Lowest(n)) /\ second \subseteq Frame \ (freelist \ Lowest(n))
    BY <1>7
  <2>3. /\ phase' = "up"
        /\ freelist' = (freelist \ Lowest(n)) \cup first \cup second
    BY <1>2, <1>6, <1>7, <2>1, <2>2, KfreeSound
  <2> QED
    BY <2>3
<1>9. Lowest(n) \subseteq freelist /\ \A q \in Proc \ {p} : state'[q] = state[q]
  BY <1>3 DEF Lowest
<1>10. Replaces(p, n, Filled(Unmapped, 0, n), Lowest(n), first \cup second)
  BY <1>2, <1>3, <1>4, <1>5, <1>7, <1>8, <1>9 DEF Replaces
<1>11. Gap' /\ PrivateInv' /\ RegionInv'
  BY <1>1, <1>10, ReplacedFrames
<1> QED
  BY <1>8, <1>11 DEF Kept

LEMMA WaitFrames ==
  ASSUME FInv, NEW p \in Proc, Wait(p), ~stale', ~overran'
  PROVE  Kept'
<1>0. TypeOK /\ CallInv /\ LoadInv /\ ~stale /\ ~overran
  BY DEF FInv, AInv, IInv, Wait, kernel
<1>1. /\ TypeOK /\ CallInv /\ CountedUsers /\ Gap /\ PrivateInv /\ RegionInv
  BY <1>0 DEF FInv, AInv, IInv, Kept
<1>2. PICK q \in Proc :
        /\ state[q] = "ZOMBIE" /\ Exact(q)
        /\ overran' = (overran \/ sz[p] > shmtop[q])
        /\ Kfree(freelist, Freevm(pgdir[q], sz[p]), FramesOf(LastOut(q)))
        /\ Decrease(q)
        /\ state' = [state EXCEPT ![q] = "UNUSED"]
        /\ sz' = [sz EXCEPT ![q] = 0]
        /\ pgdir' = [pgdir EXCEPT ![q] = Unmapped]
        /\ shmtop' = [shmtop EXCEPT ![q] = UserTop]
        /\ shmem_vaddr' = [shmem_vaddr EXCEPT ![q] = [k \in Key |-> None]]
        /\ UNCHANGED <<shmem_pages, call, loaded>>
  BY <1>0, Waiting
<1>3. Live(q) /\ Exact(q) /\ \A r \in Proc \ {q} : state'[r] = state[r]
  BY <1>2 DEF Live
<1>4. sz[p] \in Int /\ sz[p] <= shmtop[q]
  <2>1. sz[p] \in Nat /\ shmtop[q] \in Nat
    BY <1>1, Basics
  <2>2. ~(sz[p] > shmtop[q])
    BY <1>2, Zenon
  <2> QED
    BY <2>1, <2>2
<1>5. PICK first, second : first = Freevm(pgdir[q], sz[p]) /\ second = FramesOf(LastOut(q))
  OBVIOUS
<1>6. /\ first \subseteq Frame \ freelist /\ second \subseteq Frame \ freelist
      /\ first \cap second = {}
      /\ \A f \in first \cup second :
           \/ \E a \in Va : Owns(q, a) /\ f = pgdir[q][a]
           \/ \E k \in LastOut(q), i \in Index : Holds(k, i) /\ f = shmem_paddr[k][i]
  BY <1>1, <1>3, <1>4, <1>5, TornDown
<1>7. phase' = "up" /\ freelist' = freelist \cup first \cup second
  <2>1. freelist \in SUBSET freelist /\ freelist \in SUBSET Frame
    BY <1>1, Basics
  <2> QED
    BY <1>2, <1>5, <1>6, <2>1, KfreeSound
<1>8. /\ Unmapped \in [Va -> Entry]
      /\ \A a \in Va : ~(a < 0) /\ Unmapped[a] = None
  BY DEF Unmapped, Entry, Va
<1>9. freelist' = (freelist \ {}) \cup (first \cup second)
  BY <1>7
<1>10. Replaces(q, 0, Unmapped, {}, first \cup second)
  BY <1>2, <1>3, <1>6, <1>8, <1>9 DEF Replaces
<1>11. Gap' /\ PrivateInv' /\ RegionInv'
  BY <1>1, <1>10, ReplacedFrames
<1> QED
  BY <1>7, <1>11 DEF Kept

LEMMA GrowFrames ==
  ASSUME FInv, NEW p \in Proc, Grow(p), ~stale', ~overran'
  PROVE  Kept'
<1>1. /\ TypeOK /\ phase # "corrupt" /\ Gap /\ PrivateInv /\ RegionInv
  BY DEF FInv, AInv, IInv, Kept, Grow, kernel
<1>2. /\ state[p] = "RUNNABLE" /\ sz[p] + 1 <= shmtop[p]
      /\ Lowest(1) \subseteq freelist /\ freelist' = freelist \ Lowest(1)
      /\ pgdir' = [pgdir EXCEPT ![p] = Filled(pgdir[p], sz[p], 1)]
      /\ \A a \in Va : a = sz[p] => pgdir'[p][a] \in Lowest(1)
      /\ \A a \in Va : a # sz[p] => pgdir'[p][a] = pgdir[p][a]
      /\ sz' = [sz EXCEPT ![p] = sz[p] + 1]
      /\ UNCHANGED <<state, parent, shmtop, shmem_vaddr, region, kernel, overran, phase>>
  BY <1>1, Growing
<1>3. /\ sz'[p] = sz[p] + 1 /\ Live(p) /\ sz[p] \in Nat
      /\ \A q \in Proc \ {p} : sz'[q] = sz[q] /\ pgdir'[q] = pgdir[q]
      /\ \A q \in Proc : Live(q)' <=> Live(q)
  BY <1>1, <1>2, Basics DEF TypeOK, Live
<1>4. \A a \in Va : /\ a < sz'[p] => a < sz[p] \/ a = sz[p]
                    /\ sz'[p] <= a => sz[p] <= a /\ a # sz[p]
  BY <1>3 DEF Va
<1>6. Gap'
  BY <1>1, <1>2, <1>3, <1>4 DEF Gap
<1>7. PrivateInv' /\ RegionInv'
  <2>1. ASSUME NEW q \in Proc, NEW a \in Va, Owns(q, a)'
        PROVE  \/ q = p /\ a = sz[p] /\ pgdir'[q][a] \in Lowest(1)
               \/ Owns(q, a) /\ pgdir'[q][a] = pgdir[q][a]
    <3>1. CASE q = p
      <4>1. CASE a = sz[p]
        BY <1>2, <3>1, <4>1
      <4>2. CASE a # sz[p]
        BY <1>2, <1>3, <1>4, <2>1, <3>1, <4>2 DEF Owns
      <4> QED
        BY <4>1, <4>2
    <3>2. CASE q # p
      BY <1>3, <2>1, <3>2 DEF Owns
    <3> QED
      BY <3>1, <3>2
  <2>2. \A k \in Key, i \in Index : Holds(k, i)' =>
          Holds(k, i) /\ shmem_paddr'[k][i] = shmem_paddr[k][i]
    BY <1>2 DEF Holds, region
  <2>3. \A a, b \in Va :
          /\ Owns(p, a)' /\ Owns(p, b)'
          /\ pgdir'[p][a] \in Lowest(1) /\ pgdir'[p][a] = pgdir'[p][b]
          => a = b
    BY <1>1, <1>2, <2>1 DEF PrivateInv
  <2>4. Handover(p, p, Lowest(1), {}, {})
    BY <1>2, <2>1, <2>2, <2>3 DEF Handover
  <2> QED
    BY <1>1, <2>4, FramesKept
<1> QED
  BY <1>1, <1>2, <1>6, <1>7 DEF Kept

LEMMA ShrinkFrames ==
  ASSUME FInv, NEW p \in Proc, Shrink(p), ~stale', ~overran'
  PROVE  Kept'
<1>1. /\ TypeOK /\ Image /\ Gap /\ PrivateInv /\ RegionInv
  BY DEF FInv, AInv, IInv, Kept, Shrink, kernel
<1>2. /\ state[p] = "RUNNABLE" /\ sz[p] > 1 /\ sz[p] - 1 \in Va
      /\ Kfree(freelist, {pgdir[p][sz[p] - 1]}, {})
      /\ \A q \in Proc \ {p} : pgdir'[q] = pgdir[q]
      /\ \A a \in Va : pgdir'[p][a] = IF a = sz[p] - 1 THEN None ELSE pgdir[p][a]
      /\ sz' = [sz EXCEPT ![p] = sz[p] - 1]
      /\ UNCHANGED <<state, parent, shmtop, shmem_vaddr, region, kernel, overran>>
  BY <1>1, Shrinking
<1>3. /\ sz'[p] = sz[p] - 1 /\ Live(p) /\ sz[p] \in Nat
      /\ \A q \in Proc \ {p} : sz'[q] = sz[q]
      /\ \A q \in Proc : Live(q)' <=> Live(q)
  BY <1>1, <1>2, Basics DEF TypeOK, Live
<1>4. \A a \in Va : /\ a < sz'[p] => a < sz[p] /\ a # sz[p] - 1
                    /\ sz'[p] <= a => sz[p] <= a \/ a = sz[p] - 1
  BY <1>3 DEF Va
<1>5. Owns(p, sz[p] - 1)
  BY <1>3 DEF Owns
<1>6. PICK f : f = pgdir[p][sz[p] - 1]
  OBVIOUS
<1>7. f \in Frame \ freelist
  BY <1>1, <1>2, <1>5, <1>6 DEF PrivateInv
<1>8. phase' = "up" /\ freelist' = freelist \cup {f}
  <2>1. /\ freelist \in SUBSET freelist /\ freelist \in SUBSET Frame
        /\ {f} \subseteq Frame \ freelist /\ {} \subseteq Frame \ freelist /\ {f} \cap {} = {}
    BY <1>1, <1>7, Basics
  <2>2. phase' = "up" /\ freelist' = freelist \cup {f} \cup {}
    BY <1>2, <1>6, <2>1, KfreeSound
  <2> QED
    BY <2>2
<1>10. Gap'
  BY <1>1, <1>2, <1>3, <1>4 DEF Gap
<1>11. PrivateInv' /\ RegionInv'
  <2>1. ASSUME NEW q \in Proc, NEW a \in Va, Owns(q, a)'
        PROVE  Owns(q, a) /\ pgdir'[q][a] = pgdir[q][a] /\ pgdir[q][a] # f
    <3>1. Owns(q, a) /\ pgdir'[q][a] = pgdir[q][a] /\ ~(q = p /\ a = sz[p] - 1)
      <4>1. CASE q = p
        BY <1>2, <1>3, <1>4, <2>1, <4>1 DEF Owns
      <4>2. CASE q # p
        BY <1>2, <1>3, <2>1, <4>2 DEF Owns
      <4> QED
        BY <4>1, <4>2
    <3> QED
      BY <1>1, <1>2, <1>5, <1>6, <3>1 DEF PrivateInv
  <2>2. \A k \in Key, i \in Index : Holds(k, i)' =>
          Holds(k, i) /\ shmem_paddr'[k][i] = shmem_paddr[k][i] /\ shmem_paddr[k][i] # f
    <3>1. \A k \in Key, i \in Index : Holds(k, i)' =>
            Holds(k, i) /\ shmem_paddr'[k][i] = shmem_paddr[k][i]
      BY <1>2 DEF Holds, region
    <3> QED
      BY <1>1, <1>2, <1>5, <1>6, <3>1 DEF RegionInv
  <2>3. Handover(p, p, {}, {}, {f})
    BY <1>7, <1>8, <2>1, <2>2 DEF Handover
  <2> QED
    BY <1>1, <2>3, FramesKept
<1> QED
  BY <1>8, <1>10, <1>11 DEF Kept

LEMMA ExecFailsFrames ==
  ASSUME FInv, NEW p \in Proc, ExecFails(p), ~stale', ~overran'
  PROVE  Kept'
<1>1. /\ TypeOK /\ Gap /\ PrivateInv /\ RegionInv
  BY DEF FInv, AInv, IInv, Kept, ExecFails, kernel
<1>2. PICK n \in 1 .. MaxSize :
        /\ n <= Cardinality(freelist)
        /\ Kfree(freelist \ Lowest(n), Freevm(Filled(Unmapped, 0, n), sz[p]), {})
  BY DEF ExecFails
<1>3. PICK first : first = Freevm(Filled(Unmapped, 0, n), sz[p])
  OBVIOUS
<1>4. first \subseteq Lowest(n) /\ Lowest(n) \subseteq freelist
  <2>1. /\ \A a \in Va : a < n => Filled(Unmapped, 0, n)[a] \in Lowest(n)
        /\ \A a \in Va : ~(a < n) => Filled(Unmapped, 0, n)[a] = None
    BY <1>1, <1>2, NewImage
  <2> QED
    BY <1>3, <2>1 DEF Freevm, Below, Lowest
<1>5. phase' = "up" /\ freelist' = (freelist \ Lowest(n)) \cup first \cup {}
  <2>1. /\ freelist \ Lowest(n) \in SUBSET freelist /\ freelist \in SUBSET Frame
        /\ first \subseteq Frame \ (freelist \ Lowest(n))
        /\ {} \subseteq Frame \ (freelist \ Lowest(n)) /\ first \cap {} = {}
    BY <1>1, <1>4, Basics
  <2> QED
    BY <1>2, <1>3, <2>1, KfreeSound
<1>6. freelist' \subseteq freelist
  BY <1>4, <1>5
<1>7. UNCHANGED <<state, space, region>>
  BY DEF ExecFails
<1>8. Gap' /\ PrivateInv' /\ RegionInv'
  BY <1>1, <1>6, <1>7, FramesStay DEF Live, region
<1> QED
  BY <1>5, <1>8 DEF Kept

LEMMA NextFInv ==
  ASSUME FInv, [Next]_vars
  PROVE  FInv'
<1>1. AInv' /\ AInv /\ TypeOK
  BY NextAInv DEF FInv, AInv, IInv
<1> SUFFICES ASSUME ~stale', ~overran' PROVE Kept'
  BY <1>1 DEF FInv
<1>2. CASE UNCHANGED vars
  <2>1. Kept /\ UNCHANGED <<space, shmem_count, shmem_pages, shmem_paddr, state>>
        /\ freelist' = freelist /\ phase' = phase
    BY <1>2 DEF FInv, vars, region, kernel
  <2> QED
    BY <1>1, <2>1, FramesStay DEF Kept, Live
<1>3. CASE Next
  <2>1. PICK p \in Proc :
          \/ ShmCheck(p) \/ LoadCount(p) \/ ShmAttach(p)
          \/ Fork(p) \/ ForkFails(p) \/ Exec(p) \/ ExecFails(p)
          \/ Grow(p) \/ Shrink(p) \/ Exit(p) \/ Wait(p)
    BY <1>3 DEF Next
  <2>2. CASE ShmCheck(p) \/ LoadCount(p) \/ Exit(p)
    <3>1. /\ UNCHANGED <<space, shmem_count, shmem_pages, shmem_paddr>>
          /\ freelist' \subseteq freelist /\ phase' = phase
          /\ UNCHANGED <<stale, overran>>
      BY <2>2 DEF ShmCheck, LoadCount, Exit, region, kernel
    <3>2. \A q \in Proc : Live(q)' => Live(q)
      <4>1. CASE ShmCheck(p) \/ LoadCount(p)
        BY <4>1 DEF ShmCheck, LoadCount, Live
      <4>2. CASE Exit(p)
        BY <4>2 DEF Exit, User, Ready, Live
      <4> QED
        BY <2>2, <4>1, <4>2
    <3>3. Kept
      BY <3>1 DEF FInv
    <3> QED
      BY <1>1, <3>1, <3>2, <3>3, FramesStay DEF Kept
  <2>3. CASE ShmAttach(p) /\ call' = call
    <3>1. /\ UNCHANGED <<state, space, shmem_count, shmem_pages, shmem_paddr>>
          /\ freelist' \subseteq freelist /\ phase' # "corrupt"
          /\ UNCHANGED <<stale, overran>>
      BY <1>1, <2>3, AttachPanics DEF region, kernel
    <3>2. Kept
      BY <3>1 DEF FInv
    <3> QED
      BY <1>1, <3>1, <3>2, FramesStay DEF Kept, Live
  <2>4. CASE ForkFails(p)
    <3>1. /\ UNCHANGED <<state, space, shmem_pages, shmem_paddr, overran, phase>>
          /\ freelist' \subseteq freelist /\ Live(p) /\ Stores(p, {})
          /\ shmem_count' = [k \in Key |-> Increase(k, p)]
      BY <2>4 DEF ForkFails, Ready, Live
    <3>2. ~stale /\ Exact(p)
      BY <1>1, <3>1, Counts
    <3>3. Kept /\ CountedUsers
      BY <1>1, <3>1, <3>2 DEF FInv, AInv, IInv
    <3>4. ASSUME NEW k \in Key, shmem_count'[k] # 0
          PROVE  shmem_count[k] # 0
      BY <1>1, <3>1, <3>2, <3>3, <3>4, Increased, AttachedCounted
    <3> QED
      BY <1>1, <3>1, <3>3, <3>4, FramesStay DEF Kept, Live
  <2>5. CASE ShmAttach(p) /\ call' # call
    BY <2>5, AttachFrames
  <2>6. CASE Fork(p)
    BY <2>6, ForkFrames
  <2>7. CASE Exec(p) \/ ExecFails(p)
    BY <2>7, ExecFrames, ExecFailsFrames
  <2>8. CASE Grow(p) \/ Shrink(p)
    BY <2>8, GrowFrames, ShrinkFrames
  <2>9. CASE Wait(p)
    BY <2>9, WaitFrames
  <2> QED
    BY <2>1, <2>2, <2>3, <2>4, <2>5, <2>6, <2>7, <2>8, <2>9
<1> QED
  BY <1>2, <1>3

LEMMA InitFInv == Init => FInv
<1> SUFFICES ASSUME Init PROVE FInv
  OBVIOUS
<1>1. AInv /\ phase # "corrupt" /\ TypeOK
  BY InitAInv DEF Init, AInv, IInv
<1>4. /\ \A p \in Proc : Live(p) <=> p = Initproc
      /\ sz[Initproc] = 1 /\ pgdir[Initproc] = [Unmapped EXCEPT ![0] = 1]
      /\ freelist = Frame \ {1} /\ 1 \in Frame
      /\ \A a \in Va : (a < 1 <=> a = 0) /\ (1 <= a <=> a # 0)
  BY ConstantAssumption DEF Init, Live, Initproc, Proc, Frame, Va
<1>5. Gap
  BY <1>4 DEF Gap, Unmapped
<1>6. \A p \in Proc, a \in Va : Owns(p, a) => p = Initproc /\ a = 0 /\ pgdir[p][a] = 1
  BY <1>4 DEF Owns, Unmapped
<1>7. PrivateInv
  BY <1>4, <1>6 DEF PrivateInv
<1>8. RegionInv
  BY DEF RegionInv, Holds, Init
<1> QED
  BY <1>1, <1>5, <1>7, <1>8 DEF FInv, Kept

\* Whatever a page table maps is a page of the image or heap, or of a region.
LEMMA MappedPages ==
  ASSUME FInv, ~stale, ~overran, NEW p \in Proc, Live(p), NEW a \in Va, pgdir[p][a] # None
  PROVE  \/ Owns(p, a)
         \/ \E k \in Key, i \in Index : Holds(k, i) /\ pgdir[p][a] = shmem_paddr[k][i]
<1>1. TypeOK /\ CountedUsers /\ Gap /\ AlikeAt(p)
  BY DEF FInv, AInv, IInv, Kept, Alike
<1>2. sz[p] \in Nat /\ shmtop[p] \in Nat /\ a \in Nat /\ UserTop \in Nat
  BY <1>1, Basics DEF Va
<1>3. CASE a < shmtop[p]
  BY <1>1, <1>2, <1>3 DEF Gap, Owns
<1>4. CASE ~(a < shmtop[p])
  <2>1. a \in shmtop[p] .. UserTop - 1
    BY <1>2, <1>4 DEF Va
  <2>2. PICK k \in Attached(p) : a \in Extent(p, k)
    BY <1>1, <2>1 DEF AlikeAt
  <2>3. /\ k \in Key /\ shmem_vaddr[p][k] \in Nat /\ shmem_pages[k] \in Nat
        /\ shmem_count[k] # 0 /\ \A i \in 0 .. shmem_pages[k] - 1 : i \in Index
    BY <1>1, Extents, AttachedCounted
  <2>4. PICK i : i = shmem_vaddr[p][k] + shmem_pages[k] - 1 - a
    OBVIOUS
  <2>5. /\ i \in 0 .. shmem_pages[k] - 1
        /\ shmem_vaddr[p][k] + shmem_pages[k] - 1 - i = a
    BY <1>2, <2>2, <2>3, <2>4 DEF Extent
  <2>6. pgdir[p][a] = shmem_paddr[k][i]
    BY <1>1, <2>5 DEF AlikeAt
  <2>7. i \in Index /\ Holds(k, i)
    BY <2>3, <2>5 DEF Holds
  <2> QED
    BY <2>3, <2>6, <2>7
<1> QED
  BY <1>3, <1>4

\* An image of sz pages is sz different frames.
LEMMA PrivateCardinality ==
  ASSUME FInv, ~stale, ~overran, NEW p \in Proc, Live(p)
  PROVE  Cardinality(Private(p)) = sz[p]
<1>1. TypeOK /\ Image /\ PrivateInv
  BY DEF FInv, AInv, IInv, Kept
<1>2. PICK n \in Nat : n = sz[p]
  BY <1>1, Basics
<1>3. \A a \in 0 .. n - 1 : a \in Va /\ a < sz[p] /\ Owns(p, a)
  <2>1. sz[p] <= UserTop
    BY <1>1, Basics DEF Image
  <2> QED
    BY <1>1, <1>2, <2>1, Basics DEF Va, Owns
<1>4. \A a \in Va : a < sz[p] => a \in 0 .. n - 1 /\ pgdir[p][a] # None
  BY <1>1, <1>2 DEF Va, Image
<1> DEFINE f == [a \in 0 .. n - 1 |-> pgdir[p][a]]
<1>5. f \in [0 .. n - 1 -> Private(p)]
  BY <1>3, <1>4 DEF Private, Below
<1>6. \A a, b \in 0 .. n - 1 : f[a] = f[b] => a = b
  BY <1>1, <1>3 DEF PrivateInv
<1>7. \A x \in Private(p) : \E a \in 0 .. n - 1 : f[a] = x
  BY <1>4 DEF Private, Below
<1> HIDE DEF f
<1>8. f \in Bijection(0 .. n - 1, Private(p))
  BY <1>5, <1>6, <1>7 DEF Bijection, Injection, IsInjective, Surjection
<1>9. ExistsBijection(0 .. n - 1, Private(p))
  BY <1>8 DEF ExistsBijection
<1>10. IsFiniteSet(0 .. n - 1) /\ Cardinality(0 .. n - 1) = n
  <2>1. PICK m \in Int : m = n - 1
    OBVIOUS
  <2>2. /\ IsFiniteSet(0 .. m)
        /\ Cardinality(0 .. m) = IF 0 > m THEN 0 ELSE m - 0 + 1
    BY FS_Interval
  <2> QED
    BY <2>1, <2>2
<1>11. Cardinality(0 .. n - 1) = Cardinality(Private(p))
  BY <1>9, <1>10, FS_Bijection
<1> QED
  BY <1>2, <1>10, <1>11

\* No process reaches memory that is not its own, and no frame is freed twice
\* or in use, the kernel preempted or not, until a call has acted on a count that
\* had changed under it or wait() has gone by the size of a parent larger than
\* the addresses below its child's regions.
THEOREM IsolatedElseHolds == Spec => []IsolatedElse
<1>1. Init => FInv
  BY InitFInv
<1>2. FInv /\ [Next]_vars => FInv'
  BY NextFInv
<1>3. FInv => IsolatedElse
  <2> SUFFICES ASSUME FInv, ~stale, ~overran, NEW p \in Proc, Live(p)
               PROVE  /\ Below(pgdir[p], UserTop) \cap (freelist \cup {0}) = {}
                      /\ Cardinality(Private(p)) = sz[p]
                      /\ \A q \in Proc \ {p} : Live(q) =>
                           Private(p) \cap Below(pgdir[q], UserTop) = {}
    BY DEF IsolatedElse, Isolated, FInv, Kept
  <2>1. PrivateInv /\ RegionInv /\ 0 \notin Frame
    BY DEF FInv, Kept, Frame
  <2>2. Below(pgdir[p], UserTop) \cap (freelist \cup {0}) = {}
    <3> SUFFICES ASSUME NEW a \in Va, pgdir[p][a] # None
                 PROVE  pgdir[p][a] \in Frame \ freelist
      BY <2>1 DEF Below
    <3>1. CASE Owns(p, a)
      BY <2>1, <3>1 DEF PrivateInv
    <3>2. CASE ~Owns(p, a)
      <4>1. PICK k \in Key, i \in Index : Holds(k, i) /\ pgdir[p][a] = shmem_paddr[k][i]
        BY <3>2, MappedPages
      <4> QED
        BY <2>1, <4>1 DEF RegionInv
    <3> QED
      BY <3>1, <3>2
  <2>3. Cardinality(Private(p)) = sz[p]
    BY PrivateCardinality
  <2>4. ASSUME NEW q \in Proc \ {p}, Live(q)
        PROVE  Private(p) \cap Below(pgdir[q], UserTop) = {}
    <3> SUFFICES ASSUME NEW a \in Va, NEW b \in Va, a < sz[p], pgdir[q][b] # None,
                        pgdir[p][a] = pgdir[q][b]
                 PROVE  FALSE
      BY DEF Private, Below
    <3>1. Owns(p, a)
      BY DEF Owns
    <3>2. CASE Owns(q, b)
      BY <2>1, <3>1, <3>2 DEF PrivateInv
    <3>3. CASE ~Owns(q, b)
      <4>1. PICK k \in Key, i \in Index : Holds(k, i) /\ pgdir[q][b] = shmem_paddr[k][i]
        BY <2>4, <3>3, MappedPages
      <4> QED
        BY <2>1, <3>1, <4>1 DEF RegionInv
    <3> QED
      BY <3>2, <3>3
  <2> QED
    BY <2>2, <2>3, <2>4
<1> QED
  BY <1>1, <1>2, <1>3, PTL DEF Spec
==============================================================================
