------------------------------- MODULE Inodes -------------------------------
(***************************************************************************)
(* Inodes, directories and paths of xv6: fs.c from ialloc to namex, and    *)
(* the calls of sysfile.c that change the tree or hold inodes (open,       *)
(* mkdir, unlink, link, chdir, close) of p3b/xv6/kernel; the other copies  *)
(* have the same code.                                                     *)
(*                                                                         *)
(* Steps are cut where a process waits for an inode's I_BUSY flag and      *)
(* around the freeing of an inode: what it does while it holds the flags   *)
(* of inodes is seen by nobody else, and dropping a reference that is not  *)
(* the last one matters to nobody else.  Every change of an inode is       *)
(* followed by iupdate() under the same flag, so the disk's and the        *)
(* cache's copies are one variable here.  Left out are file contents, the  *)
(* entry ".", mknod, fork and exit, and the limit of the inode cache.      *)
(***************************************************************************)
EXTENDS Integers, Sequences, FiniteSets

CONSTANTS Procs, None,
          Names,      \* names of entries besides "." and ".."
          NInodes,    \* inodes on the disk, the first is the root
          MaxLinks,   \* bound: links of a file
          Paths,      \* for each call the paths it is used with, see IsPath
          NewPaths    \* the second paths link is used with

ASSUME DiskAssumption == NInodes \in Nat /\ NInodes > 1 /\ MaxLinks \in Nat /\ ".." \notin Names
ASSUME NameAssumption == None \notin Procs /\ IsFiniteSet(Procs) /\ IsFiniteSet(Names)

Calls == {"open", "create", "mkdir", "unlink", "link", "chdir"}
IsPath(q) == /\ q.abs \in BOOLEAN
             /\ q.names \in Seq(Names \cup {".."})
ASSUME PathAssumption == /\ \A call \in Calls : \A q \in Paths[call] : IsPath(q)
                         /\ \A q \in NewPaths : IsPath(q)

VARIABLES
  type, nlink, ents,   \* struct dinode; ents maps a directory's names to inodes, 0 for none
  ref,                 \* references to the cached inode
  busy,                \* the process that has set I_BUSY
  cwd, fd,             \* per process: current directory, the one open file (0 for none)
  proc,                \* what each process does, see Process
  panic,               \* the message of a panic, or "none"
  lost,                \* history: entries of each inode that went with their directory
  dangling             \* history: an inode was freed that is still in use, see Itrunc

vars == <<type, nlink, ents, ref, busy, cwd, fd, proc, panic, lost, dangling>>
tree == <<type, nlink, ents>>
-----------------------------------------------------------------------------
Inums == 1..NInodes
Root == 1
Links == Names \cup {".."}
NoEntries == [n \in Links |-> 0]
Places == {"user", 
           "walk",               \* in the loop of namex
           "found",              \* namex has returned cur
           "exists", "ialloc", "init",   \* in create: name found; new inode; ilock(ip)
           "child", "drop",      \* in unlink: ilock(ip); after the entry is erased
           "bad"}                \* in link, at the label bad
(* cur, path and ip are variables of the code.  put and later are inodes   *)
(* whose last reference is still to be dropped, in this order, and freeing *)
(* is how far iput has got in freeing put.                                 *)
Process == [pc : Places, call : Calls, cur : Inums \cup {0}, path : Seq(Links), ip : Inums \cup {0},
            put : Inums \cup {0}, later : Inums \cup {0}, freeing : {"no", "itrunc", "flags"}]
Idle == [pc |-> "user", call |-> "open", cur |-> 0, path |-> <<>>, ip |-> 0, 
         put |-> 0, later |-> 0, freeing |-> "no"]

Init == /\ type  = [i \in Inums |-> IF i = Root THEN "dir" ELSE "free"]
        /\ nlink = [i \in Inums |-> IF i = Root THEN 1 ELSE 0]
        /\ ents  = [i \in Inums |-> IF i = Root THEN [NoEntries EXCEPT ![".."] = Root] ELSE NoEntries]
        /\ ref   = [i \in Inums |-> IF i = Root THEN Cardinality(Procs) ELSE 0]
        /\ busy  = [i \in Inums |-> None]
        /\ cwd   = [p \in Procs |-> Root]
        /\ fd    = [p \in Procs |-> 0]
        /\ proc  = [p \in Procs |-> Idle]
        /\ panic = "none"
        /\ lost  = [i \in Inums |-> 0]
        /\ dangling = FALSE
-----------------------------------------------------------------------------
(* A process goes on when it has no reference to drop first.               *)
At(p, pc) == panic = "none" /\ proc[p].pc = pc /\ proc[p].put = 0

(* ilock(i), up to the end of the critical section. *)
CanLock(i) == busy[i] = None
Panics(message) == panic' = message /\ UNCHANGED <<tree, ref, busy, cwd, fd, proc, lost, dangling>>

NoType(i) == type[i] = "free" /\ Panics("ilock: no type")

Get(i) == [ref EXCEPT ![i] = @ + 1]

(* iput of the inodes a and b (0 for none), with the references refs: an   *)
(* inode whose last reference is dropped and that has no links has to be   *)
(* freed first, which are steps of their own.  r is the process's record   *)
(* afterwards.                                                             *)
LastRefLinks(refs, links, i) == links[i] = 0
LastRef(refs, links, i) == refs[i] = 1 /\ links[i] = 0
Drops(p, a, b, refs, r) ==
  LET last(i) == i # 0 /\ (a = b \/ LastRef(refs, nlink', i))
  IN /\ ref' = [i \in Inums |-> IF i \in {a, b} /\ ~last(i) THEN refs[i] - 1 ELSE refs[i]]
     /\ proc' = [proc EXCEPT ![p] = [r EXCEPT !.put = IF last(a) THEN a ELSE IF last(b) THEN b ELSE 0,
                                              !.later = IF last(a) /\ last(b) THEN b ELSE 0]]
Return(p, a, b) == Drops(p, a, b, ref, Idle)

Parent(call) == call \in {"create", "mkdir", "unlink"}
StopsEarly(p) == Parent(proc[p].call) \/ (proc[p].call = "link" /\ proc[p].ip # 0)
Start(p, path) == IF path.abs THEN Root ELSE cwd[p]

(* A failed namex ends the call, except that link then takes back its      *)
(* count.                                                                  *)
GoesBad(p, i) == Drops(p, i, 0, ref, [proc[p] EXCEPT !.pc = "bad", !.cur = 0, !.path = <<>>])
NamexFails(p, i) == IF proc[p].ip # 0 THEN GoesBad(p, i) ELSE Return(p, i, 0)

(* namex returns at once where it starts when the path has no names ("/"), *)
(* but nameiparent fails then: such a call fails without any effect.       *)
AfterStart(path) == IF path.names = <<>> THEN "found" ELSE "walk"

Call(p) == /\ At(p, "user")
           /\ \E call \in Calls : \E path \in Paths[call] :
                /\ Parent(call) => path.names # <<>>
                /\ proc' = [proc EXCEPT ![p] = [Idle EXCEPT !.pc = AfterStart(path), !.call = call,
                                                            !.cur = Start(p, path), !.path = path.names]]
                /\ ref' = Get(Start(p, path))
           /\ UNCHANGED <<tree, busy, cwd, fd, panic, lost, dangling>>

Close(p) == /\ At(p, "user")
            /\ fd[p] # 0
            /\ fd' = [fd EXCEPT ![p] = 0]
            /\ UNCHANGED <<tree, busy, cwd, panic, lost, dangling>>
            /\ Return(p, fd[p], 0)

PutNext(r) == [r EXCEPT !.put = r.later, !.later = 0, !.freeing = "no"]

(* iput: the last reference to an inode without links frees it. *)
Iput(p) == 
  /\ panic = "none" /\ proc[p].put # 0 /\ proc[p].freeing = "no"
  /\ LET i == proc[p].put
     IN \/ /\ ~LastRef(ref, nlink, i)
           /\ ref' = [ref EXCEPT ![i] = @ - 1]
           /\ proc' = [proc EXCEPT ![p] = PutNext(@)]
           /\ UNCHANGED <<tree, busy, cwd, fd, panic, lost, dangling>>
        \/ /\ LastRef(ref, nlink, i) /\ CanLock(i)
           /\ busy' = [busy EXCEPT ![i] = p]
           /\ proc' = [proc EXCEPT ![p].freeing = "itrunc"]
           /\ UNCHANGED <<tree, ref, cwd, fd, panic, lost, dangling>>
        \/ /\ LastRef(ref, nlink, i) /\ ~CanLock(i)
           /\ Panics("iput busy")

(* Removed directories in use whose ".." still names i: from the freeing   *)
(* of i on they name a free inode, and later any new one.  And since i is  *)
(* freed without the lock of the cache, processes may come to i through    *)
(* such a ".." while it is being freed: they wait for its flag with a      *)
(* reference that iput does not look for again.                            *)
Orphans(i) == {j \in Inums \ {i} : ents[j][".."] = i}

(* itrunc and the iupdate that makes the inode free on the disk. *)
Lost(i) == [j \in Inums |-> lost[j] + Cardinality({n \in Names : ents[i][n] = j})]
Itrunc(p) == 
  /\ panic = "none" /\ proc[p].freeing = "itrunc"
  /\ LET i == proc[p].put
     IN /\ type' = [type EXCEPT ![i] = "free"]
        /\ ents' = [ents EXCEPT ![i] = NoEntries]
        /\ lost' = [Lost(i) EXCEPT ![i] = 0]
        /\ proc' = [proc EXCEPT ![p].freeing = "flags"]
        /\ dangling' = (dangling \/ Orphans(i) # {} \/ ref[i] # 1)
  /\ UNCHANGED <<nlink, ref, busy, cwd, fd, panic>>

IputReturns(p) ==
  /\ panic = "none" /\ proc[p].freeing = "flags"
  /\ LET i == proc[p].put
     IN /\ busy' = [busy EXCEPT ![i] = None]
        /\ ref' = [ref EXCEPT ![i] = @ - 1]
  /\ proc' = [proc EXCEPT ![p] = PutNext(@)]
  /\ UNCHANGED <<tree, cwd, fd, panic, lost, dangling>>
-----------------------------------------------------------------------------
(* One turn of the loop of namex. *)
AtLast(p) == Len(proc[p].path) = 1
Namex(p) ==
  /\ At(p, "walk")
  /\ CanLock(proc[p].cur)
  /\ LET i == proc[p].cur
         next == ents[i][Head(proc[p].path)]
     IN \/ NoType(i)
        \/ /\ type[i] = "file" \/ (type[i] = "dir" /\ ~(StopsEarly(p) /\ AtLast(p)) /\ next = 0)
           /\ UNCHANGED <<tree, busy, cwd, fd, panic, lost, dangling>>
           /\ NamexFails(p, i)
        \/ /\ type[i] = "dir" /\ StopsEarly(p) /\ AtLast(p)
           /\ proc' = [proc EXCEPT ![p].pc = "found"]
           /\ UNCHANGED <<tree, ref, busy, cwd, fd, panic, lost, dangling>>
        \/ /\ type[i] = "dir" /\ ~(StopsEarly(p) /\ AtLast(p)) /\ next # 0
           /\ UNCHANGED <<tree, busy, cwd, fd, panic, lost, dangling>>
           /\ Drops(p, i, 0, Get(next), [proc[p] EXCEPT !.pc = IF AtLast(p) THEN "found" ELSE "walk",
                                                         !.cur = next, !.path = Tail(@)])

(* In each of the calls: cur is what namex returned, now to be locked. *)
In(p, call, pc) == At(p, pc) /\ proc[p].call = call /\ CanLock(proc[p].cur)
LastName(p) == Head(proc[p].path)
Entry(p) == ents[proc[p].cur][LastName(p)]

OpenFileKept(p, i) == IF fd[p] = 0 THEN fd' = [fd EXCEPT ![p] = i] /\ Return(p, 0, 0)
                                   ELSE UNCHANGED fd /\ Return(p, 0, 0)
(* fdalloc fails when the process has its file open. *)
OpenFile(p, i) == IF fd[p] = 0 THEN fd' = [fd EXCEPT ![p] = i] /\ Return(p, 0, 0)
                               ELSE UNCHANGED fd /\ Return(p, i, 0)

(* open without O_CREATE; a directory may only be opened for reading. *)
Open(p) == /\ In(p, "open", "found")
           /\ LET i == proc[p].cur
              IN \/ NoType(i)
                 \/ /\ type[i] # "free"
                    /\ UNCHANGED <<tree, busy, cwd, panic, lost, dangling>>
                    /\ OpenFile(p, i)
                 \/ /\ type[i] = "dir"
                    /\ UNCHANGED <<tree, busy, cwd, fd, panic, lost, dangling>>
                    /\ Return(p, i, 0)

(* chdir: the old directory's reference is dropped. *)
Chdir(p) == /\ In(p, "chdir", "found")
            /\ LET i == proc[p].cur
               IN \/ NoType(i)
                  \/ /\ type[i] = "dir"
                     /\ cwd' = [cwd EXCEPT ![p] = i]
                     /\ UNCHANGED <<tree, busy, fd, panic, lost, dangling>>
                     /\ Return(p, cwd[p], 0)
                  \/ /\ type[i] = "file"
                     /\ UNCHANGED <<tree, busy, cwd, fd, panic, lost, dangling>>
                     /\ Return(p, i, 0)
-----------------------------------------------------------------------------
(* create, for open with O_CREATE and for mkdir. *)
Creates(p) == proc[p].call \in {"create", "mkdir"}

CreateLooks(p) ==
  /\ At(p, "found") /\ Creates(p) /\ CanLock(proc[p].cur)
  /\ LET d == proc[p].cur
     IN \/ /\ Entry(p) # 0
           /\ UNCHANGED <<tree, busy, cwd, fd, panic, lost, dangling>>
           /\ Drops(p, d, 0, Get(Entry(p)), [proc[p] EXCEPT !.pc = "exists", !.ip = Entry(p), 
                                                             !.cur = 0, !.path = <<>>])
        \/ /\ Entry(p) = 0
           /\ busy' = [busy EXCEPT ![d] = p]
           /\ proc' = [proc EXCEPT ![p].pc = "ialloc"]
           /\ UNCHANGED <<tree, ref, cwd, fd, panic, lost, dangling>>

CreateExists(p) ==
  /\ At(p, "exists") /\ CanLock(proc[p].ip)
  /\ LET i == proc[p].ip
     IN \/ NoType(i)
        \/ /\ type[i] = "file" /\ proc[p].call = "create"
           /\ UNCHANGED <<tree, busy, cwd, panic, lost, dangling>>
           /\ OpenFile(p, i)
        \/ /\ type[i] = "dir" \/ (type[i] = "file" /\ proc[p].call = "mkdir")
           /\ UNCHANGED <<tree, busy, cwd, fd, panic, lost, dangling>>
           /\ Return(p, i, 0)

(* ialloc takes the first free inode and marks it on the disk. *)
FreeInodes == {i \in Inums : type[i] = "free"}
NewType(p) == IF proc[p].call = "mkdir" THEN "dir" ELSE "file"
Ialloc(p) ==
  /\ At(p, "ialloc")
  /\ \/ FreeInodes = {} /\ Panics("ialloc: no inodes")
     \/ \E i \in FreeInodes :
          /\ \A j \in FreeInodes : i <= j
          /\ type' = [type EXCEPT ![i] = NewType(p)]
          /\ nlink' = [nlink EXCEPT ![i] = 0]
          /\ ref' = Get(i)
          /\ proc' = [proc EXCEPT ![p].pc = "init", ![p].ip = i]
          /\ UNCHANGED <<ents, busy, cwd, fd, panic, lost, dangling>>

(* The links of a new inode i named n in directory d. *)
Linked(i, d, n) ==
  IF type[i] = "dir"
  THEN /\ nlink' = [nlink EXCEPT ![i] = 1, ![d] = @ + 1]
       /\ ents' = [ents EXCEPT ![i][".."] = d, ![d][n] = i]
  ELSE /\ nlink' = [nlink EXCEPT ![i] = 1]
       /\ ents' = [ents EXCEPT ![d][n] = i]

CreateInit(p) ==
  /\ At(p, "init") /\ CanLock(proc[p].ip)
  /\ LET i == proc[p].ip
         d == proc[p].cur
     IN /\ Linked(i, d, LastName(p))
        /\ busy' = [busy EXCEPT ![d] = None]
        /\ IF proc[p].call = "create" /\ fd[p] = 0
           THEN fd' = [fd EXCEPT ![p] = i] /\ Return(p, d, 0)
           ELSE UNCHANGED fd /\ Return(p, d, i)
  /\ UNCHANGED <<type, cwd, panic, lost, dangling>>
-----------------------------------------------------------------------------
(* unlink: the directory stays locked while the process waits for the      *)
(* inode the entry names.                                                  *)
NoneProtected(n) == FALSE
Protected(n) == n = ".."

UnlinkLooks(p) ==
  /\ In(p, "unlink", "found")
  /\ LET d == proc[p].cur
     IN \/ /\ Protected(LastName(p)) \/ Entry(p) = 0
           /\ UNCHANGED <<tree, busy, cwd, fd, panic, lost, dangling>>
           /\ Return(p, d, 0)
        \/ /\ ~Protected(LastName(p)) /\ Entry(p) # 0
           /\ busy' = [busy EXCEPT ![d] = p]
           /\ ref' = Get(Entry(p))
           /\ proc' = [proc EXCEPT ![p].pc = "child", ![p].ip = Entry(p)]
           /\ UNCHANGED <<tree, cwd, fd, panic, lost, dangling>>

IsDirEmpty(i) == \A n \in Names : ents[i][n] = 0

ErasedUncounted(d, i, n) == 
  /\ ents' = [ents EXCEPT ![d][n] = 0]
  /\ nlink' = nlink
Erased(d, i, n) == 
  /\ ents' = [ents EXCEPT ![d][n] = 0]
  /\ nlink' = IF type[i] = "dir" THEN [nlink EXCEPT ![d] = @ - 1] ELSE nlink

UnlinkChild(p) ==
  /\ At(p, "child") /\ CanLock(proc[p].ip)
  /\ LET i == proc[p].ip
         d == proc[p].cur
     IN \/ NoType(i)
        \/ /\ type[i] # "free" /\ nlink[i] < 1
           /\ Panics("unlink: nlink < 1")
        \/ /\ type[i] = "dir" /\ nlink[i] >= 1 /\ ~IsDirEmpty(i)
           /\ busy' = [busy EXCEPT ![d] = None]
           /\ UNCHANGED <<tree, cwd, fd, panic, lost, dangling>>
           /\ Return(p, i, d)
        \/ /\ type[i] # "free" /\ nlink[i] >= 1 /\ (type[i] = "dir" => IsDirEmpty(i))
           /\ Erased(d, i, LastName(p))
           /\ busy' = [busy EXCEPT ![d] = None, ![i] = p]
           /\ UNCHANGED <<type, cwd, fd, panic, lost, dangling>>
           /\ Drops(p, d, 0, ref, [proc[p] EXCEPT !.pc = "drop", !.cur = 0, !.path = <<>>])

UnlinkDrops(p) ==
  /\ At(p, "drop")
  /\ LET i == proc[p].ip
     IN /\ nlink' = [nlink EXCEPT ![i] = @ - 1]
        /\ busy' = [busy EXCEPT ![i] = None]
        /\ UNCHANGED <<type, ents, cwd, fd, panic, lost, dangling>>
        /\ Return(p, i, 0)
-----------------------------------------------------------------------------
(* link: the inode is counted before its new entry is written. *)
LinkCounts(p) ==
  /\ In(p, "link", "found") /\ proc[p].ip = 0
  /\ LET i == proc[p].cur
     IN \/ NoType(i)
        \/ /\ type[i] = "dir"
           /\ UNCHANGED <<tree, busy, cwd, fd, panic, lost, dangling>>
           /\ Return(p, i, 0)
        \/ /\ type[i] = "file" /\ nlink[i] < MaxLinks
           /\ nlink' = [nlink EXCEPT ![i] = @ + 1]
           /\ \E path \in NewPaths :
                \/ /\ path.names # <<>>
                   /\ proc' = [proc EXCEPT ![p] = [@ EXCEPT !.pc = "walk", !.ip = i,
                                                            !.cur = Start(p, path), !.path = path.names]]
                   /\ ref' = Get(Start(p, path))
                \/ /\ path.names = <<>>
                   /\ proc' = [proc EXCEPT ![p] = [@ EXCEPT !.pc = "bad", !.ip = i, !.cur = 0]]
                   /\ ref' = ref
           /\ UNCHANGED <<type, ents, busy, cwd, fd, panic, lost, dangling>>

LinkEnters(p) ==
  /\ In(p, "link", "found") /\ proc[p].ip # 0
  /\ LET i == proc[p].ip
         d == proc[p].cur
     IN \/ /\ Entry(p) # 0
           /\ UNCHANGED <<tree, busy, cwd, fd, panic, lost, dangling>>
           /\ GoesBad(p, d)
        \/ /\ Entry(p) = 0
           /\ ents' = [ents EXCEPT ![d][LastName(p)] = i]
           /\ UNCHANGED <<type, nlink, busy, cwd, fd, panic, lost, dangling>>
           /\ Return(p, d, i)

LinkBad(p) ==
  /\ At(p, "bad") /\ CanLock(proc[p].ip)
  /\ nlink' = [nlink EXCEPT ![proc[p].ip] = @ - 1]
  /\ UNCHANGED <<type, ents, busy, cwd, fd, panic, lost, dangling>>
  /\ Return(p, proc[p].ip, 0)
-----------------------------------------------------------------------------
Continue(p) == \/ Iput(p) \/ Itrunc(p) \/ IputReturns(p) \/ Namex(p)
               \/ Open(p) \/ Chdir(p) 
               \/ CreateLooks(p) \/ CreateExists(p) \/ Ialloc(p) \/ CreateInit(p)
               \/ UnlinkLooks(p) \/ UnlinkChild(p) \/ UnlinkDrops(p)
               \/ LinkCounts(p) \/ LinkEnters(p) \/ LinkBad(p)

Next == \E p \in Procs : Call(p) \/ Close(p) \/ Continue(p)

Spec == Init /\ [][Next]_vars
-----------------------------------------------------------------------------
Messages == {"none", "ilock: no type", "iput busy", "ialloc: no inodes", "unlink: nlink < 1"}
TypeOK == /\ type \in [Inums -> {"free", "file", "dir"}]
          /\ nlink \in [Inums -> Int]
          /\ ents \in [Inums -> [Links -> Inums \cup {0}]]
          /\ ref \in [Inums -> Nat]
          /\ busy \in [Inums -> Procs \cup {None}]
          /\ cwd \in [Procs -> Inums] /\ fd \in [Procs -> Inums \cup {0}]
          /\ proc \in [Procs -> Process]
          /\ panic \in Messages
          /\ lost \in [Inums -> Nat] /\ dangling \in BOOLEAN

(* Every reference that is counted is held by somebody and the other way   *)
(* round, in the middle of every call and on every failing path; and the   *)
(* counts and the inode numbers keep their types.                          *)
Holders(i) == Cardinality({p \in Procs : cwd[p] = i}) + Cardinality({p \in Procs : fd[p] = i})
            + Cardinality({p \in Procs : proc[p].cur = i}) + Cardinality({p \in Procs : proc[p].ip = i})
            + Cardinality({p \in Procs : proc[p].put = i}) + Cardinality({p \in Procs : proc[p].later = i})
RefExact == TypeOK /\ \A i \in Inums : ref[i] = Holders(i)

(* The link count of an inode is the number of its entries, and of the     *)
(* subdirectories for a directory; besides these it counts a link on its   *)
(* way to its entry, an entry erased but not yet discounted, and entries   *)
(* that a process made in a removed directory and that went with it.  Once *)
(* an inode in use was freed this is lost: through the ".." that still     *)
(* names it entries are made in the next inode while create sets it up.    *)
Entries(i) == Cardinality({x \in Inums \X Names : ents[x[1]][x[2]] = i})
Subdirs(i) == Cardinality({n \in Names : ents[i][n] # 0 /\ type[ents[i][n]] = "dir"})
Linking(i) == Cardinality({p \in Procs : proc[p].call = "link" /\ proc[p].ip = i})
Erasing(i) == Cardinality({p \in Procs : proc[p].pc = "drop" /\ proc[p].ip = i})
LinksCounted == \A i \in Inums : type[i] # "free" =>
  nlink[i] = Entries(i) + Subdirs(i) + Linking(i) + Erasing(i) + lost[i] + (IF i = Root THEN 1 ELSE 0)
LinkExact == ~dangling => LinksCounted

(* The inodes of open files and current directories are never freed under  *)
(* their users.  And up to the moment when an inode is freed that the ".." *)
(* of a removed directory names, or that a process has just come to        *)
(* through one, no entry of a directory, its ".." included, names a free   *)
(* inode, and the kernel panics only for want of inodes.                   *)
InUse == /\ \A p \in Procs : type[cwd[p]] = "dir" /\ (fd[p] # 0 => type[fd[p]] # "free")
         /\ ~dangling => /\ \A i \in Inums, n \in Links : ents[i][n] # 0 => type[ents[i][n]] # "free"
                         /\ panic \in {"none", "ialloc: no inodes"}

(* Inodes are locked from the top of the tree down, so no group of         *)
(* processes is stuck, each waiting for an inode that one of them holds.   *)
(* The tree is one up to the same moment.                                  *)
WantsLock(p) == IF proc[p].pc \in {"exists", "init", "child", "bad"} THEN proc[p].ip
                ELSE IF proc[p].pc \in {"walk", "found"} THEN proc[p].cur ELSE 0
Stuck(group) == \A p \in group : /\ proc[p].put = 0
                                 /\ WantsLock(p) # 0
                                 /\ busy[WantsLock(p)] \in group
NoDeadlock == ~dangling => \A group \in SUBSET Procs : Stuck(group) => group = {}

(* An inode is only truncated "after the last dirent referring to this     *)
(* inode has been erased on disk" (fs.c).  The ".." of a directory that is *)
(* removed but still in use is not erased.                                 *)
ErasedFirst == \A p \in Procs : proc[p].freeing = "itrunc" =>
  \A i \in Inums \ {proc[p].put}, n \in Links : ents[i][n] # proc[p].put

(* "inode is no longer used: truncate and free inode" (iput).  A process   *)
(* that walks through such a ".." takes a reference between the steps of   *)
(* iput, waits for the flag, and finds a free inode: ilock panics.         *)
FreedUnused == \A p \in Procs : proc[p].freeing = "itrunc" => ref[proc[p].put] = 1

(* What follows from it without ~dangling: the kernel does panic.          *)
Survives == panic \in {"none", "ialloc: no inodes"}
=============================================================================
