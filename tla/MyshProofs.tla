----------------------------- MODULE MyshProofs -----------------------------
(* Theorems about Mysh: for any number of pids and jobs, the job list never *)
(* loses a child, and mistakes a process only for a job already waited for. *)
EXTENDS Mysh, SequenceTheorems, TLAPS

Node == [jid : Jobs, pid : Pids]

TypeOK ==
  /\ joblist \in Seq(Node)
  /\ maxjid \in 0..MaxJobs
  /\ process \in [Pids -> [state : {"free", "foreign", "running", "zombie"},
                           jid : Jobs \cup {0}]]
  /\ pc \in {"prompt", "long", "spin", "purge", "wait", "exited"}
  /\ next \in Nat

\* Where the shell is in the list.
PlaceInv ==
  /\ pc = "wait" => next \in 1..Len(joblist)
  /\ pc = "purge" => next \in 1..Len(joblist) + 1

\* A pid with a jid is a child, and no jid above maxjid has been given out.
JidInv ==
  /\ \A pid \in Pids : /\ process[pid].jid # 0 <=> IsRunning(pid) \/ IsZombie(pid)
                       /\ process[pid].jid <= maxjid
  /\ \A i \in 1..Len(joblist) : joblist[i].jid <= maxjid

\* The job that has a pid is the last one in the list under this pid.
Newest ==
  \A i \in 1..Len(joblist) : process[joblist[i].pid].jid # 0 =>
    joblist[i].jid <= process[joblist[i].pid].jid

IInv == TypeOK /\ PlaceInv /\ JidInv /\ Newest /\ JobList
------------------------------------------------------------------------------
\* What is left of a sequence after removing one place.
LEMMA RemoveAtProperties ==
  ASSUME NEW S, NEW s \in Seq(S), NEW k \in 1..Len(s)
  PROVE  /\ RemoveAt(s, k) \in Seq(S)
         /\ Len(RemoveAt(s, k)) = Len(s) - 1
         /\ \A i \in 1..Len(s) - 1 :
              RemoveAt(s, k)[i] = IF i < k THEN s[i] ELSE s[i + 1]
<1> DEFINE a == SubSeq(s, 1, k - 1)
           b == SubSeq(s, k + 1, Len(s))
<1>0. Len(s) \in Nat
  BY LenProperties
<1>1. Len(s) \in Nat /\ \A i \in 1..Len(s) : s[i] \in S
  BY LenProperties, ElementOfSeq
<1>2. a \in Seq(S) /\ Len(a) = k - 1 /\ \A i \in 1..k - 1 : a[i] = s[i]
  BY <1>1, SubSeqProperties
<1>3. /\ b \in Seq(S) /\ Len(b) = Len(s) - k
      /\ \A i \in 1..Len(s) - k : b[i] = s[k + i]
  <2>1. /\ b \in Seq(S)
        /\ Len(b) = IF k + 1 <= Len(s) THEN Len(s) - (k + 1) + 1 ELSE 0
        /\ \A i \in 1..Len(s) - (k + 1) + 1 : b[i] = s[(k + 1) + i - 1]
    BY <1>1, SubSeqProperties
  <2> QED
    BY <1>1, <2>1
<1>4. /\ a \o b \in Seq(S)
      /\ Len(a \o b) = Len(a) + Len(b)
      /\ \A i \in 1..Len(a) + Len(b) : (a \o b)[i] = IF i <= Len(a) THEN a[i] ELSE b[i - Len(a)]
  BY <1>2, <1>3, ConcatProperties
<1> HIDE DEF a, b
<1>5. RemoveAt(s, k) = a \o b
  BY DEF RemoveAt, a, b
<1>6. ASSUME NEW i \in 1..Len(s) - 1
      PROVE  (a \o b)[i] = IF i < k THEN s[i] ELSE s[i + 1]
  <2>1. (a \o b)[i] = IF i <= k - 1 THEN a[i] ELSE b[i - (k - 1)]
    BY <1>1, <1>2, <1>3, <1>4
  <2>2. CASE i < k
    BY <1>1, <1>2, <2>1, <2>2
  <2>3. CASE i >= k
    <3>1. i - (k - 1) \in 1..Len(s) - k /\ k + (i - (k - 1)) = i + 1
      BY <1>1, <2>3
    <3> QED
      BY <1>1, <1>3, <2>1, <2>3, <3>1
  <2>4. i < k \/ i >= k
    BY <1>0
  <2> QED
    BY <2>2, <2>3, <2>4
<1>7. Len(a \o b) = Len(s) - 1
  BY <1>1, <1>2, <1>3, <1>4
<1> QED
  BY <1>4, <1>5, <1>6, <1>7

\* The parts of the invariant, with places written as numbers.
LEMMA Places ==
  ASSUME TypeOK
  PROVE  /\ Len(joblist) \in Nat
         /\ DOMAIN joblist = 1..Len(joblist)
         /\ maxjid \in Nat
         /\ \A i \in 1..Len(joblist) : /\ joblist[i] \in Node
                                       /\ joblist[i].jid \in Jobs /\ joblist[i].pid \in Pids
                                       /\ joblist[i].jid \in Nat \ {0}
                                       /\ joblist[i] = [jid |-> joblist[i].jid, pid |-> joblist[i].pid]
<1>1. Len(joblist) \in Nat /\ DOMAIN joblist = 1..Len(joblist)
  BY LenProperties DEF TypeOK
<1>2. maxjid \in Nat /\ Jobs \subseteq Nat \ {0}
  BY BoundAssumption DEF TypeOK, Jobs
<1>3. \A i \in 1..Len(joblist) : joblist[i] \in Node
  BY ElementOfSeq DEF TypeOK
<1>4. \A e \in Node : /\ e.jid \in Jobs /\ e.pid \in Pids
                      /\ e = [jid |-> e.jid, pid |-> e.pid]
  BY DEF Node
<1> QED
  BY <1>1, <1>2, <1>3, <1>4

LEMMA InitIInv == Init => IInv
<1> SUFFICES ASSUME Init PROVE IInv
  OBVIOUS
<1>1. Len(joblist) = 0 /\ DOMAIN joblist = {} /\ joblist \in Seq(Node)
  BY EmptySeq DEF Init
<1> QED
  BY <1>1, BoundAssumption
  DEF Init, IInv, TypeOK, PlaceInv, JidInv, Newest, JobList, Tracked, StaleWaited, Increasing,
      Free, IsRunning, IsZombie
------------------------------------------------------------------------------
\* The new job has the highest jid and a pid that was free.
LEMMA ExecuteStep ==
  ASSUME IInv, Execute
  PROVE  IInv'
<1> USE DEF IInv
<1>1. PICK pid \in Pids, background \in BOOLEAN :
        /\ process[pid] = Free
        /\ process' = [process EXCEPT ![pid] = Child("running", maxjid + 1)]
        /\ maxjid' = maxjid + 1
        /\ joblist' = Append(joblist, [jid |-> maxjid', pid |-> pid])
        /\ IF background THEN UNCHANGED <<pc, next>>
                         ELSE pc' = "wait" /\ next' = Len(joblist')
  BY DEF Execute
<1> DEFINE new == [jid |-> maxjid + 1, pid |-> pid]
           n == Len(joblist)
<1>2. maxjid + 1 \in Jobs /\ new \in Node /\ pc = "prompt" /\ UNCHANGED waited
  BY <1>1, BoundAssumption DEF Execute, TypeOK, Node, Jobs
<1>3. /\ joblist' \in Seq(Node) /\ Len(joblist') = n + 1 /\ n \in Nat
      /\ \A i \in 1..n : joblist'[i] = joblist[i]
      /\ joblist'[n + 1] = new
      /\ DOMAIN joblist' = 1..n + 1
  BY <1>1, <1>2, AppendProperties, LenProperties DEF TypeOK
<1>4. TypeOK'
  BY <1>1, <1>2, <1>3 DEF TypeOK, Child, Jobs
<1>5. PlaceInv'
  BY <1>1, <1>2, <1>3 DEF PlaceInv
<1>6. /\ \A q \in Pids : q # pid => process'[q] = process[q]
      /\ process'[pid] = Child("running", maxjid + 1)
  BY <1>1 DEF TypeOK
<1>7. JidInv'
  <2>1. \A q \in Pids : /\ process'[q].jid # 0 <=> process'[q].state \in {"running", "zombie"}
                        /\ process'[q].jid <= maxjid'
    BY <1>1, <1>2, <1>6 DEF JidInv, IsRunning, IsZombie, Child, TypeOK, Jobs
  <2>2. \A i \in 1..n + 1 : joblist'[i].jid <= maxjid'
    <3> SUFFICES ASSUME NEW i \in 1..n + 1 PROVE joblist'[i].jid <= maxjid'
      OBVIOUS
    <3>1. CASE i = n + 1
      BY <1>1, <1>3, <3>1 DEF TypeOK
    <3>2. CASE i \in 1..n
      <4>1. joblist[i].jid <= maxjid /\ joblist[i].jid \in Nat /\ maxjid \in Nat
        BY <3>2, Places DEF JidInv
      <4> QED
        BY <1>1, <1>3, <3>2, <4>1
    <3> QED
      BY <1>3, <3>1, <3>2
  <2> QED
    BY <1>3, <2>1, <2>2 DEF JidInv, IsRunning, IsZombie
<1>8. Newest'
  <2> SUFFICES ASSUME NEW i \in 1..n + 1, process'[joblist'[i].pid].jid # 0
               PROVE  joblist'[i].jid <= process'[joblist'[i].pid].jid
    BY <1>3 DEF Newest
  <2>1. CASE i = n + 1
    BY <1>2, <1>3, <1>6, <2>1, Places DEF Child
  <2>2. CASE i \in 1..n /\ joblist[i].pid = pid
    <3>1. joblist[i].jid <= maxjid /\ joblist[i].jid \in Nat /\ maxjid \in Nat
      BY <2>2, Places DEF JidInv
    <3>2. joblist'[i] = joblist[i] /\ process'[pid].jid = maxjid + 1
      BY <1>3, <1>6, <2>2 DEF Child
    <3> QED
      BY <2>2, <3>1, <3>2
  <2>3. CASE i \in 1..n /\ joblist[i].pid # pid
    BY <1>3, <1>6, <2>3, Places DEF Newest
  <2> QED
    BY <1>3, <2>1, <2>2, <2>3
<1>9. Tracked'
  <2> SUFFICES ASSUME NEW q \in Pids, process'[q].jid # 0
               PROVE  \E i \in 1..n + 1 : joblist'[i] = [jid |-> process'[q].jid, pid |-> q]
    BY <1>3 DEF Tracked
  <2>1. CASE q = pid
    BY <1>3, <1>6, <2>1 DEF Child
  <2>2. CASE q # pid
    BY <1>3, <1>6, <2>2, Places DEF JobList, Tracked
  <2> QED
    BY <2>1, <2>2
<1>10. StaleWaited'
  <2> SUFFICES ASSUME NEW i \in 1..n + 1
               PROVE  process'[joblist'[i].pid].jid = joblist'[i].jid \/ joblist'[i].jid \in waited'
    BY <1>3 DEF StaleWaited
  <2>1. CASE i = n + 1
    BY <1>3, <1>6, <2>1 DEF Child
  <2>2. CASE i \in 1..n
    <3>1. joblist'[i] = joblist[i] /\ joblist[i].pid \in Pids /\ joblist[i].jid # 0
      BY <1>3, <2>2, Places
    <3>2. process[joblist[i].pid].jid = joblist[i].jid \/ joblist[i].jid \in waited
      BY <1>2, <2>2, Places DEF JobList, StaleWaited
    <3> QED
      BY <1>1, <1>2, <1>6, <3>1, <3>2 DEF Free
  <2> QED
    BY <1>3, <2>1, <2>2
<1>11. Increasing'
  <2> SUFFICES ASSUME NEW i \in 1..n + 1, NEW j \in 1..n + 1, i < j
               PROVE  joblist'[i].jid < joblist'[j].jid
    BY <1>3 DEF Increasing
  <2>1. i \in 1..n /\ joblist'[i] = joblist[i] /\ joblist[i].jid <= maxjid
    BY <1>3 DEF JidInv
  <2>2. joblist[i].jid \in Nat /\ maxjid \in Nat
    BY <2>1, Places
  <2>3. CASE j = n + 1
    BY <1>3, <2>1, <2>2, <2>3
  <2>4. CASE j \in 1..n
    <3>1. joblist'[j] = joblist[j] /\ joblist[i].jid < joblist[j].jid
      BY <1>3, <2>1, <2>4, Places DEF JobList, Increasing
    <3> QED
      BY <2>1, <3>1
  <2> QED
    BY <1>3, <2>3, <2>4
<1> QED
  BY <1>4, <1>5, <1>7, <1>8, <1>9, <1>10, <1>11 DEF JobList

\* What waitpid does to the process table.
LEMMA ReapProperties ==
  ASSUME TypeOK, JidInv, NEW pid \in Pids, Reap(pid)
  PROVE  /\ process' \in [Pids -> [state : {"free", "foreign", "running", "zombie"},
                                   jid : Jobs \cup {0}]]
         /\ \A q \in Pids : q # pid => process'[q] = process[q]
         /\ IsZombie(pid) => process'[pid] = Free
         /\ ~IsZombie(pid) => process'[pid] = process[pid]
         /\ \A q \in Pids : process'[q].jid # 0 => process'[q] = process[q]
         /\ \A q \in Pids : process'[q].jid # 0 <=> process'[q].state \in {"running", "zombie"}
         /\ \A q \in Pids : process'[q].jid <= maxjid
         /\ ~IsRunning(pid) => process'[pid].jid = 0
  BY DEF TypeOK, JidInv, Reap, IsZombie, IsRunning, Free

\* A wait, of a foreground job or by myw: whatever job the pid belongs to.
LEMMA WaitStep ==
  ASSUME IInv, WaitReturns
  PROVE  IInv'
<1> USE DEF IInv
<1> DEFINE pid == joblist[next].pid
<1>1. /\ pid \in Pids /\ ~IsRunning(pid) /\ Reap(pid)
      /\ waited' = waited \cup {joblist[next].jid, process[pid].jid}
      /\ pc' = "prompt" /\ next' = 0 /\ UNCHANGED <<joblist, maxjid>>
  BY Places DEF WaitReturns, PlaceInv, Returns
<1> HIDE DEF pid
<1>2. TypeOK' /\ PlaceInv' /\ JidInv' /\ Newest'
  <2>1. \A i \in 1..Len(joblist) : joblist[i].pid \in Pids
    BY Places
  <2> QED
    BY <1>1, <2>1, ReapProperties DEF TypeOK, PlaceInv, JidInv, IsRunning, IsZombie, Newest
<1>3. Tracked' /\ Increasing'
  BY <1>1, ReapProperties DEF JobList, Tracked, Increasing
<1>4. StaleWaited'
  <2> SUFFICES ASSUME NEW i \in 1..Len(joblist)
               PROVE  process'[joblist[i].pid].jid = joblist[i].jid \/ joblist[i].jid \in waited'
    BY <1>1, Places DEF StaleWaited
  <2>1. joblist[i].pid \in Pids
    BY Places
  <2>2. process[joblist[i].pid].jid = joblist[i].jid \/ joblist[i].jid \in waited
    BY Places DEF JobList, StaleWaited, WaitReturns
  <2>3. CASE joblist[i].pid = pid
    BY <1>1, <2>2, <2>3
  <2>4. CASE joblist[i].pid # pid
    BY <1>1, <2>1, <2>2, <2>4, ReapProperties
  <2> QED
    BY <2>3, <2>4
<1> QED
  BY <1>2, <1>3, <1>4 DEF JobList

\* The purge looks at one node.  When it removes the node, an earlier node
\* under the same pid is not the one of a child: that would be the newest.
LEMMA RemoveStoppedStep ==
  ASSUME IInv, RemoveStopped
  PROVE  IInv'
<1> USE DEF IInv
<1> DEFINE pid == joblist[next].pid
           n == Len(joblist)
<1>1. /\ next \in 1..n /\ n \in Nat /\ pid \in Pids /\ Reap(pid) /\ pc = "purge"
      /\ UNCHANGED <<maxjid, pc, myw, waited>>
      /\ IF IsRunning(pid) THEN next' = next + 1 /\ UNCHANGED joblist
                           ELSE joblist' = RemoveAt(joblist, next) /\ UNCHANGED next
  BY Places DEF RemoveStopped, PlaceInv, Stopped
<1>2. \A i \in 1..n : joblist[i].pid \in Pids /\ joblist[i].jid \in Nat \ {0}
  BY Places DEF Jobs
<1>3. DOMAIN joblist = 1..n
  BY Places
<1> HIDE DEF pid
<1>4. CASE IsRunning(pid)
  <2>1. process' = process /\ process[pid].jid # 0
    BY <1>1, <1>4 DEF Reap, IsRunning, IsZombie, JidInv
  <2>2. StaleWaited'
    <3> SUFFICES ASSUME NEW i \in 1..n
                 PROVE  \/ process[joblist[i].pid].jid = joblist[i].jid
                        \/ joblist[i].jid \in waited
                        \/ process[joblist[i].pid].jid = 0 /\ i >= next + 1
      BY <1>1, <1>3, <1>4, <2>1 DEF StaleWaited
    <3>1. CASE i # next
      BY <1>1, <1>3, <3>1 DEF JobList, StaleWaited
    <3>2. CASE i = next
      BY <1>1, <1>3, <2>1, <3>2 DEF JobList, StaleWaited, pid
    <3> QED
      BY <3>1, <3>2
  <2> QED
    BY <1>1, <1>4, <2>1, <2>2
    DEF TypeOK, PlaceInv, JidInv, Newest, JobList, Tracked, Increasing, IsRunning, IsZombie
<1>5. CASE ~IsRunning(pid)
  <2>1. /\ joblist' \in Seq(Node) /\ Len(joblist') = n - 1 /\ next' = next
        /\ \A i \in 1..n - 1 : joblist'[i] = IF i < next THEN joblist[i] ELSE joblist[i + 1]
        /\ DOMAIN joblist' = 1..n - 1
    <3>1. joblist' = RemoveAt(joblist, next) /\ next' = next
      BY <1>1, <1>5
    <3>2. joblist \in Seq(Node)
      BY DEF TypeOK
    <3>3. /\ joblist' \in Seq(Node) /\ Len(joblist') = n - 1
          /\ \A i \in 1..n - 1 : joblist'[i] = IF i < next THEN joblist[i] ELSE joblist[i + 1]
      BY <1>1, <3>1, <3>2, RemoveAtProperties
    <3> QED
      BY <3>1, <3>3, LenProperties
  \* Every place left is an old one that is not next, on the same side of it.
  <2>2. \A i \in 1..n - 1 : \E k \in 1..n :
          /\ joblist'[i] = joblist[k] /\ k # next
          /\ k < next => k = i
          /\ k > next => i >= next
          /\ k = IF i < next THEN i ELSE i + 1
    BY <1>1, <2>1
  <2>3. process'[pid].jid = 0 /\ \A q \in Pids : process'[q].jid # 0 => process'[q] = process[q]
    BY <1>1, <1>5, ReapProperties
  <2>4. TypeOK' /\ PlaceInv' /\ JidInv' /\ Newest'
    <3>1. TypeOK' /\ PlaceInv'
      BY <1>1, <2>1, ReapProperties DEF TypeOK, PlaceInv
    <3>2. JidInv' /\ Newest'
      <4>1. \A i \in 1..n - 1 : joblist'[i].jid <= maxjid'
        BY <1>1, <2>2 DEF JidInv
      <4>2. ASSUME NEW i \in 1..n - 1, process'[joblist'[i].pid].jid # 0
            PROVE  joblist'[i].jid <= process'[joblist'[i].pid].jid
        <5>1. PICK k \in 1..n : joblist'[i] = joblist[k]
          BY <2>2
        <5>2. process'[joblist[k].pid] = process[joblist[k].pid]
          BY <1>2, <2>3, <4>2, <5>1
        <5> QED
          BY <4>2, <5>1, <5>2 DEF Newest
      <4>3. \A q \in Pids : /\ process'[q].jid # 0 <=> process'[q].state \in {"running", "zombie"}
                            /\ process'[q].jid <= maxjid'
        BY <1>1, ReapProperties
      <4> QED
        BY <2>1, <4>1, <4>2, <4>3 DEF JidInv, Newest, IsRunning, IsZombie
    <3> QED
      BY <3>1, <3>2
  <2>5. Tracked'
    <3> SUFFICES ASSUME NEW q \in Pids, process'[q].jid # 0
                 PROVE  \E i \in 1..n - 1 : joblist'[i] = [jid |-> process'[q].jid, pid |-> q]
      BY <2>1 DEF Tracked
    <3>1. q # pid /\ process'[q] = process[q]
      BY <2>3
    <3>2. PICK k \in 1..n : joblist[k] = [jid |-> process[q].jid, pid |-> q]
      BY <1>3, <3>1 DEF JobList, Tracked
    <3>3. k # next
      BY <3>1, <3>2 DEF pid
    <3>4. CASE k < next
      BY <1>1, <2>1, <3>1, <3>2, <3>4
    <3>5. CASE k > next
      <4>1. k - 1 \in 1..n - 1 /\ joblist'[k - 1] = joblist[k]
        BY <1>1, <2>1, <3>5
      <4> QED
        BY <3>1, <3>2, <4>1
    <3> QED
      BY <1>1, <3>3, <3>4, <3>5
  <2>6. StaleWaited'
    <3> SUFFICES ASSUME NEW i \in 1..n - 1
                 PROVE  \/ process'[joblist'[i].pid].jid = joblist'[i].jid
                        \/ joblist'[i].jid \in waited
                        \/ process'[joblist'[i].pid].jid = 0 /\ i >= next
      BY <1>1, <2>1 DEF StaleWaited
    <3>1. PICK k \in 1..n : joblist'[i] = joblist[k] /\ k = IF i < next THEN i ELSE i + 1
      BY <2>2
    <3>2. \/ process[joblist[k].pid].jid = joblist[k].jid
          \/ joblist[k].jid \in waited
          \/ process[joblist[k].pid].jid = 0 /\ k >= next
      BY <1>3 DEF JobList, StaleWaited
    <3>3. CASE joblist[k].pid # pid
      <4>1. process'[joblist[k].pid] = process[joblist[k].pid]
        BY <1>1, <1>2, <3>3, ReapProperties
      <4>2. k >= next => i >= next
        BY <1>1, <3>1
      <4> QED
        BY <3>1, <3>2, <4>1, <4>2
    <3>4. CASE joblist[k].pid = pid /\ i < next
      <4>1. joblist[k].jid < joblist[next].jid
        BY <1>1, <1>3, <3>1, <3>4 DEF JobList, Increasing
      <4>2. process[pid].jid # 0 => joblist[next].jid <= process[pid].jid
        BY <1>1 DEF Newest, pid
      <4>3. process[pid].jid \in Nat
        BY <1>1, BoundAssumption DEF TypeOK, Jobs
      <4>4. joblist[k].jid \in Nat \ {0} /\ joblist[next].jid \in Nat
        BY <1>1, <1>2
      <4>5. process[pid].jid # joblist[k].jid
        BY <4>1, <4>2, <4>3, <4>4
      <4> QED
        BY <1>1, <3>1, <3>2, <3>4, <4>5
    <3>5. CASE joblist[k].pid = pid /\ i >= next
      BY <2>3, <3>1, <3>5
    <3> QED
      BY <1>1, <3>3, <3>4, <3>5
  <2>7. Increasing'
    <3> SUFFICES ASSUME NEW i \in 1..n - 1, NEW j \in 1..n - 1, i < j
                 PROVE  joblist'[i].jid < joblist'[j].jid
      BY <2>1 DEF Increasing
    <3>1. PICK k \in 1..n : joblist'[i] = joblist[k] /\ k = IF i < next THEN i ELSE i + 1
      BY <2>2
    <3>2. PICK l \in 1..n : joblist'[j] = joblist[l] /\ l = IF j < next THEN j ELSE j + 1
      BY <2>2
    <3>3. k < l
      BY <1>1, <3>1, <3>2
    <3> QED
      BY <1>3, <3>1, <3>2, <3>3 DEF JobList, Increasing
  <2> QED
    BY <2>4, <2>5, <2>6, <2>7 DEF JobList
<1> QED
  BY <1>4, <1>5

\* The other steps leave the list alone, and no process gets another jid.
LEMMA OtherSteps ==
  ASSUME IInv, J \/ Myw \/ Purged \/ SkipLine \/ Exit \/ Ends \/ Others \/ UNCHANGED vars
  PROVE  IInv'
<1> USE DEF IInv
<1>1. CASE J \/ Myw \/ Purged \/ SkipLine \/ Exit
  <2>1. UNCHANGED <<joblist, maxjid, process, waited>>
    BY <1>1 DEF J, Myw, Purged, Exit, SkipLine, LongLine, LineEnds, InputEnds
  <2>2. TypeOK' /\ PlaceInv'
    <3>1. CASE Purged
      <4>1. pc' \in {"prompt", "wait"} /\ next' \in Nat /\ (pc' = "wait" => next' \in 1..Len(joblist))
        BY <3>1, Places DEF Purged, Positions
      <4> QED
        BY <2>1, <4>1 DEF TypeOK, PlaceInv
    <3>2. CASE J \/ Myw \/ SkipLine \/ Exit
      BY <2>1, <3>2, Places DEF TypeOK, PlaceInv, J, Myw, Exit, SkipLine, LongLine, LineEnds, InputEnds
    <3> QED
      BY <1>1, <3>1, <3>2
  <2>3. StaleWaited'
    <3>1. CASE Purged
      BY <2>1, <3>1, Places DEF JobList, StaleWaited, Purged
    <3>2. CASE J \/ Myw \/ SkipLine \/ Exit
      BY <2>1, <3>2 DEF JobList, StaleWaited, J, Myw, Exit, SkipLine, LongLine, LineEnds, InputEnds
    <3> QED
      BY <1>1, <3>1, <3>2
  <2> QED
    BY <2>1, <2>2, <2>3 DEF JidInv, Newest, JobList, Tracked, Increasing, IsRunning, IsZombie
<1>2. CASE Ends \/ Others
  <2>1. UNCHANGED <<joblist, maxjid, pc, next, waited>>
    BY <1>2 DEF Ends, Others
  <2>2. /\ process' \in [Pids -> [state : {"free", "foreign", "running", "zombie"},
                                  jid : Jobs \cup {0}]]
        /\ \A q \in Pids : /\ process'[q].jid = process[q].jid
                           /\ process'[q].state \in {"running", "zombie"} <=>
                                process[q].state \in {"running", "zombie"}
    <3>1. CASE Ends
      BY <3>1 DEF Ends, TypeOK, IsRunning
    <3>2. CASE Others
      <4>1. process \in [Pids -> [state : {"free", "foreign", "running", "zombie"},
                                  jid : Jobs \cup {0}]]
        BY DEF TypeOK
      <4>2. PICK pid \in Pids :
              \/ process[pid] = Free /\ process' = [process EXCEPT ![pid] = Foreign]
              \/ process[pid] = Foreign /\ process' = [process EXCEPT ![pid] = Free]
        BY <3>2 DEF Others
      <4>3. CASE process[pid] = Free /\ process' = [process EXCEPT ![pid] = Foreign]
        BY <4>1, <4>3 DEF Free, Foreign
      <4>4. CASE process[pid] = Foreign /\ process' = [process EXCEPT ![pid] = Free]
        BY <4>1, <4>4 DEF Free, Foreign
      <4> QED
        BY <4>2, <4>3, <4>4
    <3> QED
      BY <1>2, <3>1, <3>2
  <2>3. \A i \in 1..Len(joblist) : joblist[i].pid \in Pids
    BY Places
  <2>4. TypeOK' /\ PlaceInv'
    BY <2>1, <2>2 DEF TypeOK, PlaceInv
  <2>5. JidInv'
    BY <2>1, <2>2 DEF JidInv, IsRunning, IsZombie
  <2>6. Newest'
    BY <2>1, <2>2, <2>3 DEF Newest
  <2>7. Tracked' /\ StaleWaited' /\ Increasing'
    BY <2>1, <2>2, <2>3, Places DEF JobList, Tracked, StaleWaited, Increasing
  <2> QED
    BY <2>4, <2>5, <2>6, <2>7 DEF JobList
<1>3. CASE UNCHANGED vars
  BY <1>3 DEF vars, TypeOK, PlaceInv, JidInv, Newest, JobList, Tracked, StaleWaited, Increasing,
              IsRunning, IsZombie
<1> QED
  BY <1>1, <1>2, <1>3
------------------------------------------------------------------------------
\* For any pids and any number of jobs: no child of the shell is forgotten,
\* and an entry names the wrong process only if its job was waited for.
THEOREM JobListHolds == Spec => []JobList
<1>1. Init => IInv
  BY InitIInv
<1>2. IInv /\ [Next]_vars => IInv'
  BY ExecuteStep, WaitStep, RemoveStoppedStep, OtherSteps DEF Next, Shell
<1>3. IInv => JobList
  BY DEF IInv
<1> QED
  BY <1>1, <1>2, <1>3, PTL DEF Spec
=============================================================================
