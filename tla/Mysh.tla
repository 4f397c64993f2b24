-------------------------------- MODULE Mysh --------------------------------
(***************************************************************************)
(* The job list of the shell p2/p2a/mysh.c and the processes it starts.    *)
(* Children end at any time, also between two calls of waitpid, and once a *)
(* child is waited for its pid may be given to another process, whether a  *)
(* later job of the shell or somebody else's.                              *)
(***************************************************************************)
EXTENDS Integers, Sequences, SequencesExt

CONSTANTS Pids,
          MaxJobs     \* bound: commands typed

ASSUME BoundAssumption == MaxJobs \in Nat

VARIABLES
  joblist,  \* the nodes after the head: [jid, pid]
  maxjid,   \* jid of the head, and the static jid of execute
  process,  \* what has each pid: [state, jid], jid 0 for none of the shell's
  pc,       \* "prompt", "long", "spin", "purge", "wait", or "exited"
  next,     \* in removeStoppedJobs: the node to look at
  myw,      \* the jid myw was given, 0 otherwise
  waited    \* history: jobs named in a wait of the shell, and jobs such a wait has reaped

vars == <<joblist, maxjid, process, pc, next, myw, waited>>
-----------------------------------------------------------------------------
Jobs == 1..MaxJobs
Free == [state |-> "free", jid |-> 0]
Foreign == [state |-> "foreign", jid |-> 0]
Child(state, jid) == [state |-> state, jid |-> jid]

Init == /\ joblist = <<>>
        /\ maxjid = 0
        /\ process = [i \in Pids |-> Free]
        /\ pc = "prompt" /\ next = 0 /\ myw = 0
        /\ waited = {}

IsRunning(pid) == process[pid].state = "running"
IsZombie(pid)  == process[pid].state = "zombie"
Reap(pid) == process' = IF IsZombie(pid) THEN [process EXCEPT ![pid] = Free] ELSE process
-----------------------------------------------------------------------------
(* execute: a command in the foreground is waited for at once. *)
Execute == /\ pc = "prompt" /\ maxjid < MaxJobs
           /\ \E pid \in Pids, background \in BOOLEAN :
                /\ process[pid] = Free
                /\ process' = [process EXCEPT ![pid] = Child("running", maxjid + 1)]
                /\ maxjid' = maxjid + 1
                /\ joblist' = Append(joblist, [jid |-> maxjid', pid |-> pid])
                /\ IF background THEN UNCHANGED <<pc, next>>
                                 ELSE pc' = "wait" /\ next' = Len(joblist')
           /\ UNCHANGED <<myw, waited>>

(* waitpid(pid, NULL, 0) returns when the child has ended or when there is *)
(* no such child.                                                          *)
ReturnsWithChild(pid) == IsZombie(pid)
Returns(pid) == ~IsRunning(pid)
WaitReturns == /\ pc = "wait"
               /\ Returns(joblist[next].pid)
               /\ Reap(joblist[next].pid)
               /\ waited' = waited \cup {joblist[next].jid, process[joblist[next].pid].jid}
               /\ pc' = "prompt" /\ next' = 0 /\ myw' = 0
               /\ UNCHANGED <<joblist, maxjid>>

(* The commands j and myw; a jid never given out is refused. *)
J == /\ pc = "prompt"
     /\ pc' = "purge" /\ next' = 1
     /\ UNCHANGED <<joblist, maxjid, process, myw, waited>>

Myw == /\ pc = "prompt"
       /\ \E jid \in Jobs : jid <= maxjid /\ myw' = jid
       /\ pc' = "purge" /\ next' = 1
       /\ UNCHANGED <<joblist, maxjid, process, waited>>

(* One call of waitpid(pid, NULL, WNOHANG) in removeStoppedJobs: 0 while   *)
(* the child runs, -1 when there is none.                                  *)
StoppedIfChild(pid) == process[pid].state \in {"running", "zombie"}
Stopped(pid) == ~IsRunning(pid)
RemoveStopped == 
  /\ pc = "purge" /\ next <= Len(joblist)
  /\ LET pid == joblist[next].pid
     IN /\ Reap(pid)
        /\ IF Stopped(pid) THEN joblist' = RemoveAt(joblist, next) /\ UNCHANGED next
                           ELSE next' = next + 1 /\ UNCHANGED joblist
  /\ UNCHANGED <<maxjid, pc, myw, waited>>

(* At the end of the list j prints it, and myw waits for its job if it is  *)
(* still there.                                                            *)
Positions(jid) == {i \in DOMAIN joblist : joblist[i].jid = jid}
Purged == /\ pc = "purge" /\ next = Len(joblist) + 1
          /\ \/ /\ myw = 0 \/ Positions(myw) = {}
                /\ pc' = "prompt" /\ next' = 0 /\ myw' = 0
             \/ \E i \in Positions(myw) : pc' = "wait" /\ next' = i /\ UNCHANGED myw
          /\ UNCHANGED <<joblist, maxjid, process, waited>>

(* A line without a newline in the buffer is read to its end in a loop.    *)
(* When the input ends before that, fgets leaves the buffer as it is: the  *)
(* loop goes on for ever.                                                  *)
LongLine == pc = "prompt" /\ pc' = "long"
LineEnds == pc = "long" /\ pc' = "prompt"
InputEnds == pc = "long" /\ pc' = "spin"
SkipLine == /\ LongLine \/ LineEnds \/ InputEnds
            /\ UNCHANGED <<joblist, maxjid, process, next, myw, waited>>

(* exit, and the end of the input at the prompt. *)
Exit == /\ pc = "prompt"
        /\ pc' = "exited"
        /\ UNCHANGED <<joblist, maxjid, process, next, myw, waited>>
-----------------------------------------------------------------------------
Ends == /\ pc # "exited"
        /\ \E pid \in Pids : /\ IsRunning(pid)
                             /\ process' = [process EXCEPT ![pid].state = "zombie"]
        /\ UNCHANGED <<joblist, maxjid, pc, next, myw, waited>>

(* Other processes of the machine take and give back pids. *)
Others == /\ pc # "exited"
          /\ \E pid \in Pids : \/ process[pid] = Free /\ process' = [process EXCEPT ![pid] = Foreign]
                               \/ process[pid] = Foreign /\ process' = [process EXCEPT ![pid] = Free]
          /\ UNCHANGED <<joblist, maxjid, pc, next, myw, waited>>

Shell == WaitReturns \/ RemoveStopped \/ Purged
Next == Execute \/ J \/ Myw \/ SkipLine \/ Exit \/ Shell \/ Ends \/ Others

(* Programs end; the shell runs.  Nobody has to type anything. *)
Spec == Init /\ [][Next]_vars /\ WF_vars(Shell) /\ WF_vars(Ends)
-----------------------------------------------------------------------------
(* The list, the kernel's process table and the reuse of pids.  Every      *)
(* child not yet waited for is in the list under its jid and pid, so that  *)
(* some later command reaps it.  An entry that does not name its own job's *)
(* process is that of a job named or reaped in a wait, in the foreground   *)
(* or by myw; or there is no child under its pid, and the purge is still   *)
(* to come to it.  Jids increase along the list.                           *)
Tracked == \A pid \in Pids : process[pid].jid # 0 =>
             \E i \in DOMAIN joblist : joblist[i] = [jid |-> process[pid].jid, pid |-> pid]
StaleWaited == \A i \in DOMAIN joblist :
  \/ process[joblist[i].pid].jid = joblist[i].jid
  \/ joblist[i].jid \in waited
  \/ process[joblist[i].pid].jid = 0 /\ pc = "purge" /\ i >= next
Increasing == \A i, j \in DOMAIN joblist : i < j => joblist[i].jid < joblist[j].jid
JobList == Tracked /\ StaleWaited /\ Increasing

(* The shell always comes back to its prompt from its job list and its     *)
(* waits, whatever has become of the pids it waits for.  From a line that  *)
(* the end of the input cuts short it does not ("spin").                   *)
ComesBack == pc \in {"purge", "wait"} ~> pc = "prompt"
=============================================================================
