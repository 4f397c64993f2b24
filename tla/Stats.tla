-------------------------------- MODULE Stats --------------------------------
(***************************************************************************)
(* The shared-memory statistics page of projects/p3/p3a: client processes  *)
(* (stats_client.c) take one of the slots of a page the server created,    *)
(* write their numbers into it and give it back when SIGINT comes, all     *)
(* under one POSIX semaphore (stats.c).                                    *)
(*                                                                         *)
(* A client's pc is where it is between two accesses to shared memory:     *)
(*   "off"      no such process                                            *)
(*   "scan"     in stats_init, about to sem_wait for slot buffno (45)      *)
(*   "look"     holds the semaphore, about to test the valid bit (47)      *)
(*   "post"     about to sem_post (54)                                     *)
(*   "found"    past the loop, validbitaddr not yet set (58-62)            *)
(*   "wipe"     about to clear the data (66)                               *)
(*   "name"     about to write pid and procname (stats_client.c:121)       *)
(*   "work"     in its loop, about to sem_wait (184)                       *)
(*   "write"    holds the semaphore, about to write (185)                  *)
(*   "written"  about to sem_post (189)                                    *)
(* and in exit_handler, on top of any of them:                             *)
(*   "handler"  about to test *validbitaddr (stats.c:72)                   *)
(*   "rewait"   about to sem_wait (73)                                     *)
(*   "clear"    about to clear the valid bit (74)                          *)
(*   "repost"   about to sem_post and exit (75)                            *)
(***************************************************************************)
EXTENDS Integers

CONSTANTS
  Client,             \* names of client processes; a name is reused by the
                      \* next process once its process is gone
  NUMBER_OF_BUFFERS,  \* slots of the page
  MaxKill,            \* bound: SIGKILLs; each costs a slot for good
  None                \* no slot, no client

ASSUME ConstantAssumption ==
  /\ NUMBER_OF_BUFFERS \in Nat \ {0} /\ MaxKill \in Nat
  /\ None \notin Client \cup Nat

Slot == 0 .. NUMBER_OF_BUFFERS - 1

VARIABLES
  valid,         \* each slot's valid bit
  pid, counter,  \* each slot's data: the client whose pid is in it, and the
                 \* client whose counter is (None: cleared)
  mutex,         \* the semaphore's value
  pc,
  buffno,        \* the slot the loop of stats_init is at
  validbitaddr,  \* the client's slot; None is the null pointer
  holds,         \* (history) the client has done sem_wait and not sem_post
  lost,          \* (history) a process died between the two
  kills          \* SIGKILLs so far

page == <<valid, pid, counter>>
vars == <<page, mutex, pc, buffno, validbitaddr, holds, lost, kills>>
------------------------------------------------------------------------------
\* The server has cleared the page and made the semaphore.
Init ==
  /\ valid = [s \in Slot |-> FALSE]
  /\ pid = [s \in Slot |-> None] /\ counter = [s \in Slot |-> None]
  /\ mutex = 1
  /\ pc = [c \in Client |-> "off"]
  /\ buffno = [c \in Client |-> 0]
  /\ validbitaddr = [c \in Client |-> None]
  /\ holds = [c \in Client |-> FALSE] /\ lost = FALSE
  /\ kills = 0

Goto(c, from, to) == pc[c] = from /\ pc' = [pc EXCEPT ![c] = to]

SemWaitAlways(c) ==
  /\ mutex' = 0
  /\ holds' = [holds EXCEPT ![c] = TRUE]

SemWait(c) ==
  /\ mutex > 0 /\ mutex' = mutex - 1
  /\ holds' = [holds EXCEPT ![c] = TRUE]

SemPostNever(c) == UNCHANGED <<mutex, holds>>
SemPost(c) ==
  /\ mutex' = mutex + 1
  /\ holds' = [holds EXCEPT ![c] = FALSE]

\* The process is gone ...
Gone(c) ==
  /\ pc' = [pc EXCEPT ![c] = "off"]
  /\ buffno' = [buffno EXCEPT ![c] = 0]
  /\ validbitaddr' = [validbitaddr EXCEPT ![c] = None]

\* ... killed, with whatever it had of the semaphore.
Dies(c) ==
  /\ Gone(c)
  /\ holds' = [holds EXCEPT ![c] = FALSE]
  /\ lost' = (lost \/ holds[c])
------------------------------------------------------------------------------
Start(c) ==
  /\ Goto(c, "off", "scan")
  /\ UNCHANGED <<page, mutex, buffno, validbitaddr, holds, lost, kills>>

ScanWait(c) ==
  /\ Goto(c, "scan", "look") /\ SemWait(c)
  /\ UNCHANGED <<page, buffno, validbitaddr, lost, kills>>

\* The test at stats.c:47.
InUseNever(c) == FALSE
InUse(c) == valid[buffno[c]]

\* stats.c:47-53: the slot is free.
Take(c) ==
  /\ pc[c] = "look" /\ ~InUse(c)
  /\ valid' = [valid EXCEPT ![buffno[c]] = TRUE]
  /\ pc' = [pc EXCEPT ![c] = "post"]
  /\ UNCHANGED <<pid, counter, mutex, buffno, validbitaddr, holds, lost, kills>>

TakenPost(c) ==
  /\ Goto(c, "post", "found") /\ SemPost(c)
  /\ UNCHANGED <<page, buffno, validbitaddr, lost, kills>>

\* The slot is in use: post, and on to the next one; after the last slot
\* stats_init returns NULL and main exits.
Skip(c) ==
  /\ pc[c] = "look" /\ InUse(c)
  /\ SemPost(c)
  /\ IF buffno[c] + 1 \in Slot
     THEN /\ pc' = [pc EXCEPT ![c] = "scan"]
          /\ buffno' = [buffno EXCEPT ![c] = @ + 1]
          /\ UNCHANGED validbitaddr
     ELSE Gone(c)
  /\ UNCHANGED <<page, lost, kills>>

Found(c) ==
  /\ Goto(c, "found", "wipe")
  /\ validbitaddr' = [validbitaddr EXCEPT ![c] = buffno[c]]
  /\ UNCHANGED <<page, mutex, buffno, holds, lost, kills>>

Wipe(c) ==
  /\ Goto(c, "wipe", "name")
  /\ pid' = [pid EXCEPT ![validbitaddr[c]] = None]
  /\ counter' = [counter EXCEPT ![validbitaddr[c]] = None]
  /\ UNCHANGED <<valid, mutex, buffno, validbitaddr, holds, lost, kills>>

Name(c) ==
  /\ Goto(c, "name", "work")
  /\ pid' = [pid EXCEPT ![validbitaddr[c]] = c]
  /\ UNCHANGED <<valid, counter, mutex, buffno, validbitaddr, holds, lost,
                 kills>>

WorkWait(c) ==
  /\ Goto(c, "work", "write") /\ SemWait(c)
  /\ UNCHANGED <<page, buffno, validbitaddr, lost, kills>>

Write(c) ==
  /\ Goto(c, "write", "written")
  /\ counter' = [counter EXCEPT ![validbitaddr[c]] = c]
  /\ UNCHANGED <<valid, pid, mutex, buffno, validbitaddr, holds, lost, kills>>

WrittenPost(c) ==
  /\ Goto(c, "written", "work") /\ SemPost(c)
  /\ UNCHANGED <<page, buffno, validbitaddr, lost, kills>>
------------------------------------------------------------------------------
(* Signals.                                                                 *)

InHandler(c) == pc[c] \in {"handler", "rewait", "clear", "repost"}

\* SIGINT, which is blocked while its handler runs.
Interrupt(c) ==
  /\ pc[c] # "off" /\ ~InHandler(c)
  /\ pc' = [pc EXCEPT ![c] = "handler"]
  /\ UNCHANGED <<page, mutex, buffno, validbitaddr, holds, lost, kills>>

\* stats_unlink: a client without a slot dies of reading the null pointer; one
\* whose valid bit is not set would exit.
HasValidBit(c) == validbitaddr[c] # None /\ valid[validbitaddr[c]]

HandlerNoSlot(c) ==
  /\ pc[c] = "handler" /\ ~HasValidBit(c)
  /\ Dies(c)
  /\ UNCHANGED <<page, mutex, kills>>

HandlerStarts(c) ==
  /\ HasValidBit(c)
  /\ Goto(c, "handler", "rewait")
  /\ UNCHANGED <<page, mutex, buffno, validbitaddr, holds, lost, kills>>

HandlerWait(c) ==
  /\ Goto(c, "rewait", "clear") /\ SemWait(c)
  /\ UNCHANGED <<page, buffno, validbitaddr, lost, kills>>

\* The valid bit that is cleared.
ClearedFirst(c) == 0
Cleared(c) == validbitaddr[c]

Clear(c) ==
  /\ Goto(c, "clear", "repost")
  /\ valid' = [valid EXCEPT ![Cleared(c)] = FALSE]
  /\ UNCHANGED <<pid, counter, mutex, buffno, validbitaddr, holds, lost, kills>>

HandlerExit(c) ==
  /\ pc[c] = "repost"
  /\ SemPost(c) /\ Gone(c)
  /\ UNCHANGED <<page, lost, kills>>

Kill(c) ==
  /\ pc[c] # "off" /\ kills < MaxKill
  /\ kills' = kills + 1
  /\ Dies(c)
  /\ UNCHANGED <<page, mutex>>

Registering(c) ==
  ScanWait(c) \/ Take(c) \/ TakenPost(c) \/ Skip(c) \/ Found(c) \/ Wipe(c)
    \/ Name(c)
Working(c) == WorkWait(c) \/ Write(c) \/ WrittenPost(c)
Leaving(c) ==
  HandlerNoSlot(c) \/ HandlerStarts(c) \/ HandlerWait(c) \/ Clear(c)
    \/ HandlerExit(c)

Next ==
  \E c \in Client :
    Start(c) \/ Registering(c) \/ Working(c) \/ Interrupt(c) \/ Leaving(c)
      \/ Kill(c)

Spec == Init /\ [][Next]_vars

(***************************************************************************)
(* A process that can run runs; a process waiting for the semaphore gets   *)
(* it if it becomes free again and again: POSIX does not promise it, but   *)
(* clients compute and sleep between any two uses.  Nothing makes a client *)
(* start or a signal come.                                                 *)
(***************************************************************************)
Fairness ==
  \A c \in Client :
    /\ SF_vars(Registering(c)) /\ SF_vars(Working(c)) /\ SF_vars(Leaving(c))

FairSpec == Spec /\ Fairness
------------------------------------------------------------------------------
(***************************************************************************)
(* Properties.                                                             *)
(***************************************************************************)
\* Type correctness; the semaphore is binary.
TypeOK ==
  /\ valid \in [Slot -> BOOLEAN]
  /\ pid \in [Slot -> Client \cup {None}]
  /\ counter \in [Slot -> Client \cup {None}]
  /\ mutex \in 0 .. 1
  /\ pc \in [Client -> {"off", "scan", "look", "post", "found", "wipe", "name",
                       "work", "write", "written", "handler", "rewait",
                       "clear", "repost"}]
  /\ buffno \in [Client -> Slot]
  /\ validbitaddr \in [Client -> Slot \cup {None}]
  /\ holds \in [Client -> BOOLEAN] /\ lost \in BOOLEAN
  /\ kills \in 0 .. MaxKill

\* The slot a process owns: from the moment its valid bit is set until it
\* clears it again.
Owned(c) ==
  CASE pc[c] \in {"post", "found"} -> buffno[c]
    [] pc[c] = "repost"            -> None
    [] OTHER                       -> validbitaddr[c]

\* At any moment, signals and kills anywhere included, a slot has one owner at
\* most and an owned slot is marked in use: the server shows every client
\* that is running, and no process frees the slot of another.
Exclusive ==
  \A c \in Client : Owned(c) # None =>
    /\ valid[Owned(c)]
    /\ \A d \in Client \ {c} : Owned(d) # Owned(c)

\* While a client works, its slot holds its own pid and no other process's
\* counter, although Wipe and Name write without the semaphore.
OwnData ==
  \A c \in Client : pc[c] \in {"work", "write", "written"} =>
    /\ pid[validbitaddr[c]] = c
    /\ counter[validbitaddr[c]] \in {c, None}

\* A client that starts gets a slot or finds all of them in use (and is gone),
\* unless SIGINT comes -- or the semaphore is lost: its holder was killed, or
\* is waiting for it in its own signal handler.
SemaphoreLost == lost \/ \E c \in Client : holds[c] /\ pc[c] = "rewait"
Registered ==
  \A c \in Client :
    pc[c] = "scan" ~> pc[c] \in {"work", "handler", "off"} \/ SemaphoreLost

\* "Clear the shared memory field before exit" (stats_client.c:29): a client
\* that gets SIGINT leaves.
InterruptedLeaves == \A c \in Client : pc[c] = "handler" ~> pc[c] = "off"
==============================================================================
