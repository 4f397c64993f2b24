----------------------------- MODULE StatsProofs -----------------------------
(* Theorems about Stats: for any number of clients, slots and kills, the    *)
(* semaphore is binary, a slot has one owner at most, and an owner's data   *)
(* is its own.                                                              *)
EXTENDS Stats, TLAPS

\* The places of stats_init before and after the client's slot is known.
Searching == {"scan", "look", "post", "found"}
Settled   == {"wipe", "name", "work", "write", "written", "rewait", "clear"}
\* The places between a sem_wait and its sem_post.
Critical  == {"look", "post", "write", "written", "clear", "repost"}

\* The semaphore and its holder: at most one process has taken it and not
\* posted it, also from its signal handler, and then it is 0.
SemInv ==
  /\ \A c \in Client : pc[c] \in Critical => holds[c]
  /\ \A c \in Client : holds[c] =>
       /\ mutex = 0
       /\ \A d \in Client : holds[d] => d = c

\* validbitaddr is set between Found and the end of the process.
AddrInv ==
  \A c \in Client :
    /\ pc[c] \in Searching \cup {"off"} => validbitaddr[c] = None
    /\ pc[c] \in Settled => validbitaddr[c] # None

\* What is in an owner's slot from the time it has wiped it.
DataInv ==
  \A c \in Client :
    /\ pc[c] \in {"work", "write", "written"} => pid[validbitaddr[c]] = c
    /\ pc[c] \in {"name", "work", "write", "written"} =>
         counter[validbitaddr[c]] \in {c, None}

\* A step of one client.
Step(c) ==
  Start(c) \/ Registering(c) \/ Working(c) \/ Interrupt(c) \/ Leaving(c)
    \/ Kill(c)

IInv == TypeOK /\ SemInv /\ AddrInv /\ Exclusive /\ DataInv
------------------------------------------------------------------------------
LEMMA InitIInv == Init => IInv
<1> SUFFICES ASSUME Init PROVE IInv
  OBVIOUS
<1>1. TypeOK
  <2>1. 0 \in Slot /\ 0 \in 0 .. MaxKill
    BY ConstantAssumption DEF Slot
  <2>2. mutex \in 0 .. 1 /\ kills \in 0 .. MaxKill
    BY <2>1 DEF Init
  <2>3. /\ valid \in [Slot -> BOOLEAN]
        /\ pid \in [Slot -> Client \cup {None}]
        /\ counter \in [Slot -> Client \cup {None}]
    BY DEF Init
  <2>4. /\ pc \in [Client -> {"off", "scan", "look", "post", "found", "wipe",
                             "name", "work", "write", "written", "handler",
                             "rewait", "clear", "repost"}]
        /\ buffno \in [Client -> Slot]
        /\ validbitaddr \in [Client -> Slot \cup {None}]
        /\ holds \in [Client -> BOOLEAN] /\ lost \in BOOLEAN
    BY <2>1 DEF Init
  <2> QED
    BY <2>2, <2>3, <2>4 DEF TypeOK
<1>2. SemInv /\ AddrInv /\ DataInv
  BY DEF Init, SemInv, AddrInv, DataInv, Critical, Searching, Settled
<1>3. Exclusive
  BY DEF Init, Exclusive, Owned
<1> QED
  BY <1>1, <1>2, <1>3 DEF IInv

\* A step keeps the types; a post finds the semaphore at 0 because the process
\* holds it.
LEMMA TypeStep ==
  ASSUME TypeOK, SemInv, NEW c \in Client,
         Step(c)
  PROVE  TypeOK'
<1> USE DEF TypeOK, SemInv, page, Goto, Gone
<1>0. 0 \in Slot
  BY ConstantAssumption DEF Slot
<1>1. CASE Start(c)
  BY <1>1 DEF Start
<1>2. CASE ScanWait(c)
  BY <1>2 DEF ScanWait, SemWait
<1>3. CASE Take(c)
  BY <1>3 DEF Take
<1>4. CASE TakenPost(c)
  BY <1>4 DEF TakenPost, SemPost, Critical
<1>5. CASE Skip(c)
  BY <1>0, <1>5 DEF Skip, SemPost, Critical
<1>6. CASE Found(c)
  BY <1>6 DEF Found
<1>7. CASE Wipe(c)
  BY <1>7 DEF Wipe
<1>8. CASE Name(c)
  BY <1>8 DEF Name
<1>9. CASE WorkWait(c)
  BY <1>9 DEF WorkWait, SemWait
<1>10. CASE Write(c)
  BY <1>10 DEF Write
<1>11. CASE WrittenPost(c)
  BY <1>11 DEF WrittenPost, SemPost, Critical
<1>12. CASE Interrupt(c)
  BY <1>12 DEF Interrupt
<1>13. CASE HandlerNoSlot(c)
  BY <1>0, <1>13 DEF HandlerNoSlot, Dies
<1>14. CASE HandlerStarts(c)
  BY <1>14 DEF HandlerStarts
<1>15. CASE HandlerWait(c)
  BY <1>15 DEF HandlerWait, SemWait
<1>16. CASE Clear(c)
  BY <1>16 DEF Clear
<1>17. CASE HandlerExit(c)
  BY <1>0, <1>17 DEF HandlerExit, SemPost, Critical
<1>18. CASE Kill(c)
  BY <1>0, <1>18, ConstantAssumption DEF Kill, Dies
<1> QED
  BY <1>1, <1>2, <1>3, <1>4, <1>5, <1>6, <1>7, <1>8, <1>9, <1>10, <1>11,
     <1>12, <1>13, <1>14, <1>15, <1>16, <1>17, <1>18
  DEF Step, Registering, Working, Leaving

\* Only a process that sees the semaphore above 0 takes it, and only the one
\* that has it posts it.
LEMMA SemStep ==
  ASSUME TypeOK, SemInv, NEW c \in Client, Step(c)
  PROVE  SemInv'
<1> USE DEF TypeOK, SemInv, Critical, Goto, Gone
<1>1. CASE Start(c)
  BY <1>1 DEF Start
<1>2. CASE ScanWait(c)
  BY <1>2 DEF ScanWait, SemWait
<1>3. CASE Take(c)
  BY <1>3 DEF Take
<1>4. CASE TakenPost(c)
  BY <1>4 DEF TakenPost, SemPost
<1>5. CASE Skip(c)
  BY <1>5 DEF Skip, SemPost
<1>6. CASE Found(c)
  BY <1>6 DEF Found
<1>7. CASE Wipe(c)
  BY <1>7 DEF Wipe
<1>8. CASE Name(c)
  BY <1>8 DEF Name
<1>9. CASE WorkWait(c)
  BY <1>9 DEF WorkWait, SemWait
<1>10. CASE Write(c)
  BY <1>10 DEF Write
<1>11. CASE WrittenPost(c)
  BY <1>11 DEF WrittenPost, SemPost
<1>12. CASE Interrupt(c)
  BY <1>12 DEF Interrupt
<1>13. CASE HandlerNoSlot(c)
  BY <1>13 DEF HandlerNoSlot, Dies
<1>14. CASE HandlerStarts(c)
  BY <1>14 DEF HandlerStarts
<1>15. CASE HandlerWait(c)
  BY <1>15 DEF HandlerWait, SemWait
<1>16. CASE Clear(c)
  BY <1>16 DEF Clear
<1>17. CASE HandlerExit(c)
  BY <1>17 DEF HandlerExit, SemPost
<1>18. CASE Kill(c)
  BY <1>18 DEF Kill, Dies
<1> QED
  BY <1>1, <1>2, <1>3, <1>4, <1>5, <1>6, <1>7, <1>8, <1>9, <1>10, <1>11,
     <1>12, <1>13, <1>14, <1>15, <1>16, <1>17, <1>18
  DEF Step, Registering, Working, Leaving

\* validbitaddr follows the places of stats_init and the handler.
LEMMA AddrStep ==
  ASSUME TypeOK, AddrInv, NEW c \in Client, Step(c)
  PROVE  AddrInv'
<1> USE DEF TypeOK, AddrInv, Searching, Settled, Goto, Gone
<1>0. None \notin Slot
  BY ConstantAssumption DEF Slot
<1>1. CASE Start(c) \/ Interrupt(c)
  BY <1>1 DEF Start, Interrupt
<1>2. CASE ScanWait(c) \/ Take(c) \/ TakenPost(c)
  BY <1>2 DEF ScanWait, Take, TakenPost
<1>3. CASE Skip(c)
  BY <1>3 DEF Skip
<1>4. CASE Found(c)
  BY <1>0, <1>4 DEF Found
<1>5. CASE Wipe(c) \/ Name(c) \/ Working(c)
  BY <1>5 DEF Wipe, Name, Working, WorkWait, Write, WrittenPost
<1>6. CASE HandlerNoSlot(c) \/ Kill(c)
  BY <1>6 DEF HandlerNoSlot, Kill, Dies
<1>7. CASE HandlerStarts(c)
  BY <1>7 DEF HandlerStarts, HasValidBit
<1>8. CASE HandlerWait(c) \/ Clear(c)
  BY <1>8 DEF HandlerWait, Clear
<1>9. CASE HandlerExit(c)
  BY <1>9 DEF HandlerExit
<1> QED
  BY <1>1, <1>2, <1>3, <1>4, <1>5, <1>6, <1>7, <1>8, <1>9
  DEF Step, Registering, Leaving

\* What a step of c leaves alone.
LEMMA OthersKeep ==
  ASSUME TypeOK, NEW c \in Client, Step(c), NEW d \in Client \ {c}
  PROVE  /\ pc'[d] = pc[d]
         /\ buffno'[d] = buffno[d]
         /\ validbitaddr'[d] = validbitaddr[d]
<1> USE DEF TypeOK, Goto, Gone
<1>1. CASE Start(c) \/ Interrupt(c) \/ Kill(c)
  BY <1>1 DEF Start, Interrupt, Kill, Dies
<1>2. CASE Registering(c)
  BY <1>2 DEF Registering, ScanWait, Take, TakenPost, Skip, Found, Wipe, Name
<1>3. CASE Working(c)
  BY <1>3 DEF Working, WorkWait, Write, WrittenPost
<1>4. CASE Leaving(c)
  BY <1>4 DEF Leaving, HandlerNoSlot, HandlerStarts, HandlerWait, Clear,
              HandlerExit, Dies
<1> QED
  BY <1>1, <1>2, <1>3, <1>4 DEF Step

\* A process takes a slot only by Take; any other step leaves it with the slot
\* it has or with none.
LEMMA OwnedStep ==
  ASSUME TypeOK, AddrInv, NEW c \in Client, Step(c), ~Take(c)
  PROVE  Owned(c)' \in {Owned(c), None}
<1> USE DEF TypeOK, AddrInv, Owned, Searching, Settled, Goto, Gone
<1>1. CASE Start(c)
  BY <1>1 DEF Start
<1>2. CASE ScanWait(c)
  BY <1>2 DEF ScanWait
<1>3. CASE TakenPost(c)
  BY <1>3 DEF TakenPost
<1>4. CASE Skip(c)
  BY <1>4 DEF Skip
<1>5. CASE Found(c)
  BY <1>5 DEF Found
<1>6. CASE Wipe(c) \/ Name(c)
  BY <1>6 DEF Wipe, Name
<1>7. CASE Working(c)
  BY <1>7 DEF Working, WorkWait, Write, WrittenPost
<1>8. CASE Interrupt(c)
  BY <1>8 DEF Interrupt, InHandler
<1>9. CASE HandlerNoSlot(c) \/ Kill(c)
  BY <1>9 DEF HandlerNoSlot, Kill, Dies
<1>10. CASE HandlerStarts(c) \/ HandlerWait(c) \/ Clear(c)
  BY <1>10 DEF HandlerStarts, HandlerWait, Clear
<1>11. CASE HandlerExit(c)
  BY <1>11 DEF HandlerExit
<1> QED
  BY <1>1, <1>2, <1>3, <1>4, <1>5, <1>6, <1>7, <1>8, <1>9, <1>10, <1>11
  DEF Step, Registering, Leaving

\* A valid bit changes only by Take and Clear.
LEMMA ValidStep ==
  ASSUME NEW c \in Client, Step(c), ~Take(c), ~Clear(c)
  PROVE  valid' = valid
<1> USE DEF page
<1>1. CASE Start(c) \/ Interrupt(c) \/ Kill(c)
  BY <1>1 DEF Start, Interrupt, Kill
<1>2. CASE Registering(c)
  BY <1>2 DEF Registering, ScanWait, TakenPost, Skip, Found, Wipe, Name
<1>3. CASE Working(c)
  BY <1>3 DEF Working, WorkWait, Write, WrittenPost
<1>4. CASE Leaving(c)
  BY <1>4 DEF Leaving, HandlerNoSlot, HandlerStarts, HandlerWait, HandlerExit
<1> QED
  BY <1>1, <1>2, <1>3, <1>4 DEF Step

\* Take finds a slot nobody owns, for owned slots are marked; Clear unmarks the
\* slot its process owned and no other process owns.
LEMMA ExclusiveStep ==
  ASSUME TypeOK, AddrInv, Exclusive, NEW c \in Client, Step(c)
  PROVE  Exclusive'
<1>1. \A d \in Client \ {c} : Owned(d)' = Owned(d)
  BY OthersKeep DEF Owned
<1>2. CASE Take(c)
  <2>1. /\ Owned(c)' = buffno[c]
        /\ buffno[c] \in Slot
        /\ ~valid[buffno[c]]
        /\ valid' = [valid EXCEPT ![buffno[c]] = TRUE]
    BY <1>2 DEF Take, TypeOK, Owned, InUse
  <2>2. \A d \in Client \ {c} : Owned(d) # buffno[c] \/ Owned(d) = None
    BY <2>1 DEF Exclusive
  <2>3. valid'[buffno[c]]
    BY <2>1 DEF TypeOK
  <2>4. \A s \in Slot : valid[s] => valid'[s]
    BY <2>1 DEF TypeOK
  <2>5. \A d \in Client : Owned(d) \in Slot \cup {None}
    BY DEF TypeOK, Owned
  <2>6. buffno[c] # None
    BY <2>1, ConstantAssumption DEF Slot
  <2> QED
    BY <1>1, <2>1, <2>2, <2>3, <2>4, <2>5, <2>6 DEF Exclusive
<1>3. CASE Clear(c)
  <2>1. /\ Owned(c) = validbitaddr[c]
        /\ Owned(c)' = None
        /\ validbitaddr[c] \in Slot
        /\ valid' = [valid EXCEPT ![validbitaddr[c]] = FALSE]
    BY <1>3 DEF Clear, Cleared, Goto, TypeOK, AddrInv, Settled, Owned
  <2>2. \A d \in Client \ {c} : Owned(d) # validbitaddr[c]
    BY <2>1, ConstantAssumption DEF Exclusive, Slot
  <2>3. \A s \in Slot \ {validbitaddr[c]} : valid'[s] = valid[s]
    BY <2>1 DEF TypeOK
  <2>4. \A d \in Client : Owned(d) \in Slot \cup {None}
    BY DEF TypeOK, Owned
  <2> QED
    BY <1>1, <2>1, <2>2, <2>3, <2>4 DEF Exclusive
<1>4. CASE ~Take(c) /\ ~Clear(c)
  <2>1. Owned(c)' \in {Owned(c), None}
    BY <1>4, OwnedStep
  <2>2. valid' = valid
    BY <1>4, ValidStep
  <2> QED
    BY <1>1, <2>1, <2>2 DEF Exclusive
<1> QED
  BY <1>2, <1>3, <1>4

\* A process writes into the page outside the semaphore (Wipe, Name), but only
\* into the slot it owns.
LEMMA DataStep ==
  ASSUME TypeOK, AddrInv, Exclusive, DataInv, NEW c \in Client, Step(c)
  PROVE  DataInv'
<1> DEFINE settled(d) == pc[d] \in {"name", "work", "write", "written"}
<1>1. \A d \in Client \ {c} :
        /\ pc'[d] = pc[d]
        /\ validbitaddr'[d] = validbitaddr[d]
  BY OthersKeep
<1>2. \A d \in Client : settled(d) => validbitaddr[d] \in Slot
  BY DEF TypeOK, AddrInv, Settled
<1>3. CASE Wipe(c) \/ Name(c) \/ Write(c)
  <2>1. /\ validbitaddr[c] \in Slot
        /\ Owned(c) = validbitaddr[c] /\ Owned(c) # None
    BY <1>3 DEF Wipe, Name, Write, Goto, TypeOK, AddrInv, Settled, Owned
  <2>2. \A d \in Client \ {c} : settled(d) => validbitaddr[d] # validbitaddr[c]
    BY <2>1 DEF Exclusive, Owned
  <2>3. \A s \in Slot \ {validbitaddr[c]} :
          pid'[s] = pid[s] /\ counter'[s] = counter[s]
    BY <1>3 DEF Wipe, Name, Write, TypeOK
  <2>4. \A d \in Client \ {c} :
          /\ pc[d] \in {"work", "write", "written"} => pid'[validbitaddr[d]] = d
          /\ settled(d) => counter'[validbitaddr[d]] \in {d, None}
    BY <1>2, <2>2, <2>3 DEF DataInv
  <2>5. CASE Wipe(c)
    <3>1. pc'[c] = "name" /\ validbitaddr' = validbitaddr
          /\ counter'[validbitaddr[c]] = None
      BY <2>1, <2>5 DEF Wipe, Goto, TypeOK
    <3> QED
      BY <1>1, <2>4, <3>1 DEF DataInv
  <2>6. CASE Name(c)
    <3>1. pc'[c] = "work" /\ pc[c] = "name" /\ validbitaddr' = validbitaddr
          /\ pid'[validbitaddr[c]] = c /\ counter' = counter
      BY <2>1, <2>6 DEF Name, Goto, TypeOK
    <3> QED
      BY <1>1, <2>4, <3>1 DEF DataInv
  <2>7. CASE Write(c)
    <3>1. pc'[c] = "written" /\ pc[c] = "write" /\ validbitaddr' = validbitaddr
          /\ counter'[validbitaddr[c]] = c /\ pid' = pid
      BY <2>1, <2>7 DEF Write, Goto, TypeOK
    <3> QED
      BY <1>1, <2>4, <3>1 DEF DataInv
  <2> QED
    BY <1>3, <2>5, <2>6, <2>7
<1>4. CASE WorkWait(c) \/ WrittenPost(c)
  <2>1. /\ pid' = pid /\ counter' = counter /\ validbitaddr' = validbitaddr
        /\ pc[c] \in {"work", "written"}
    BY <1>4 DEF WorkWait, WrittenPost, Goto, page
  <2> QED
    BY <1>1, <2>1 DEF DataInv
<1>5. CASE ~(Wipe(c) \/ Name(c) \/ Write(c) \/ WorkWait(c) \/ WrittenPost(c))
  <2> USE DEF TypeOK, Goto, Gone, page
  <2>1. CASE Start(c) \/ Interrupt(c) \/ Kill(c)
    BY <1>1, <2>1 DEF DataInv, Start, Interrupt, Kill, Dies
  <2>2. CASE ScanWait(c) \/ Take(c) \/ TakenPost(c) \/ Skip(c) \/ Found(c)
    BY <1>1, <2>2 DEF DataInv, ScanWait, Take, TakenPost, Skip, Found
  <2>3. CASE Leaving(c)
    BY <1>1, <2>3 DEF DataInv, Leaving, HandlerNoSlot, HandlerStarts,
                      HandlerWait, Clear, HandlerExit, Dies
  <2> QED
    BY <1>5, <2>1, <2>2, <2>3 DEF Step, Registering, Working
<1> QED
  BY <1>3, <1>4, <1>5
------------------------------------------------------------------------------
\* IInv is an invariant.
LEMMA IInvHolds == Spec => []IInv
<1>1. IInv /\ [Next]_vars => IInv'
  <2> SUFFICES ASSUME IInv, [Next]_vars PROVE IInv'
    OBVIOUS
  <2>1. CASE Next
    <3>1. PICK c \in Client : Step(c)
      BY <2>1 DEF Next, Step
    <3>2. TypeOK'
      BY <3>1, TypeStep DEF IInv
    <3>3. SemInv' /\ AddrInv'
      BY <3>1, SemStep, AddrStep DEF IInv
    <3>4. Exclusive' /\ DataInv'
      BY <3>1, ExclusiveStep, DataStep DEF IInv
    <3> QED
      BY <3>2, <3>3, <3>4 DEF IInv
  <2>2. CASE UNCHANGED vars
    BY <2>2 DEF IInv, TypeOK, SemInv, AddrInv, Exclusive, Owned, DataInv, vars,
                page
  <2> QED
    BY <2>1, <2>2
<1> QED
  BY <1>1, InitIInv, PTL DEF Spec

\* The types, and with them that the semaphore never goes above 1, whatever
\* processes die or are interrupted between sem_wait and sem_post.
THEOREM TypeCorrect == Spec => []TypeOK
<1>1. IInv => TypeOK
  BY DEF IInv
<1> QED
  BY <1>1, IInvHolds, PTL

\* For any number of clients, slots and kills no two processes own the same
\* slot, and an owned slot is marked.
THEOREM ExclusiveHolds == Spec => []Exclusive
<1>1. IInv => Exclusive
  BY DEF IInv
<1> QED
  BY <1>1, IInvHolds, PTL

\* A working client's slot holds its own pid and counter, although Wipe and
\* Name write without the semaphore.
THEOREM OwnDataHolds == Spec => []OwnData
<1>1. IInv => OwnData
  BY DEF IInv, DataInv, OwnData
<1> QED
  BY <1>1, IInvHolds, PTL
==============================================================================
