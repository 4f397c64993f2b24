---------------------------- MODULE SectorStore ----------------------------
(***************************************************************************)
(* What the buffer cache promises to the file system: every disk sector is *)
(* a register with a lock.  The holder sees the register's value, may edit *)
(* its view, and commits the view before letting go.  When the machine     *)
(* stops, holders and views are lost and the registers stay.               *)
(***************************************************************************)
CONSTANTS Procs, Sectors, Values, None

VARIABLES value,  \* the register of each sector
          owner,  \* who holds the sector, or None
          view    \* what the holder sees, None without a holder

vars == <<value, owner, view>>

Init == /\ value \in [Sectors -> Values]
        /\ owner = [s \in Sectors |-> None]
        /\ view  = [s \in Sectors |-> None]

Lock(p, s) == /\ owner[s] = None
              /\ owner' = [owner EXCEPT ![s] = p]
              /\ view' = [view EXCEPT ![s] = value[s]]
              /\ UNCHANGED value

Edit(p, s, v) == /\ owner[s] = p
                 /\ view' = [view EXCEPT ![s] = v]
                 /\ UNCHANGED <<value, owner>>

Commit(s) == /\ owner[s] # None
             /\ value' = [value EXCEPT ![s] = view[s]]
             /\ UNCHANGED <<owner, view>>

Unlock(p, s) == /\ owner[s] = p
                /\ view[s] = value[s]
                /\ owner' = [owner EXCEPT ![s] = None]
                /\ view' = [view EXCEPT ![s] = None]
                /\ UNCHANGED value

Crash == /\ owner' = [s \in Sectors |-> None]
         /\ view'  = [s \in Sectors |-> None]
         /\ UNCHANGED value

Next == \/ \E s \in Sectors : 
             \/ \E p \in Procs : \/ Lock(p, s) 
                                 \/ Unlock(p, s)
                                 \/ \E v \in Values : Edit(p, s, v)
             \/ Commit(s)
        \/ Crash

Spec == Init /\ [][Next]_vars
=============================================================================
