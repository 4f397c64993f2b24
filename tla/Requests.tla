------------------------------ MODULE Requests ------------------------------
(***************************************************************************)
(* requestHandle of p4/p4a/request.c in several worker threads at once,    *)
(* with the wrappers of cs537.c it calls, the clients and the CGI programs *)
(* it starts.  ServerPool decides which connection a worker handles; here  *)
(* a worker that is idle may be given one at any time.                     *)
(*                                                                         *)
(* All threads are one process: wait() may return any thread's child, and  *)
(* a wrapper that fails ends them all.                                     *)
(***************************************************************************)
EXTENDS Integers, FiniteSets

CONSTANT Workers
ASSUME WorkerAssumption == IsFiniteSet(Workers)

VARIABLES
  at,       \* where each worker is in requestHandle
  sent,     \* what its client has sent: "nothing", "line", "all"
  peer,     \* its client: "reads" what it gets, "deaf" (connected, reads no more), "gone"
  running,  \* the CGI programs that run: children of the process, whoever started them
  stuck,    \* those of them that will never end
  zombie,   \* those that have ended and are not waited for
  up        \* "yes", or what ended the server

requestVars == <<at, sent, peer, running, stuck, zombie, up>>
client == <<sent, peer>>
children == <<running, stuck, zombie>>
-----------------------------------------------------------------------------
Stages == {"idle",     \* not in requestHandle
           "line",     \* about to read the request line
           "headers",  \* about to read a header for the first time
           "spin",     \* in the loop of requestReadhdrs with nothing left to read
           "file",     \* about to parse the URI and look for the file
           "error", "static", "dynamic",   \* in requestError, requestServe...
           "wait",     \* in Wait
           "return"}

RequestInit ==
  /\ at      = [w \in Workers |-> "idle"]
  /\ sent    = [w \in Workers |-> "nothing"]
  /\ peer    = [w \in Workers |-> "gone"]
  /\ running = 0
  /\ stuck   = 0
  /\ zombie  = 0
  /\ up      = "yes"

Goes(w, from, to) == up = "yes" /\ at[w] = from /\ at' = [at EXCEPT ![w] = to]
Dies(why) == up = "yes" /\ up' = why /\ UNCHANGED <<at, client, children>>
-----------------------------------------------------------------------------
(* The client sends the request line and the headers, and may at any time  *)
(* stop reading, for good, or leave; what it has sent can still be read.   *)
SendMore(w) == /\ up = "yes" /\ peer[w] # "gone" /\ sent[w] # "all"
               /\ sent' = [sent EXCEPT ![w] = IF @ = "nothing" THEN "line" ELSE "all"]
               /\ UNCHANGED <<at, peer, children, up>>

StopReading(w) == /\ up = "yes" /\ peer[w] = "reads"
                  /\ peer' = [peer EXCEPT ![w] = "deaf"]
                  /\ UNCHANGED <<at, sent, children, up>>

Leave(w) == /\ up = "yes" /\ peer[w] # "gone"
            /\ peer' = [peer EXCEPT ![w] = "gone"]
            /\ UNCHANGED <<at, sent, children, up>>

Begin(w) == /\ Goes(w, "idle", "line")
            /\ sent' = [sent EXCEPT ![w] = "nothing"]
            /\ peer' = [peer EXCEPT ![w] = "reads"]
            /\ UNCHANGED <<children, up>>

(* At the end of the file buf is what the stack held: any method.          *)
Readable(w, part) == sent[w] \in part \/ peer[w] = "gone"
ReadLine(w) == /\ Readable(w, {"line", "all"})
               /\ Goes(w, "line", "headers") \/ Goes(w, "line", "error")
               /\ UNCHANGED <<client, children, up>>

ReadHeaders(w) == /\ sent[w] = "all"
                  /\ Goes(w, "headers", "file")
                  /\ UNCHANGED <<client, children, up>>

(* The client has left before the empty line: readline leaves buf alone,   *)
(* and the loop never ends, unless buf has the "\r\n" of an earlier call.  *)
HeadersEnd(w) == /\ sent[w] # "all" /\ peer[w] = "gone"
                 /\ Goes(w, "headers", "spin") \/ Goes(w, "headers", "file")
                 /\ UNCHANGED <<client, children, up>>

Lookup(w) == /\ \E kind \in {"error", "static", "dynamic"} : Goes(w, "file", kind)
             /\ UNCHANGED <<client, children, up>>

(* What the response of requestError and requestServeStatic comes to.      *)
Respond(w) == /\ Goes(w, "error", "return") \/ Goes(w, "static", "return")
              /\ UNCHANGED <<client, children, up>>

(* The header is written and the CGI program started.  A child whose       *)
(* execve fails exits as well.                                             *)
ServeDynamic(w) == /\ Goes(w, "dynamic", "wait")
                   /\ running' = running + 1
                   /\ UNCHANGED <<stuck, zombie, client, up>>

(* Rio_writen blocks while the socket's buffer is full.  With a client     *)
(* that reads no more the worker may get to the end of what it writes,     *)
(* when the rest fits, or stay where it is for ever.                       *)
Writes(w) == Respond(w) \/ ServeDynamic(w)
Drains(w) == peer[w] # "deaf"

CgiEnds == /\ up = "yes" /\ running > 0
           /\ running' = running - 1
           /\ zombie' = zombie + 1
           /\ UNCHANGED <<stuck, at, client, up>>

(* A program may run for ever, or block as the worker does: its standard   *)
(* output is the connection.                                               *)
CgiSticks == /\ up = "yes" /\ running > 0
             /\ running' = running - 1
             /\ stuck' = stuck + 1
             /\ UNCHANGED <<zombie, at, client, up>>

ReapedOrNot == zombie' = IF zombie > 0 THEN zombie - 1 ELSE 0
ReapedAll == zombie > 0 /\ zombie' = 0
(* Wait(NULL) returns for any child of any worker. *)
Reaped == zombie > 0 /\ zombie' = zombie - 1
Wait(w) == /\ Goes(w, "wait", "return")
           /\ Reaped
           /\ UNCHANGED <<running, stuck, client, up>>

Unreaped == running + stuck + zombie

Return(w) == /\ Goes(w, "return", "idle")
             /\ peer' = [peer EXCEPT ![w] = "gone"]
             /\ sent' = [sent EXCEPT ![w] = "nothing"]
             /\ UNCHANGED <<children, up>>

(* A read or a write on a connection whose client has gone fails, and so   *)
(* may open, mmap (of an empty file) and fork; wait() fails when the       *)
(* process has no child left.                                              *)
MayFail(w) == \/ at[w] \in {"line", "headers", "spin", "error"} /\ peer[w] = "gone"
              \/ at[w] \in {"static", "dynamic"}
              \/ at[w] = "wait" /\ Unreaped = 0
WrapperFails(w) == MayFail(w) /\ Dies(IF at[w] = "wait" THEN "wait" ELSE "wrapper")
-----------------------------------------------------------------------------
Handles(w) == \/ ReadLine(w) \/ ReadHeaders(w) \/ HeadersEnd(w) \/ Lookup(w)
              \/ Return(w)

RequestNext ==
  \/ \E w \in Workers : \/ Handles(w) \/ Writes(w) \/ Wait(w) \/ WrapperFails(w)
                       \/ Begin(w) \/ SendMore(w) \/ StopReading(w) \/ Leave(w)
  \/ CgiEnds \/ CgiSticks

(* Threads run, a connection takes what is written to it as long as its    *)
(* client reads (and when it is gone), CGI programs that are not stuck     *)
(* end, and the host's wait() does not prefer the same threads for ever.   *)
(* Clients need not do anything.                                           *)
RequestSpec ==
  /\ RequestInit /\ [][RequestNext]_requestVars
  /\ \A w \in Workers : /\ WF_requestVars(Handles(w)) 
                        /\ WF_requestVars(Drains(w) /\ Writes(w))
                        /\ SF_requestVars(Wait(w))
  /\ WF_requestVars(CgiEnds)
-----------------------------------------------------------------------------
(* Although a worker takes whatever child ends first, there are always as  *)
(* many children as workers in Wait: a worker never waits for nothing,     *)
(* wait() never fails and ends the server, and no zombie stays behind.     *)
WaitCovered == /\ at \in [Workers -> Stages]
               /\ running \in Nat /\ stuck \in Nat /\ zombie \in Nat
               /\ Unreaped = Cardinality({w \in Workers : at[w] = "wait"})
               /\ up \in {"yes", "wrapper"}

(* A worker whose client has sent its request and keeps reading, or leaves *)
(* after that, returns to the pool, whatever the other clients do, unless  *)
(* a wrapper fails or it is left in Wait with no CGI program that ends:    *)
(* the workers share the programs, so that one program that never ends     *)
(* holds up one of them, not always the one that started it.               *)
Pending(w) == at[w] # "idle" /\ sent[w] = "all"
OnlyStuck(w) == at[w] = "wait" /\ stuck > 0 /\ running + zombie = 0
Served == \A w \in Workers : 
  Pending(w) ~> (at[w] = "idle" \/ up = "wrapper" \/ peer[w] = "deaf" \/ OnlyStuck(w))
=============================================================================
