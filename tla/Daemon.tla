------------------------------- MODULE Daemon -------------------------------
(***************************************************************************)
(* What background.Process promises to the rest of envbox: generations of  *)
(* one command, each reporting once how it ended.  Process, the model of   *)
(* the code, implements this specification; Envbox is built on it.         *)
(*                                                                         *)
(* The promise is as weak as the code makes it.  A generation's own result *)
(* goes to its own channel and only while it is current, but ErrUserKilled *)
(* may land in, and the close may hit, the channel of a later generation,  *)
(* and once there was a restart the program may panic.                     *)
(***************************************************************************)
EXTENDS Naturals

CONSTANT MaxGen      \* bound on generations

Gens    == 1..MaxGen
Results == {"nil", "nospace", "err"}
Values  == Results \cup {"killed"}

VARIABLES
    cur,     \* the current generation
    proc,    \* per generation: none, up, gone, reported, finished or broken
    exit,    \* per generation: how its process ended
    marked,  \* per generation: a kill was attempted
    slot,    \* per generation: the value in its channel
    closed,  \* per generation: its channel is closed
    said     \* per generation: the value its goroutine reported

daemonVars == <<cur, proc, exit, marked, slot, closed, said>>

DaemonInit ==
    /\ cur = 1
    /\ proc = [g \in Gens |-> "none"]
    /\ exit = [g \in Gens |-> "none"]
    /\ marked = [g \in Gens |-> FALSE]
    /\ slot = [g \in Gens |-> "empty"]
    /\ closed = [g \in Gens |-> FALSE]
    /\ said = [g \in Gens |-> "none"]

Launch ==
    /\ proc[cur] = "none"
    /\ proc' = [proc EXCEPT ![cur] = "up"]
    /\ UNCHANGED <<cur, exit, marked, slot, closed, said>>

Terminate(g, r) ==
    /\ proc[g] = "up"
    /\ proc' = [proc EXCEPT ![g] = "gone"]
    /\ exit' = [exit EXCEPT ![g] = r]
    /\ UNCHANGED <<cur, marked, slot, closed, said>>

\* Restart begins: the result of the current process stops mattering.
Mark ==
    /\ proc[cur] # "none"
    /\ marked' = [marked EXCEPT ![cur] = TRUE]
    /\ UNCHANGED <<cur, proc, exit, slot, closed, said>>

\* Restart succeeds, unless the current process reported a result of its own.
Replace ==
    /\ cur < MaxGen
    /\ marked[cur] /\ said[cur] \in {"none", "killed"}
    /\ cur' = cur + 1
    /\ UNCHANGED <<proc, exit, marked, slot, closed, said>>

\* Mutant of Report: a replaced generation reports its own result.
ReportOwn(g, v, c) ==
    /\ proc[g] = "gone"
    /\ slot[c] = "empty" /\ ~closed[c]
    /\ v = exit[g] /\ c \in g..cur
    /\ proc' = [proc EXCEPT ![g] = "reported"]
    /\ said' = [said EXCEPT ![g] = v]
    /\ slot' = [slot EXCEPT ![c] = v]
    /\ UNCHANGED <<cur, exit, marked, closed>>

\* The goroutine of g reports v on the channel of c.
Report(g, v, c) ==
    /\ proc[g] = "gone"
    /\ slot[c] = "empty" /\ ~closed[c]
    /\ \/ v = exit[g] /\ g = cur /\ c = g
       \/ v = "killed" /\ marked[g] /\ c \in g..cur
    /\ proc' = [proc EXCEPT ![g] = "reported"]
    /\ said' = [said EXCEPT ![g] = v]
    /\ slot' = [slot EXCEPT ![c] = v]
    /\ UNCHANGED <<cur, exit, marked, closed>>

Close(g, c) ==
    /\ proc[g] = "reported"
    /\ c \in g..cur /\ ~closed[c]
    /\ proc' = [proc EXCEPT ![g] = "finished"]
    /\ closed' = [closed EXCEPT ![c] = TRUE]
    /\ UNCHANGED <<cur, exit, marked, slot, said>>

\* A send on, or a close of, a channel that another generation closed.
Panic(g) ==
    /\ proc[g] \in {"gone", "reported"}
    /\ cur > 1
    /\ \E c \in g..cur : closed[c]
    /\ proc' = [proc EXCEPT ![g] = "broken"]
    /\ said' = [said EXCEPT ![g] = "none"]
    /\ UNCHANGED <<cur, exit, marked, slot, closed>>

Broken == \E g \in Gens : proc[g] = "broken"

Drain(c) ==
    /\ slot[c] # "empty"
    /\ slot' = [slot EXCEPT ![c] = "empty"]
    /\ UNCHANGED <<cur, proc, exit, marked, closed, said>>

DaemonNext ==
    \/ Launch \/ Mark \/ Replace
    \/ \E g \in Gens :
          \/ Panic(g) \/ Drain(g)
          \/ \E r \in Results : Terminate(g, r)
          \/ \E c \in Gens : Close(g, c) \/ \E v \in Values : Report(g, v, c)

DaemonSpec == DaemonInit /\ [][DaemonNext]_daemonVars
=============================================================================
