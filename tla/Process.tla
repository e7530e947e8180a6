------------------------------ MODULE Process ------------------------------
(***************************************************************************)
(* background/process.go: Process, a command run in the background that    *)
(* can be restarted while other goroutines wait for it to exit.            *)
(*                                                                         *)
(* New and every successful kill inside Restart create a GENERATION: a     *)
(* context with its cancel function, a Cmd, a wait channel of capacity one *)
(* and a userKilled flag, which the fields of the Process then refer to.   *)
(* Restart holds d.mu while it replaces them, but the goroutine that       *)
(* startProcess leaves behind reads d.cancel and d.waitCh without the      *)
(* lock: each of its reads is a step of its own, and Restart's assignments *)
(* are two steps, those up to d.cmd and those from d.waitCh on.            *)
(***************************************************************************)
EXTENDS Naturals, Sequences, FiniteSets

CONSTANTS Callers,    \* goroutines that call methods of the Process
          Owner,      \* the caller of New and Start
          NoCaller,   \* the value of mu when it is unlocked
          MaxGen,     \* bound on generations, New's included
          Exits,      \* how the command may exit by itself
          BinName,    \* the bytes of binName
          Cmdlines    \* what /proc/<pid>/cmdline may hold while the process runs, in bytes

Gens    == 1..MaxGen
Results == {"nil", "nospace", "err"}          \* what cmd.Wait and the output say
Values  == Results \cup {"killed"}            \* "killed" is ErrUserKilled

ASSUME ProcessAssumption ==
    /\ Owner \in Callers
    /\ NoCaller \notin Callers
    /\ MaxGen \in Nat \ {0}
    /\ Exits \subseteq Results

VARIABLES
    mu,          \* holder of d.mu
    pc, ret,     \* per caller: position in Start or Restart, result of the last call
    wch, got,    \* per caller: channel Wait returned (0: none), value received from it
    gen,         \* generation of d.ctx, d.cancel and d.cmd
    chGen,       \* generation of d.waitCh, d.userKilled and d.binName
    os, res,     \* per generation: state of the OS process, how it exited
    sigterm,     \* per generation: it was sent SIGTERM
    userKilled,  \* per generation: *userKilled
    ctxDone,     \* per generation: its context is done
    parentDone,  \* the context New and Restart derive theirs from is done
    chBuf,       \* per generation: the slot of the wait channel
    chClosed,    \* per generation: the wait channel is closed
    gpc, gVal,   \* per generation: wait goroutine's position and the value it sends
    gCancel,     \* per generation: the cancel function its first defer captured
    gClose       \* per generation: the channel its second defer captured

callerVars == <<mu, pc, ret>>
waitVars   == <<wch, got>>
fieldVars  == <<gen, chGen>>
osVars     == <<os, res, sigterm>>
ctxVars    == <<ctxDone, parentDone>>
chanVars   == <<chBuf, chClosed>>
goVars     == <<gpc, gVal, gCancel, gClose>>
procVars   == <<callerVars, waitVars, fieldVars, osVars, userKilled, ctxVars,
                chanVars, goVars>>

CallerPCs == {"idle", "start", "restart", "kill", "signal", "poll", "select",
              "swap", "swapCh", "exec"}
GoPCs == {"none", "spawned", "deferClose", "wait", "load", "send", "close",
          "cancel", "exited", "panic"}

TypeOK ==
    /\ mu \in Callers \cup {NoCaller}
    /\ pc \in [Callers -> CallerPCs]
    /\ ret \in [Callers -> {"none", "ok", "err"}]
    /\ wch \in [Callers -> Gens \cup {0}]
    /\ got \in [Callers -> Values \cup {"none"}]
    /\ gen \in Gens /\ chGen \in Gens
    /\ os \in [Gens -> {"none", "running", "zombie", "reaped"}]
    /\ res \in [Gens -> Results \cup {"none"}]
    /\ sigterm \in [Gens -> BOOLEAN]
    /\ userKilled \in [Gens -> BOOLEAN]
    /\ ctxDone \in [Gens -> BOOLEAN] /\ parentDone \in BOOLEAN
    /\ chBuf \in [Gens -> Values \cup {"empty"}]
    /\ chClosed \in [Gens -> BOOLEAN]
    /\ gpc \in [Gens -> GoPCs]
    /\ gVal \in [Gens -> Values \cup {"none"}]
    /\ gCancel \in [Gens -> Gens \cup {0}]
    /\ gClose \in [Gens -> Gens \cup {0}]

-----------------------------------------------------------------------------
(* New returns the Process and its owner goes on to call Start.            *)
Init ==
    /\ mu = NoCaller
    /\ pc = [c \in Callers |-> IF c = Owner THEN "start" ELSE "idle"]
    /\ ret = [c \in Callers |-> "none"]
    /\ wch = [c \in Callers |-> 0]
    /\ got = [c \in Callers |-> "none"]
    /\ gen = 1 /\ chGen = 1
    /\ os = [g \in Gens |-> "none"]
    /\ res = [g \in Gens |-> "none"]
    /\ sigterm = [g \in Gens |-> FALSE]
    /\ userKilled = [g \in Gens |-> FALSE]
    /\ ctxDone = [g \in Gens |-> FALSE] /\ parentDone = FALSE
    /\ chBuf = [g \in Gens |-> "empty"]
    /\ chClosed = [g \in Gens |-> FALSE]
    /\ gpc = [g \in Gens |-> "none"]
    /\ gVal = [g \in Gens |-> "none"]
    /\ gCancel = [g \in Gens |-> 0]
    /\ gClose = [g \in Gens |-> 0]

-----------------------------------------------------------------------------
(* Methods, one caller at a time inside d.mu.                              *)

Lock(c) == mu = NoCaller /\ mu' = c

\* A Go panic in any goroutine ends the program, and with it every step.
Panicked == \E g \in Gens : gpc[g] = "panic"

Goto(c, label) == ~Panicked /\ pc' = [pc EXCEPT ![c] = label]

\* The deferred unlock of Start and Restart, with their result.
Return(c, r) ==
    /\ mu' = NoCaller
    /\ ret' = [ret EXCEPT ![c] = r]
    /\ Goto(c, "idle")

StartLock(c) ==
    /\ pc[c] = "start"
    /\ Lock(c) /\ Goto(c, "exec")
    /\ UNCHANGED <<ret, waitVars, fieldVars, osVars, userKilled, ctxVars, chanVars, goVars>>

RestartLock(c) ==
    /\ pc[c] = "restart"
    /\ Lock(c) /\ Goto(c, "kill")
    /\ UNCHANGED <<ret, waitVars, fieldVars, osVars, userKilled, ctxVars, chanVars, goVars>>

\* Mutant of KillMark: the signal is never sent.
KillMarkOnly(c) ==
    /\ pc[c] = "kill"
    /\ userKilled' = [userKilled EXCEPT ![chGen] = TRUE]
    /\ Goto(c, "poll")
    /\ UNCHANGED <<mu, ret, waitVars, fieldVars, osVars, ctxVars, chanVars, goVars>>

\* kill: a Cmd that was never started is an error; otherwise note that the
\* user killed it before anything can be sent to it.
KillMark(c) ==
    /\ pc[c] = "kill"
    /\ \/ /\ os[gen] = "none"
          /\ Return(c, "err")
          /\ UNCHANGED userKilled
       \/ /\ os[gen] # "none"
          /\ userKilled' = [userKilled EXCEPT ![chGen] = TRUE]
          /\ Goto(c, "signal")
          /\ UNCHANGED <<mu, ret>>
    /\ UNCHANGED <<waitVars, fieldVars, osVars, ctxVars, chanVars, goVars>>

\* Mutant of KillSignal: the error of Signal is dropped.
KillSignalUnchecked(c) ==
    /\ pc[c] = "signal"
    /\ sigterm' = [sigterm EXCEPT ![gen] = TRUE]
    /\ Goto(c, "poll")
    /\ UNCHANGED <<mu, ret, waitVars, fieldVars, os, res, userKilled, ctxVars, chanVars,
                   goVars>>

\* OSProcess().Signal: a process that cmd.Wait has collected cannot be
\* signalled any more (os.ErrProcessDone); a zombie still can.
KillSignal(c) ==
    /\ pc[c] = "signal"
    /\ \/ /\ os[gen] = "reaped"
          /\ Return(c, "err")
          /\ UNCHANGED sigterm
       \/ /\ os[gen] # "reaped"
          /\ sigterm' = [sigterm EXCEPT ![gen] = TRUE]
          /\ Goto(c, "poll")
          /\ UNCHANGED <<mu, ret>>
    /\ UNCHANGED <<waitVars, fieldVars, os, res, userKilled, ctxVars, chanVars, goVars>>

\* bytes.Split(s, sep)[0]
FirstField(s, sep) ==
    LET ends == {i \in 1..Len(s) : s[i] = sep}
    IN  IF ends = {} THEN s
        ELSE SubSeq(s, 1, (CHOOSE i \in ends : \A j \in ends : i <= j) - 1)

\* isProcExited splits the command line on the character '0'.  The kernel
\* separates and ends arguments with NUL; the line of a zombie is empty, that of a
\* process changes when it executes another program.
isProcExited(g, cmdline) == os[g] = "running" => FirstField(cmdline, "0") # BinName

KillPoll(c) ==
    /\ pc[c] = "poll"
    /\ \/ /\ \E cmdline \in Cmdlines : isProcExited(gen, cmdline)
          /\ Goto(c, "swap")
          /\ UNCHANGED <<mu, ret>>
       \/ /\ \E cmdline \in Cmdlines : ~isProcExited(gen, cmdline)
          /\ Goto(c, "select")
          /\ UNCHANGED <<mu, ret>>
       \/ /\ os[gen] = "reaped"              \* ESRCH: gone between open and read
          /\ Return(c, "err")
    /\ UNCHANGED <<waitVars, fieldVars, osVars, userKilled, ctxVars, chanVars, goVars>>

\* Both cases of the select may be ready; Go then picks either.
KillSelect(c) ==
    /\ pc[c] = "select"
    /\ \/ Goto(c, "poll") /\ UNCHANGED <<mu, ret>>
       \/ ctxDone[gen] /\ Return(c, "err")
    /\ UNCHANGED <<waitVars, fieldVars, osVars, userKilled, ctxVars, chanVars, goVars>>

\* Restart: d.ctx, d.cancel, d.cmd ...
RestartSwap(c) ==
    /\ pc[c] = "swap"
    /\ gen < MaxGen
    /\ gen' = gen + 1
    /\ ctxDone' = [ctxDone EXCEPT ![gen + 1] = parentDone]
    /\ Goto(c, "swapCh")
    /\ UNCHANGED <<mu, ret, waitVars, chGen, osVars, userKilled, parentDone, chanVars, goVars>>

\* ... then d.waitCh, d.userKilled, d.binName.
RestartSwapCh(c) ==
    /\ pc[c] = "swapCh"
    /\ chGen' = gen
    /\ Goto(c, "exec")
    /\ UNCHANGED <<mu, ret, waitVars, gen, osVars, userKilled, ctxVars, chanVars, goVars>>

\* cmd.Start fails when its context is done, and may fail for any other
\* reason; only a successful start leaves a wait goroutine behind.
startProcess(c) ==
    /\ pc[c] = "exec"
    /\ \/ Return(c, "err") /\ UNCHANGED <<os, gpc>>
       \/ /\ ~ctxDone[gen]
          /\ os' = [os EXCEPT ![gen] = "running"]
          /\ gpc' = [gpc EXCEPT ![gen] = "spawned"]
          /\ Return(c, "ok")
    /\ UNCHANGED <<waitVars, fieldVars, res, sigterm, userKilled, ctxVars, chanVars,
                   gVal, gCancel, gClose>>

Wait(c) ==
    /\ mu = NoCaller /\ ~Panicked
    /\ wch' = [wch EXCEPT ![c] = chGen]
    /\ UNCHANGED <<callerVars, got, fieldVars, osVars, userKilled, ctxVars, chanVars, goVars>>

\* A receive from the channel Wait returned.  A closed and drained channel
\* yields the zero value, a nil error.
Receive(c) ==
    /\ wch[c] # 0 /\ ~Panicked
    /\ \/ /\ chBuf[wch[c]] # "empty"
          /\ got' = [got EXCEPT ![c] = chBuf[wch[c]]]
          /\ chBuf' = [chBuf EXCEPT ![wch[c]] = "empty"]
       \/ /\ chBuf[wch[c]] = "empty" /\ chClosed[wch[c]]
          /\ got' = [got EXCEPT ![c] = "nil"]
          /\ UNCHANGED chBuf
    /\ wch' = [wch EXCEPT ![c] = 0]
    /\ UNCHANGED <<callerVars, fieldVars, osVars, userKilled, ctxVars, chClosed, goVars>>

MethodStep(c) ==
    \/ StartLock(c) \/ RestartLock(c)
    \/ KillMark(c) \/ KillSignal(c) \/ KillPoll(c) \/ KillSelect(c)
    \/ RestartSwap(c) \/ RestartSwapCh(c) \/ startProcess(c)

-----------------------------------------------------------------------------
(* The wait goroutine of generation g.  It captured cmd and userKilled, but *)
(* finds d.cancel and d.waitCh through the Process each time it uses them. *)

GoGoto(g, label) == ~Panicked /\ gpc' = [gpc EXCEPT ![g] = label]

DeferCancel(g) ==
    /\ gpc[g] = "spawned"
    /\ gCancel' = [gCancel EXCEPT ![g] = gen]
    /\ GoGoto(g, "deferClose")
    /\ UNCHANGED <<callerVars, waitVars, fieldVars, osVars, userKilled, ctxVars, chanVars,
                   gVal, gClose>>

DeferClose(g) ==
    /\ gpc[g] = "deferClose"
    /\ gClose' = [gClose EXCEPT ![g] = chGen]
    /\ GoGoto(g, "wait")
    /\ UNCHANGED <<callerVars, waitVars, fieldVars, osVars, userKilled, ctxVars, chanVars,
                   gVal, gCancel>>

\* Mutant of CmdWait: the result is sent without looking at userKilled.
CmdWaitThenSend(g) ==
    /\ gpc[g] = "wait" /\ os[g] = "zombie"
    /\ os' = [os EXCEPT ![g] = "reaped"]
    /\ GoGoto(g, "send")
    /\ UNCHANGED <<callerVars, waitVars, fieldVars, res, sigterm, userKilled, ctxVars,
                   chanVars, gVal, gCancel, gClose>>

\* cmd.Wait collects the zombie, then drains and flushes the output.
CmdWait(g) ==
    /\ gpc[g] = "wait"
    /\ os[g] = "zombie"
    /\ os' = [os EXCEPT ![g] = "reaped"]
    /\ GoGoto(g, "load")
    /\ UNCHANGED <<callerVars, waitVars, fieldVars, res, sigterm, userKilled, ctxVars,
                   chanVars, gVal, gCancel, gClose>>

\* Mutant of LoadUserKilled: a killed process reports like any other.
LoadOwnResult(g) ==
    /\ gpc[g] = "load"
    /\ gVal' = [gVal EXCEPT ![g] = res[g]]
    /\ GoGoto(g, "send")
    /\ UNCHANGED <<callerVars, waitVars, fieldVars, osVars, userKilled, ctxVars, chanVars,
                   gCancel, gClose>>

LoadUserKilled(g) ==
    /\ gpc[g] = "load"
    /\ gVal' = [gVal EXCEPT ![g] = IF userKilled[g] THEN "killed" ELSE res[g]]
    /\ GoGoto(g, "send")
    /\ UNCHANGED <<callerVars, waitVars, fieldVars, osVars, userKilled, ctxVars, chanVars,
                   gCancel, gClose>>

\* Mutant of Send: it closes the channel, which the deferred close does again.
SendAndClose(g) ==
    /\ gpc[g] = "send"
    /\ chBuf[chGen] = "empty" /\ ~chClosed[chGen]
    /\ chBuf' = [chBuf EXCEPT ![chGen] = gVal[g]]
    /\ chClosed' = [chClosed EXCEPT ![chGen] = TRUE]
    /\ GoGoto(g, "close")
    /\ UNCHANGED <<callerVars, waitVars, fieldVars, osVars, userKilled, ctxVars, gVal,
                   gCancel, gClose>>

\* d.waitCh <- err: d.waitCh is read now.  A full channel blocks.
Send(g) ==
    /\ gpc[g] = "send"
    /\ \/ chClosed[chGen] /\ GoGoto(g, "panic") /\ UNCHANGED chBuf
       \/ /\ ~chClosed[chGen] /\ chBuf[chGen] = "empty"
          /\ chBuf' = [chBuf EXCEPT ![chGen] = gVal[g]]
          /\ GoGoto(g, "close")
    /\ UNCHANGED <<callerVars, waitVars, fieldVars, osVars, userKilled, ctxVars, chClosed,
                   gVal, gCancel, gClose>>

DeferredClose(g) ==
    /\ gpc[g] = "close"
    /\ \/ chClosed[gClose[g]] /\ GoGoto(g, "panic") /\ UNCHANGED chClosed
       \/ /\ ~chClosed[gClose[g]]
          /\ chClosed' = [chClosed EXCEPT ![gClose[g]] = TRUE]
          /\ GoGoto(g, "cancel")
    /\ UNCHANGED <<callerVars, waitVars, fieldVars, osVars, userKilled, ctxVars, chBuf,
                   gVal, gCancel, gClose>>

DeferredCancel(g) ==
    /\ gpc[g] = "cancel"
    /\ ctxDone' = [ctxDone EXCEPT ![gCancel[g]] = TRUE]
    /\ GoGoto(g, "exited")
    /\ UNCHANGED <<callerVars, waitVars, fieldVars, osVars, userKilled, parentDone,
                   chanVars, gVal, gCancel, gClose>>

WaitGoroutine(g) ==
    \/ DeferCancel(g) \/ DeferClose(g) \/ CmdWait(g) \/ LoadUserKilled(g)
    \/ Send(g) \/ DeferredClose(g) \/ DeferredCancel(g)

-----------------------------------------------------------------------------
(* The operating system and the surrounding context.                       *)

Exit(g, r) ==
    /\ os[g] = "running" /\ ~Panicked
    /\ os' = [os EXCEPT ![g] = "zombie"]
    /\ res' = [res EXCEPT ![g] = r]
    /\ UNCHANGED <<callerVars, waitVars, fieldVars, sigterm, userKilled, ctxVars, chanVars,
                   goVars>>

\* CommandContext kills the process once its context is done.
CtxKill(g) == ctxDone[g] /\ Exit(g, "err")

CancelParent ==
    /\ ~parentDone /\ ~Panicked
    /\ parentDone' = TRUE
    /\ ctxDone' = [g \in Gens |-> ctxDone[g] \/ g <= gen]
    /\ UNCHANGED <<callerVars, waitVars, fieldVars, osVars, userKilled, chanVars, goVars>>

-----------------------------------------------------------------------------
(* Clients: any caller that is not inside a method may call Restart or     *)
(* Wait, any number of times.                                              *)

\* Callers inside Restart that may still create a generation.
Restarting ==
    {c \in Callers : pc[c] \in {"restart", "kill", "signal", "poll", "select", "swap"}}

\* MaxGen bounds the calls, so that no Restart is ever cut short by it.
CallRestart(c) ==
    /\ pc[c] = "idle"
    /\ gen + Cardinality(Restarting) < MaxGen
    /\ Goto(c, "restart")
    /\ UNCHANGED <<mu, ret, waitVars, fieldVars, osVars, userKilled, ctxVars, chanVars, goVars>>

CallWait(c) == pc[c] = "idle" /\ wch[c] = 0 /\ Wait(c)

Next ==
    \/ \E c \in Callers : CallRestart(c) \/ CallWait(c) \/ MethodStep(c) \/ Receive(c)
    \/ \E g \in Gens : WaitGoroutine(g) \/ CtxKill(g) \/ \E r \in Exits : Exit(g, r)
    \/ CancelParent

\* Methods are scheduled, sync.Mutex starves no waiter, and a process that was told
\* to stop, by SIGTERM or by its context, stops.  Nothing obliges a client to call,
\* nor a wait goroutine to get past cmd.Wait, which also waits for the output to be
\* read.
Fairness ==
    /\ \A c \in Callers : /\ WF_procVars(MethodStep(c))
                           /\ SF_procVars(StartLock(c) \/ RestartLock(c))
    /\ \A g \in Gens : /\ WF_procVars(CtxKill(g))
                       /\ WF_procVars(sigterm[g] /\ \E r \in Exits : Exit(g, r))

Spec == Init /\ [][Next]_procVars
LiveSpec == Spec /\ Fairness

-----------------------------------------------------------------------------
(* Properties.                                                             *)

\* A process that Restart replaced never reports a result of its own: if its
\* goroutine has decided what to send, that is ErrUserKilled.  kill stores
\* *userKilled before it signals, and gives up when the process was already
\* collected, so the load after cmd.Wait cannot miss the store.  The watcher
\* in cli/docker.go relies on it to tell a restart from a crash.
ReplacedReportsUserKilled ==
    \A g \in Gens : g < gen => gVal[g] \in {"none", "killed"}

\* A result other than ErrUserKilled in a wait channel is that of the process
\* the channel was made for, which has exited with exactly that result: the
\* unlocked d.waitCh sends of old goroutines can misplace an ErrUserKilled but
\* never a crash.
CrashErrorsAreGenuine ==
    \A g \in Gens : chBuf[g] \in Results => os[g] = "reaped" /\ res[g] = chBuf[g]

\* At most one generation of the command runs: isProcExited's comment says that a
\* process that is not in /proc any more, or has another command line, has exited.
OneLiveProcess ==
    \A g, h \in Gens : os[g] = "running" /\ os[h] = "running" => g = h

\* Whatever isProcExited says, Restart never leaves a process behind that was not told to
\* stop, or that will not report ErrUserKilled when it does: a replaced process that
\* still runs is one that is on its way out.
ReplacedWereSignalled ==
    \A g \in Gens : g < gen => sigterm[g] /\ userKilled[g]

\* A Process that was never restarted cannot panic: closing d.waitCh twice or
\* sending on it after the close takes the goroutines of two generations.
PanicOnlyAfterRestart == Panicked => gen > 1

\* Every call of Restart returns, whether it replaces the process or fails: the
\* polling loop in kill, which holds d.mu, ends once the process obeys SIGTERM.
RestartReturns ==
    \A c \in Callers : pc[c] = "restart" ~> (pc[c] = "idle" \/ Panicked)

-----------------------------------------------------------------------------
(* What a Process promises its users.                                      *)

daemonProc ==
    [g \in Gens |->
        CASE os[g] = "none"                    -> "none"
          [] os[g] = "running"                 -> "up"
          [] gpc[g] = "close"                  -> "reported"
          [] gpc[g] \in {"cancel", "exited"}   -> "finished"
          [] gpc[g] = "panic"                  -> "broken"
          [] OTHER                             -> "gone"]

daemonSaid ==
    [g \in Gens |-> IF gpc[g] \in {"close", "cancel", "exited"} THEN gVal[g] ELSE "none"]

D == INSTANCE Daemon WITH
        cur <- gen, proc <- daemonProc, exit <- res, marked <- userKilled,
        slot <- chBuf, closed <- chClosed, said <- daemonSaid

\* Every step of the code, the unlocked ones included, is a step of Daemon or
\* changes nothing Daemon talks about.
ImplementsDaemon == D!DaemonSpec
=============================================================================
