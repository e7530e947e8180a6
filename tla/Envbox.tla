------------------------------- MODULE Envbox -------------------------------
(***************************************************************************)
(* cli/docker.go: the `envbox docker` command, from RunE's first goroutine *)
(* to the end of the program, with the goroutines it leaves running when   *)
(* it returns and cmd/envbox/main.go gives up the main goroutine.          *)
(*                                                                         *)
(*   main       RunE: sysbox, dockerd, the inner container, one retry      *)
(*   signals    waits for the first signal and cancels signalCtx           *)
(*   sysbox     runs sysbox-mgr and sysbox-fs, panics when one exits       *)
(*   watch      waits for dockerd, restarts it when its disk was full      *)
(*   rewatch    waits for the dockerd of the retry                         *)
(*   shutdown   forwards the signal to the bootstrap process, then cancels *)
(*                                                                         *)
(* dockerd is a background.Process, taken at the level of its promise.     *)
(***************************************************************************)
EXTENDS Daemon, Sequences

CONSTANT Bootstrap    \* whether a bootstrap script is configured

ASSUME EnvboxAssumption == MaxGen \in Nat \ {0} /\ Bootstrap \in BOOLEAN

Outcomes == {"ok", "nospace", "err"}            \* what runDockerCVM returns

VARIABLES
    main,       \* position of RunE
    runs,       \* outcomes of the calls of runDockerCVM so far
    ctxDone,    \* cancel was called
    signalled,  \* a signal has arrived
    sigDone,    \* signalCtx is done
    sysbox,     \* sysbox-mgr and sysbox-fs: off, up, or one of them down
    watch, watchGen, rewatch, rewatchGen,
                \* the two watchers, and the channel each obtained from Wait
    exec,       \* the bootstrap process: none, running, stopping or exited
    shutdown,   \* position of the shutdown goroutine
    pid,        \* what GetExecPID returned: 0 or the process
    failed,     \* a shutdown step failed or ran into the 90 seconds
    program,    \* running, or how the program ended
    cause       \* the message it ended with

cmdVars      == <<main, runs>>
ctxVars      == <<ctxDone, signalled, sigDone>>
watchVars    == <<watch, watchGen, rewatch, rewatchGen>>
shutdownVars == <<exec, shutdown, pid, failed>>
vars == <<daemonVars, cmdVars, ctxVars, sysbox, watchVars, shutdownVars, program, cause>>

Init ==
    /\ DaemonInit
    /\ main = "sysbox" /\ runs = <<>>
    /\ ctxDone = FALSE /\ signalled = FALSE /\ sigDone = FALSE
    /\ sysbox = "off"
    /\ watch = "none" /\ watchGen = 0 /\ rewatch = "none" /\ rewatchGen = 0
    /\ exec = "none" /\ shutdown = "none" /\ pid = 0 /\ failed = FALSE
    /\ program = "running" /\ cause = "none"

\* Positions at which a watcher holds the lock of the Process.
Restarting == {"restart", "relaunch"}

\* log.Fatal, a panic, or an error that main.go turns into os.Exit(1).
Alive         == program = "running"
End(how, why) == Alive /\ program' = how /\ cause' = why
Continue      == Alive /\ UNCHANGED <<program, cause>>

-----------------------------------------------------------------------------
(* RunE.                                                                   *)

\* A failing step ends RunE with its error.
Fail(why) ==
    /\ End("error", why)
    /\ UNCHANGED <<daemonVars, cmdVars, ctxVars, sysbox, watchVars, shutdownVars>>

StartSysbox ==
    /\ main = "sysbox"
    /\ \/ /\ main' = "start" /\ sysbox' = "up"
          /\ Continue /\ UNCHANGED <<daemonVars, runs, ctxVars, watchVars, shutdownVars>>
       \/ Fail("flags")

StartDockerd ==
    /\ main = "start"
    /\ \/ /\ Launch
          /\ main' = "manager"
          /\ Continue /\ UNCHANGED <<runs, ctxVars, sysbox, watchVars, shutdownVars>>
       \/ Fail("start dockerd")

\* WaitForManager, then `go` for the watcher.
WaitManager ==
    /\ main = "manager"
    /\ \/ /\ main' = "daemon" /\ watch' = "spawned"
          /\ Continue
          /\ UNCHANGED <<daemonVars, runs, ctxVars, sysbox, watchGen, rewatch, rewatchGen,
                         shutdownVars>>
       \/ Fail("sysbox-mgr")

\* WaitForDaemon and the certificates.  Only a live dockerd answers the ping.
WaitDaemon ==
    /\ main = "daemon"
    /\ \/ /\ proc[cur] = "up"
          /\ main' = "cvm"
          /\ Continue
          /\ UNCHANGED <<daemonVars, runs, ctxVars, sysbox, watchVars, shutdownVars>>
       \/ Fail("dockerd")

\* Mutant of RunCVM: every full disk leads to another restart.
RunCVMUntilSpace(r) ==
    /\ main \in {"cvm", "cvm2"}
    /\ r = "nospace"
    /\ runs' = Append(runs, r)
    /\ main' = "mark" /\ Continue
    /\ UNCHANGED <<daemonVars, ctxVars, sysbox, watchVars, shutdownVars>>

\* runDockerCVM.  No space sends the first attempt on to a restart of dockerd.
\* The second assigns an err of its own: the one tested after it, and wrapped
\* in RunE's error, still holds the first attempt's.
RunCVM(r) ==
    /\ main \in {"cvm", "cvm2"}
    /\ r = "ok" => proc[cur] = "up"
    /\ runs' = Append(runs, r)
    /\ exec' = IF r = "ok" /\ Bootstrap THEN "running" ELSE exec
    /\ \/ r = "ok" /\ main = "cvm" /\ main' = "up" /\ Continue
       \/ r = "nospace" /\ main = "cvm" /\ main' = "mark" /\ Continue
       \/ /\ (r = "err" \/ main = "cvm2")
          /\ main' = "failed" /\ End("error", "run")
    /\ UNCHANGED <<daemonVars, ctxVars, sysbox, watchVars, shutdown, pid, failed>>

\* dockerd.Restart with the vfs driver: kill marks and signals the process ...
MarkRestart ==
    /\ main = "mark"
    /\ \/ /\ watch \notin Restarting
          /\ Mark
          /\ main' = "restart"
          /\ Continue /\ UNCHANGED <<runs, ctxVars, sysbox, watchVars, shutdownVars>>
       \/ Fail("dockerd args")

\* ... and cannot replace it if it was already collected.
ReplaceRestart ==
    /\ main = "restart"
    /\ \/ Replace /\ main' = "relaunch" /\ Continue
       \/ UNCHANGED <<daemonVars, main>> /\ End("error", "restart dockerd")
    /\ UNCHANGED <<runs, ctxVars, sysbox, watchVars, shutdownVars>>

Relaunch ==
    /\ main = "relaunch"
    /\ \/ /\ Launch
          /\ main' = "cvm2" /\ rewatch' = "spawned"
          /\ Continue
          /\ UNCHANGED <<runs, ctxVars, sysbox, watch, watchGen, rewatchGen, shutdownVars>>
       \/ Fail("restart dockerd")

\* RunE returns nil, leaving the shutdown goroutine behind.
Return ==
    /\ main = "up"
    /\ main' = "done" /\ shutdown' = "signal"
    /\ Continue
    /\ UNCHANGED <<daemonVars, runs, ctxVars, sysbox, watchVars, exec, pid, failed>>

Main ==
    \/ StartSysbox \/ StartDockerd \/ WaitManager \/ WaitDaemon
    \/ (\E r \in Outcomes : RunCVM(r))
    \/ MarkRestart \/ ReplaceRestart \/ Relaunch \/ Return

-----------------------------------------------------------------------------
(* The watchers.                                                           *)

\* Wait hands out the channel of the generation that is current at the call,
\* which is when the goroutine gets to run; a Restart holds the lock.
WatchWait ==
    /\ watch \in {"spawned", "rewait"} /\ main \notin Restarting
    /\ watch' = IF watch = "spawned" THEN "recv" ELSE "recv2"
    /\ watchGen' = cur
    /\ Continue
    /\ UNCHANGED <<daemonVars, cmdVars, ctxVars, sysbox, rewatch, rewatchGen, shutdownVars>>

RewatchWait ==
    /\ rewatch = "spawned" /\ watch \notin Restarting
    /\ rewatch' = "recv" /\ rewatchGen' = cur
    /\ Continue
    /\ UNCHANGED <<daemonVars, cmdVars, ctxVars, sysbox, watch, watchGen, shutdownVars>>

\* A value received from channel c; a closed channel yields nil.
Received(c, v) ==
    \/ slot[c] = v /\ Drain(c)
    \/ slot[c] = "empty" /\ closed[c] /\ v = "nil" /\ UNCHANGED daemonVars

\* Out of disk: restart on an ephemeral directory.  Any other error ends the
\* program, unless it says that somebody restarted dockerd.
WatchRecv(v) ==
    /\ watch \in {"recv", "recv2"}
    /\ Received(watchGen, v)
    /\ \/ watch = "recv" /\ v = "nospace" /\ watch' = "mark" /\ Continue
       \/ v \in {"nil", "killed"} /\ watch' = "done" /\ Continue
       \/ /\ (v = "err" \/ (v = "nospace" /\ watch = "recv2"))
          /\ watch' = "done" /\ End("fatal", "dockerd exited")
    /\ UNCHANGED <<cmdVars, ctxVars, sysbox, watchGen, rewatch, rewatchGen, shutdownVars>>

WatchMark ==
    /\ watch = "mark"
    /\ \/ main \notin Restarting /\ Mark /\ watch' = "restart" /\ Continue
       \/ UNCHANGED <<daemonVars, watch>> /\ End("fatal", "dockerd args")
    /\ UNCHANGED <<cmdVars, ctxVars, sysbox, watchGen, rewatch, rewatchGen, shutdownVars>>

\* Of the errors of Restart, that of signalling a process that is already collected
\* is told apart: "kill proc: os: process already finished".
WatchRestart ==
    /\ \/ watch = "restart" /\ Replace /\ watch' = "relaunch" /\ Continue
       \/ watch = "relaunch" /\ Launch /\ watch' = "rewait" /\ Continue
       \/ /\ watch = "restart" /\ said[cur] \notin {"none", "killed"}
          /\ UNCHANGED <<daemonVars, watch>>
          /\ End("fatal", "restart dockerd: process already finished")
       \/ /\ watch \in Restarting
          /\ UNCHANGED <<daemonVars, watch>> /\ End("fatal", "restart dockerd")
    /\ UNCHANGED <<cmdVars, ctxVars, sysbox, watchGen, rewatch, rewatchGen, shutdownVars>>

\* The second watcher takes whatever it receives for the end of dockerd.
RewatchRecv(v) ==
    /\ rewatch = "recv"
    /\ Received(rewatchGen, v)
    /\ rewatch' = "done"
    /\ End("fatal", IF v = "killed" THEN "restarted dockerd: killed by user"
                                    ELSE "restarted dockerd exited")
    /\ UNCHANGED <<cmdVars, ctxVars, sysbox, watch, watchGen, rewatchGen, shutdownVars>>

Watchers ==
    \/ WatchWait \/ WatchMark \/ WatchRestart \/ RewatchWait
    \/ \E v \in Values : WatchRecv(v) \/ RewatchRecv(v)

-----------------------------------------------------------------------------
(* Signals, sysbox and the shutdown goroutine.                             *)

\* SIGTERM, SIGINT or SIGWINCH.  The channel holds one; later ones are dropped.
Signal ==
    /\ ~signalled /\ signalled' = TRUE
    /\ Continue
    /\ UNCHANGED <<daemonVars, cmdVars, ctxDone, sigDone, sysbox, watchVars, shutdownVars>>

\* The deferred signalCancel.
CancelSignalCtx ==
    /\ signalled /\ ~sigDone /\ sigDone' = TRUE
    /\ Continue
    /\ UNCHANGED <<daemonVars, cmdVars, ctxDone, signalled, sysbox, watchVars,
                   shutdownVars>>

\* The select sees one of sysbox-mgr and sysbox-fs exit.  With ctx done that is
\* how it should be.
SysboxExited ==
    /\ sysbox = "down"
    /\ sysbox' = "seen"
    /\ IF ctxDone THEN Continue ELSE End("panic", "sysbox exited")
    /\ UNCHANGED <<daemonVars, cmdVars, ctxVars, watchVars, shutdownVars>>

\* Mutant of ShutdownSignal: the signal cancels at once.
ShutdownAtOnce ==
    /\ shutdown = "signal" /\ sigDone
    /\ shutdown' = "cancel"
    /\ Continue
    /\ UNCHANGED <<daemonVars, cmdVars, ctxVars, sysbox, watchVars, exec, pid, failed>>

ShutdownSignal ==
    /\ shutdown = "signal" /\ sigDone
    /\ shutdown' = IF Bootstrap THEN "pid" ELSE "cancel"
    /\ Continue
    /\ UNCHANGED <<daemonVars, cmdVars, ctxVars, sysbox, watchVars, exec, pid, failed>>

\* GetExecPID.  Its error is logged and not returned: the PID is then 0.
GetPID ==
    /\ shutdown = "pid" /\ shutdown' = "kill"
    /\ \/ pid' = 1 /\ UNCHANGED failed
       \/ pid' = 0 /\ failed' = TRUE
    /\ Continue
    /\ UNCHANGED <<daemonVars, cmdVars, ctxVars, sysbox, watchVars, exec>>

\* kill -TERM.  To PID 0 it goes to envbox's own process group, to dockerd and
\* sysbox, which may end at any time in this model, and to the kill command,
\* which so fails.  Of a process that is gone it reports an error, too.
Kill ==
    /\ shutdown = "kill"
    /\ \/ /\ pid = 1 /\ exec = "running"
          /\ exec' = "stopping" /\ shutdown' = "waitExit" /\ UNCHANGED failed
       \/ shutdown' = "cancel" /\ failed' = TRUE /\ UNCHANGED exec
    /\ Continue /\ UNCHANGED <<daemonVars, cmdVars, ctxVars, sysbox, watchVars, pid>>

\* Mutant of WaitExit: no timeout.
WaitExitForever ==
    /\ shutdown = "waitExit" /\ shutdown' = "cancel"
    /\ exec = "exited"
    /\ Continue
    /\ UNCHANGED <<daemonVars, cmdVars, ctxVars, sysbox, watchVars, exec, pid, failed>>

\* WaitForExit, until the bootstrap process is gone or something fails.
WaitExit ==
    /\ shutdown = "waitExit" /\ shutdown' = "cancel"
    /\ \/ exec = "exited" /\ UNCHANGED failed
       \/ failed' = TRUE
    /\ Continue
    /\ UNCHANGED <<daemonVars, cmdVars, ctxVars, sysbox, watchVars, exec, pid>>

\* The deferred cancel ends every context but those of the shutdown itself.
Cancel ==
    /\ shutdown = "cancel" /\ shutdown' = "done"
    /\ ctxDone' = TRUE
    /\ Continue
    /\ UNCHANGED <<daemonVars, cmdVars, signalled, sigDone, sysbox, watchVars, exec, pid, failed>>

Shutdown == ShutdownSignal \/ GetPID \/ Kill \/ WaitExit \/ Cancel

-----------------------------------------------------------------------------
(* The environment.                                                        *)

\* The channel operations a wait goroutine makes; a panic ends the program.
DockerdReports ==
    /\ \/ /\ \E g, c \in Gens : Close(g, c) \/ \E v \in Values : Report(g, v, c)
          /\ Continue
       \/ (\E g \in Gens : Panic(g)) /\ End("panic", "dockerd channel")
    /\ UNCHANGED <<cmdVars, ctxVars, sysbox, watchVars, shutdownVars>>

\* dockerd ends by itself, killed with its context, or on SIGTERM.
DockerdExits(g, r) ==
    /\ Terminate(g, r)
    /\ Continue /\ UNCHANGED <<cmdVars, ctxVars, sysbox, watchVars, shutdownVars>>

SysboxExits ==
    /\ sysbox = "up" /\ sysbox' = "down"
    /\ Continue /\ UNCHANGED <<daemonVars, cmdVars, ctxVars, watchVars, shutdownVars>>

BootstrapExits ==
    /\ exec \in {"running", "stopping"} /\ exec' = "exited"
    /\ Continue
    /\ UNCHANGED <<daemonVars, cmdVars, ctxVars, sysbox, watchVars, shutdown, pid, failed>>

Environment ==
    \/ DockerdReports \/ Signal \/ SysboxExits \/ BootstrapExits
    \/ \E g \in Gens, r \in Results : DockerdExits(g, r)

Next == Main \/ Watchers \/ CancelSignalCtx \/ SysboxExited \/ Shutdown \/ Environment

Spec == Init /\ [][Next]_vars

\* The goroutine of the signal and that of the shutdown run, and the calls of the
\* shutdown return: they have a context of 90 seconds, or start and wait for kill(1),
\* and it logs to stderr only.  Nothing is assumed of RunE, which may wait for sysbox-mgr,
\* a registry or the build log for ever, nor of the watchers, which use the build log,
\* too, nor of dockerd, sysbox and the bootstrap process.
Fairness == WF_vars(CancelSignalCtx) /\ WF_vars(Shutdown)

LiveSpec == Spec /\ Fairness

-----------------------------------------------------------------------------
(* Properties.                                                             *)

TypeOK ==
    /\ cur \in Gens
    /\ proc \in [Gens -> {"none", "up", "gone", "reported", "finished", "broken"}]
    /\ slot \in [Gens -> Values \cup {"empty"}]
    /\ main \in {"sysbox", "start", "manager", "daemon", "cvm", "mark", "restart",
                 "relaunch", "cvm2", "up", "done", "failed"}
    /\ runs \in {<<>>} \cup [1..1 -> Outcomes] \cup [1..2 -> Outcomes]
    /\ {ctxDone, signalled, sigDone, failed} \subseteq BOOLEAN
    /\ sysbox \in {"off", "up", "down", "seen"}
    /\ watch \in {"none", "spawned", "recv", "mark", "restart", "relaunch", "rewait",
                  "recv2", "done"}
    /\ rewatch \in {"none", "spawned", "recv", "done"}
    /\ {watchGen, rewatchGen} \subseteq Gens \cup {0} /\ pid \in {0, 1}
    /\ exec \in {"none", "running", "stopping", "exited"}
    /\ shutdown \in {"none", "signal", "pid", "kill", "waitExit", "cancel", "done"}
    /\ program \in {"running", "error", "fatal", "panic"}

\* The first watcher ends the program with "dockerd exited" only for a dockerd
\* that failed by itself and that nobody has replaced: the restart RunE makes
\* when the disk is full never looks like a crash to it.
WatcherFatalIsGenuine ==
    cause = "dockerd exited" => watchGen = cur /\ exit[cur] \in {"err", "nospace"}

\* Once RunE has returned, a program that ends while the bootstrap process is
\* alive ends because dockerd or sysbox died under it before the shutdown was
\* over, or because a shutdown step failed: the signal alone never does it.
BootstrapOutlivesSignal ==
    ~Alive /\ shutdown # "none" /\ exec \in {"running", "stopping"} =>
        failed \/ sysbox = "seen" \/ (~ctxDone /\ proc[cur] # "up")

\* Once RunE has returned, a signal, even one that arrived while RunE was still busy
\* and nobody waited for it, ends the program or leads to the cancel that tells every
\* child to stop: whatever becomes of the bootstrap process and of the steps of the
\* shutdown.  A RunE that never returns never handles a signal.
SignalReachesCancel == signalled /\ main = "done" ~> ~Alive \/ ctxDone

\* "It's possible for the docker daemon to run out of disk while trying to startup, in
\* such cases we should restart it": the restart does not fail for the very reason
\* that dockerd has exited, which is what the watcher waited for.
FullDiskIsRestarted == cause # "restart dockerd: process already finished"

\* RunE fails only with the outcome of its last attempt at the container
\* ("Restarting dockerd using the vfs driver" is to rescue the workspace).
RunReportsLastAttempt == cause = "run" => runs[Len(runs)] # "ok"

\* Restarting dockerd because the disk is full does not end the program.
RestartIsNotAnExit == cause # "restarted dockerd: killed by user"
=============================================================================
