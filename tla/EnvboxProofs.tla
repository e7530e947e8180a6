---------------------------- MODULE EnvboxProofs ----------------------------
(***************************************************************************)
(* Theorems of Envbox, for any number of generations of dockerd and with   *)
(* or without a bootstrap script: who replaces dockerd, which of its ends  *)
(* the watcher takes for a crash, what a signal may cut short, and that    *)
(* the goroutines keep to the specifications they are built on.            *)
(***************************************************************************)
EXTENDS Envbox, TLAPS

-----------------------------------------------------------------------------
(* dockerd.  A result of its own that is still in a channel is that of the *)
(* current generation, and keeps it from being replaced.                   *)

DaemonTypes ==
    /\ cur \in Gens
    /\ proc \in [Gens -> {"none", "up", "gone", "reported", "finished", "broken"}]
    /\ exit \in [Gens -> Results \cup {"none"}]
    /\ slot \in [Gens -> Values \cup {"empty"}]
    /\ said \in [Gens -> Values \cup {"none"}]

SaidInv == \A g \in Gens : said[g] # "none" => proc[g] \in {"reported", "finished"}

SlotInv ==
    \A c \in Gens : slot[c] \in Results =>
        /\ exit[c] = slot[c]
        /\ proc[c] \in {"reported", "finished", "broken"}
        /\ proc[c] # "broken" => c = cur /\ said[c] = slot[c]

DaemonInv == DaemonTypes /\ SaidInv /\ SlotInv

LEMMA InitDaemon == DaemonInit => DaemonInv
BY EnvboxAssumption DEF EnvboxAssumption, DaemonInit, DaemonInv, DaemonTypes, SaidInv, SlotInv,
   Gens, Results, Values

LEMMA NextDaemon == DaemonInv /\ [DaemonNext]_daemonVars => DaemonInv'
<1> SUFFICES ASSUME DaemonInv, [DaemonNext]_daemonVars PROVE DaemonInv'
  OBVIOUS
<1> USE EnvboxAssumption DEF EnvboxAssumption, DaemonInv, DaemonTypes, SaidInv, SlotInv,
        Gens, Results, Values
<1>1. CASE UNCHANGED daemonVars
  BY <1>1 DEF daemonVars
<1>2. CASE Launch
  BY <1>2 DEF Launch
<1>3. CASE Mark
  BY <1>3 DEF Mark
<1>4. CASE Replace
  <2>1. /\ cur' = cur + 1 /\ cur' \in Gens /\ said[cur] \in {"none", "killed"}
        /\ UNCHANGED <<proc, exit, slot, said>>
    BY <1>4 DEF Replace
  <2>2. ASSUME NEW c \in Gens, slot[c] \in Results PROVE proc[c] = "broken"
    BY <2>1, <2>2
  <2> QED
    BY <2>1, <2>2
<1>5. CASE \E g \in Gens : Panic(g) \/ Drain(g)
  <2>1. CASE \E g \in Gens : Panic(g)
    BY <2>1 DEF Panic
  <2>2. CASE \E g \in Gens : Drain(g)
    BY <2>2 DEF Drain
  <2> QED
    BY <1>5, <2>1, <2>2
<1>6. CASE \E g \in Gens, r \in Results : Terminate(g, r)
  BY <1>6 DEF Terminate
<1>7. CASE \E g, c \in Gens : Close(g, c)
  BY <1>7 DEF Close
<1>8. CASE \E g, c \in Gens, v \in Values : Report(g, v, c)
  BY <1>8 DEF Report
<1> QED
  BY <1>1, <1>2, <1>3, <1>4, <1>5, <1>6, <1>7, <1>8 DEF DaemonNext

\* A generation that reported a full disk itself stays the current one.
LEMMA FullDiskStays ==
    ASSUME DaemonInv, [DaemonNext]_daemonVars, said[cur] = "nospace", ~Broken'
    PROVE  cur' = cur /\ said'[cur] = "nospace"
<1> USE DEF DaemonInv, DaemonTypes, SaidInv, Gens, Results, Values
<1>1. CASE UNCHANGED daemonVars
  BY <1>1 DEF daemonVars
<1>2. CASE Launch \/ Mark \/ \E g \in Gens : Drain(g)
  BY <1>2 DEF Launch, Mark, Drain
<1>3. CASE Replace
  BY <1>3 DEF Replace
<1>4. CASE \E g \in Gens : Panic(g)
  <2>1. PICK g \in Gens : proc'[g] = "broken"
    BY <1>4 DEF Panic
  <2> QED
    BY <2>1 DEF Broken
<1>5. CASE \E g \in Gens, r \in Results : Terminate(g, r)
  BY <1>5 DEF Terminate
<1>6. CASE \E g, c \in Gens : Close(g, c)
  BY <1>6 DEF Close
<1>7. CASE \E g, c \in Gens, v \in Values : Report(g, v, c)
  BY <1>7 DEF Report
<1> QED
  BY <1>1, <1>2, <1>3, <1>4, <1>5, <1>6, <1>7 DEF DaemonNext

-----------------------------------------------------------------------------
(* The invariant.                                                          *)

FlagInv ==
    /\ ctxDone \in BOOLEAN /\ signalled \in BOOLEAN /\ sigDone \in BOOLEAN /\ failed \in BOOLEAN

Types ==
    /\ main \in {"sysbox", "start", "manager", "daemon", "cvm", "mark", "restart",
                 "relaunch", "cvm2", "up", "done", "failed"}
    /\ sysbox \in {"off", "up", "down", "seen"}
    /\ watch \in {"none", "spawned", "recv", "mark", "restart", "done"}
    /\ rewatch \in {"none", "spawned", "recv", "done"}
    /\ watchGen \in Gens \cup {0} /\ rewatchGen \in Gens \cup {0} /\ pid \in {0, 1}
    /\ watch = "recv" => watchGen \in Gens
    /\ rewatch = "recv" => rewatchGen \in Gens
    /\ exec \in {"none", "running", "stopping", "exited"}
    /\ shutdown \in {"none", "signal", "pid", "kill", "waitExit", "cancel", "done"}
    /\ program \in {"running", "error", "fatal", "panic"}

\* The watcher has replaced nothing: only RunE has, when its container ran out of disk.
OnlyRunEReplaces == cur > 1 => Len(runs) > 0 /\ runs[1] = "nospace"

\* RunE retries once, and only after a full disk; the retry never succeeds.
RunInv ==
    /\ runs \in Seq(Outcomes) /\ Len(runs) <= 2
    /\ main \in {"sysbox", "start", "manager", "daemon", "cvm"} => Len(runs) = 0
    /\ main \in {"mark", "restart", "relaunch", "cvm2"} => Len(runs) = 1 /\ runs[1] = "nospace"
    /\ main \notin {"relaunch", "cvm2", "failed"} => cur = 1
    /\ main = "failed" => ~Alive
    /\ rewatch # "none" => main \in {"cvm2", "failed"}
    /\ shutdown # "none" => main = "done"
    /\ OnlyRunEReplaces

\* A watcher about to restart dockerd has its result, which is no kill's.
WatchInv ==
    /\ Alive => ~Broken /\ cause = "none"
    /\ Alive /\ watch \in {"mark", "restart"} => watchGen = cur /\ said[cur] = "nospace"

ExecInv ==
    /\ exec # "none" => Bootstrap
    /\ shutdown \in {"cancel", "done"} => failed \/ exec \notin {"running", "stopping"}
    /\ ctxDone => shutdown = "done"

IInv == /\ DaemonInv /\ FlagInv /\ Types /\ RunInv /\ WatchInv /\ ExecInv
        /\ WatcherFatalIsGenuine /\ BootstrapOutlivesSignal

LEMMA InitInv == Init => IInv
<1> SUFFICES ASSUME Init PROVE IInv
  OBVIOUS
<1>1. DaemonInv
  BY InitDaemon DEF Init
<1>2. FlagInv
  BY Zenon DEF Init, FlagInv
<1>3. Types /\ ExecInv /\ WatcherFatalIsGenuine
  BY DEF Init, Types, ExecInv, WatcherFatalIsGenuine, Alive
<1>4. RunInv /\ BootstrapOutlivesSignal
  BY DEF Init, RunInv, OnlyRunEReplaces, BootstrapOutlivesSignal, DaemonInit, Alive
<1>5. WatchInv
  BY DEF Init, WatchInv, DaemonInit, Broken, Alive
<1> QED
  BY <1>1, <1>2, <1>3, <1>4, <1>5 DEF IInv

-----------------------------------------------------------------------------
(* The steps.                                                              *)

\* Nothing happens after the program ended.
LEMMA StepsAreAlive == Next => Alive
BY DEF Next, Main, Watchers, Shutdown, Environment, StartSysbox, StartDockerd, WaitManager, WaitDaemon,
   RunCVM, MarkRestart, ReplaceRestart, Relaunch, Return, Fail, WatchWait, RewatchWait, WatchRecv,
   WatchMark, WatchRestart, RewatchRecv, Signal, CancelSignalCtx, SysboxExited, ShutdownSignal,
   GetPID, Kill, WaitExit, Cancel, DockerdReports, DockerdExits, SysboxExits, BootstrapExits,
   End, Continue, Alive

LEMMA FlagsNext == FlagInv /\ [Next]_vars => FlagInv'
<1> SUFFICES ASSUME FlagInv, [Next]_vars PROVE FlagInv'
  OBVIOUS
<1> USE DEF FlagInv, ctxVars, shutdownVars, Fail
<1>1. CASE Main
  BY <1>1, Zenon DEF Main, StartSysbox, StartDockerd, WaitManager, WaitDaemon, RunCVM, MarkRestart,
      ReplaceRestart, Relaunch, Return
<1>2. CASE Watchers
  BY <1>2, Zenon DEF Watchers, WatchWait, RewatchWait, WatchRecv, WatchMark, WatchRestart, RewatchRecv
<1>3. CASE Shutdown \/ CancelSignalCtx \/ SysboxExited
  BY <1>3, Zenon DEF Shutdown, CancelSignalCtx, SysboxExited, ShutdownSignal, GetPID, Kill, WaitExit,
      Cancel
<1>4. CASE Environment
  BY <1>4, Zenon DEF Environment, DockerdReports, Signal, SysboxExits, BootstrapExits, DockerdExits
<1>5. CASE UNCHANGED vars
  BY <1>5, Zenon DEF vars
<1> QED
  BY <1>1, <1>2, <1>3, <1>4, <1>5, Zenon DEF Next

LEMMA DaemonStep == DaemonInv /\ Types /\ [Next]_vars => [DaemonNext]_daemonVars
<1> SUFFICES ASSUME DaemonTypes, Types, [Next]_vars PROVE [DaemonNext]_daemonVars
  BY DEF DaemonInv
<1>1. CASE Main
  BY <1>1 DEF Main, StartSysbox, StartDockerd, WaitManager, WaitDaemon, RunCVM, MarkRestart,
      ReplaceRestart, Relaunch, Return, Fail, DaemonNext
<1>2. CASE WatchWait \/ WatchMark \/ WatchRestart \/ RewatchWait
  BY <1>2 DEF WatchWait, RewatchWait, WatchMark, WatchRestart, DaemonNext
<1>3. CASE \E v \in Values : WatchRecv(v) \/ RewatchRecv(v)
  <2>1. CASE \E v \in Values : WatchRecv(v)
    <3>1. watchGen \in Gens /\ (Drain(watchGen) \/ UNCHANGED daemonVars)
      BY <2>1 DEF WatchRecv, Received, Types
    <3> QED
      BY <3>1 DEF DaemonNext
  <2>2. CASE \E v \in Values : RewatchRecv(v)
    <3>1. rewatchGen \in Gens /\ (Drain(rewatchGen) \/ UNCHANGED daemonVars)
      BY <2>2 DEF RewatchRecv, Received, Types
    <3> QED
      BY <3>1 DEF DaemonNext
  <2> QED
    BY <1>3, <2>1, <2>2
<1>4. CASE Shutdown \/ CancelSignalCtx \/ SysboxExited
  BY <1>4 DEF Shutdown, CancelSignalCtx, SysboxExited, ShutdownSignal, GetPID, Kill, WaitExit, Cancel
<1>5. CASE Environment
  BY <1>5 DEF Environment, DockerdReports, Signal, SysboxExits, BootstrapExits, DockerdExits, DaemonNext
<1>6. CASE UNCHANGED vars
  BY <1>6 DEF vars
<1> QED
  BY <1>1, <1>2, <1>3, <1>4, <1>5, <1>6 DEF Next, Watchers

\* The watcher's restart always fails: it has the result of a process that was
\* collected.
LEMMA WatcherCannotReplace == IInv /\ watch = "restart" /\ Alive => ~Replace
BY DEF IInv, WatchInv, Replace

LEMMA ProgramNext ==
    ASSUME program \in {"running", "error", "fatal", "panic"}, [Next]_vars
    PROVE  program' \in {"running", "error", "fatal", "panic"}
<1> USE DEF End, Continue, Fail
<1>1. CASE Main
  BY <1>1, Zenon DEF Main, StartSysbox, StartDockerd, WaitManager, WaitDaemon, RunCVM, MarkRestart,
      ReplaceRestart, Relaunch, Return
<1>2. CASE Watchers
  BY <1>2, Zenon DEF Watchers, WatchWait, RewatchWait, WatchRecv, WatchMark, WatchRestart, RewatchRecv
<1>3. CASE Shutdown \/ CancelSignalCtx \/ SysboxExited
  BY <1>3, Zenon DEF Shutdown, CancelSignalCtx, SysboxExited, ShutdownSignal, GetPID, Kill, WaitExit,
      Cancel
<1>4. CASE Environment
  BY <1>4, Zenon DEF Environment, DockerdReports, Signal, SysboxExits, BootstrapExits, DockerdExits
<1>5. CASE UNCHANGED vars
  BY <1>5 DEF vars
<1> QED
  BY <1>1, <1>2, <1>3, <1>4, <1>5, Zenon DEF Next

LEMMA TypesNext == IInv /\ [Next]_vars => Types'
<1> SUFFICES ASSUME IInv, [Next]_vars PROVE Types'
  OBVIOUS
<1>1. cur \in Gens /\ Types /\ Gens' = Gens
  BY DEF IInv, DaemonInv, DaemonTypes, Gens
<1>0. program' \in {"running", "error", "fatal", "panic"}
  BY <1>1, ProgramNext DEF Types
<1> USE <1>0 DEF Types, watchVars, shutdownVars, cmdVars, Fail
<1>2. CASE Main
  BY <1>1, <1>2 DEF Main, StartSysbox, StartDockerd, WaitManager, WaitDaemon, RunCVM, MarkRestart,
      ReplaceRestart, Relaunch, Return
<1>3. CASE Watchers
  <2>1. CASE WatchWait \/ RewatchWait
    BY <1>1, <2>1 DEF WatchWait, RewatchWait
  <2>2. CASE WatchMark
    <3>1. main' = main /\ exec' = exec /\ shutdown' = shutdown /\ pid' = pid /\ sysbox' = sysbox
      BY <2>2 DEF WatchMark, cmdVars
    <3>2. watchGen' = watchGen /\ rewatch' = rewatch /\ rewatchGen' = rewatchGen
      BY <2>2 DEF WatchMark
    <3>3. watch' \in {"mark", "restart"}
      BY <2>2 DEF WatchMark
    <3> QED
      BY <1>1, <3>1, <3>2, <3>3
  <2>3. CASE WatchRestart
    <3>1. main' = main /\ exec' = exec /\ shutdown' = shutdown /\ pid' = pid /\ sysbox' = sysbox
      BY <2>3 DEF WatchRestart, cmdVars
    <3>2. watchGen' = watchGen /\ rewatch' = rewatch /\ rewatchGen' = rewatchGen
      BY <2>3 DEF WatchRestart
    <3>3. watch' = watch
      <4>1. watch = "restart" => ~Replace
        BY <2>3, StepsAreAlive, WatcherCannotReplace DEF Next, Watchers
      <4> QED
        BY <1>1, <2>3, <4>1 DEF WatchRestart
    <3> QED
      BY <1>1, <3>1, <3>2, <3>3
  <2>4. CASE \E v \in Values : WatchRecv(v) \/ RewatchRecv(v)
    BY <1>1, <2>4 DEF WatchRecv, RewatchRecv
  <2> QED
    BY <1>3, <2>1, <2>2, <2>3, <2>4 DEF Watchers
<1>4. CASE Shutdown \/ CancelSignalCtx \/ SysboxExited
  BY <1>1, <1>4 DEF Shutdown, CancelSignalCtx, SysboxExited, ShutdownSignal, GetPID, Kill, WaitExit,
      Cancel
<1>5. CASE Environment
  BY <1>1, <1>5 DEF Environment, DockerdReports, Signal, SysboxExits, BootstrapExits, DockerdExits
<1>6. CASE UNCHANGED vars
  BY <1>1, <1>6 DEF vars
<1> QED
  BY <1>2, <1>3, <1>4, <1>5, <1>6 DEF Next

\* Only RunE's restart replaces dockerd.
LEMMA CurStays ==
    ASSUME IInv, [Next]_vars, ~(main = "restart" /\ main' = "relaunch")
    PROVE  cur' = cur
<1> USE DEF DaemonNext, Launch, Mark, Drain, Terminate, Close, Report, Panic, daemonVars, Fail
<1>1. CASE Main
  BY <1>1 DEF Main, StartSysbox, StartDockerd, WaitManager, WaitDaemon, RunCVM, MarkRestart,
      ReplaceRestart, Relaunch, Return
<1>2. CASE WatchWait \/ RewatchWait \/ WatchMark
  BY <1>2 DEF WatchWait, RewatchWait, WatchMark
<1>3. CASE WatchRestart
  BY <1>3, WatcherCannotReplace DEF WatchRestart, End, Continue
<1>4. CASE \E v \in Values : WatchRecv(v) \/ RewatchRecv(v)
  BY <1>4 DEF WatchRecv, RewatchRecv, Received
<1>5. CASE Shutdown \/ CancelSignalCtx \/ SysboxExited
  BY <1>5 DEF Shutdown, CancelSignalCtx, SysboxExited, ShutdownSignal, GetPID, Kill, WaitExit, Cancel
<1>6. CASE Environment
  BY <1>6 DEF Environment, DockerdReports, Signal, SysboxExits, BootstrapExits, DockerdExits
<1>7. CASE UNCHANGED vars
  BY <1>7 DEF vars
<1> QED
  BY <1>1, <1>2, <1>3, <1>4, <1>5, <1>6, <1>7 DEF Next, Watchers

LEMMA RunNext == IInv /\ [Next]_vars => RunInv'
<1> SUFFICES ASSUME IInv, [Next]_vars PROVE RunInv'
  OBVIOUS
<1> USE DEF IInv, RunInv, OnlyRunEReplaces, cmdVars, watchVars, shutdownVars
<1>1. CASE Main
  <2> USE DEF Fail, End, Continue, Alive
  <2>1. CASE StartSysbox \/ StartDockerd \/ WaitManager \/ WaitDaemon \/ MarkRestart \/ Return
    <3>1. cur' = cur /\ runs' = runs
      BY <2>1, CurStays DEF StartSysbox, StartDockerd, WaitManager, WaitDaemon, MarkRestart, Return
    <3> QED
      BY <2>1, <3>1 DEF StartSysbox, StartDockerd, WaitManager, WaitDaemon, MarkRestart, Return
  <2>2. CASE ReplaceRestart \/ Relaunch
    <3>1. /\ runs' = runs /\ Len(runs) = 1 /\ runs[1] = "nospace" /\ shutdown' = shutdown
          /\ main' \in {"restart", "relaunch", "cvm2"}
          /\ main' \in {"relaunch", "cvm2"} \/ cur' = cur
          /\ rewatch' = rewatch \/ main' = "cvm2"
      BY <2>2, CurStays DEF ReplaceRestart, Relaunch
    <3>2. main # "failed" /\ main' # "failed" /\ shutdown = "none"
      BY <2>2, <3>1 DEF ReplaceRestart, Relaunch
    <3>3. Len(runs) > 0 /\ runs[1] = "nospace"
      BY <3>1
    <3>4. main' = "restart" => cur' = 1 /\ rewatch' = "none"
      BY <2>2, <3>1 DEF ReplaceRestart, Relaunch
    <3>5. rewatch' # "none" => main' = "cvm2"
      BY <2>2, <3>1 DEF ReplaceRestart, Relaunch
    <3> QED
      BY <3>1, <3>2, <3>3, <3>4, <3>5
  <2>3. ASSUME NEW r \in Outcomes, RunCVM(r) PROVE RunInv'
    <3>1. cur' = cur /\ shutdown' = shutdown /\ rewatch' = rewatch
      BY <2>3, CurStays DEF RunCVM
    <3>2. CASE main = "cvm"
      <4>1. /\ runs' \in Seq(Outcomes) /\ Len(runs') = 1 /\ runs'[1] = r /\ cur = 1
            /\ rewatch = "none" /\ shutdown = "none"
        BY <2>3, <3>2 DEF RunCVM
      <4> QED
        BY <2>3, <3>1, <3>2, <4>1 DEF RunCVM
    <3>3. CASE main = "cvm2"
      <4>1. shutdown = "none" /\ main' = "failed" /\ program' = "error"
        BY <2>3, <3>3 DEF RunCVM
      <4>2. runs' \in Seq(Outcomes) /\ Len(runs') = 2 /\ runs'[1] = "nospace"
        <5>1. runs' = Append(runs, r) /\ runs \in Seq(Outcomes) /\ Len(runs) = 1 /\ runs[1] = "nospace"
          BY <2>3, <3>3 DEF RunCVM
        <5> HIDE DEF RunInv, OnlyRunEReplaces, IInv
        <5> QED
          BY <5>1
      <4> QED
        BY <3>1, <4>1, <4>2
    <3> QED
      BY <2>3, <3>2, <3>3 DEF RunCVM
  <2> QED
    BY <1>1, <2>1, <2>2, <2>3 DEF Main
<1>2. CASE ~Main
  <2>1. main' = main /\ runs' = runs
    BY <1>2 DEF Next, Watchers, WatchWait, RewatchWait, WatchMark, WatchRestart, WatchRecv, RewatchRecv,
        Shutdown, CancelSignalCtx, SysboxExited, ShutdownSignal, GetPID, Kill, WaitExit, Cancel,
        Environment, DockerdReports, Signal, SysboxExits, BootstrapExits, DockerdExits, vars
  <2>2. cur' = cur
    BY <2>1, CurStays
  <2>3. rewatch' # "none" => rewatch # "none"
    BY <1>2 DEF Next, Watchers, WatchWait, RewatchWait, WatchMark, WatchRestart, WatchRecv, RewatchRecv,
        Shutdown, CancelSignalCtx, SysboxExited, ShutdownSignal, GetPID, Kill, WaitExit, Cancel,
        Environment, DockerdReports, Signal, SysboxExits, BootstrapExits, DockerdExits, vars
  <2>4. shutdown' # "none" => shutdown # "none"
    BY <1>2 DEF Next, Watchers, WatchWait, RewatchWait, WatchMark, WatchRestart, WatchRecv, RewatchRecv,
        Shutdown, CancelSignalCtx, SysboxExited, ShutdownSignal, GetPID, Kill, WaitExit, Cancel,
        Environment, DockerdReports, Signal, SysboxExits, BootstrapExits, DockerdExits, vars
  <2>5. ~Alive => ~Alive'
    BY StepsAreAlive DEF Alive, vars
  <2> QED
    BY <2>1, <2>2, <2>3, <2>4, <2>5
<1> QED
  BY <1>1, <1>2

\* A step goes on or ends the program.
LEMMA GoesOnOrEnds == Next => Continue \/ program' \in {"error", "fatal", "panic"}
<1> SUFFICES ASSUME Next PROVE Continue \/ program' \in {"error", "fatal", "panic"}
  OBVIOUS
<1> USE DEF End, Fail
<1>1. CASE Main
  BY <1>1, Zenon DEF Main, StartSysbox, StartDockerd, WaitManager, WaitDaemon, RunCVM, MarkRestart,
      ReplaceRestart, Relaunch, Return
<1>2. CASE Watchers
  BY <1>2, Zenon DEF Watchers, WatchWait, RewatchWait, WatchRecv, WatchMark, WatchRestart, RewatchRecv
<1>3. CASE Shutdown \/ CancelSignalCtx \/ SysboxExited
  BY <1>3, Zenon DEF Shutdown, CancelSignalCtx, SysboxExited, ShutdownSignal, GetPID, Kill, WaitExit,
      Cancel
<1>4. CASE Environment
  BY <1>4, Zenon DEF Environment, DockerdReports, Signal, SysboxExits, BootstrapExits, DockerdExits
<1> QED
  BY <1>1, <1>2, <1>3, <1>4, Zenon DEF Next

\* Only a panic breaks a generation.
LEMMA NothingBreaks ==
    ASSUME IInv, Next, ~Broken, program' # "panic"
    PROVE  ~Broken'
<1>1. [DaemonNext]_daemonVars /\ DaemonTypes /\ \A g \in Gens : proc[g] # "broken"
  BY DaemonStep DEF IInv, DaemonInv, Broken
<1>2. CASE \A g \in Gens : ~Panic(g)
  <2>1. \A g \in Gens : proc'[g] # "broken"
    BY <1>1, <1>2 DEF DaemonNext, Launch, Mark, Replace, Drain, Terminate, Close, Report, daemonVars,
        DaemonTypes
  <2> QED
    BY <2>1 DEF Broken, Gens
<1>3. CASE \E g \in Gens : Panic(g)
  <2>1. PICK g \in Gens : /\ proc[g] \in {"gone", "reported"} /\ proc' = [proc EXCEPT ![g] = "broken"]
                          /\ UNCHANGED <<cur, exit, marked, slot, closed>>
    BY <1>3 DEF Panic
  <2>2. proc'[g] = "broken"
    BY <1>1, <2>1 DEF DaemonTypes
  <2>3. CASE DockerdReports
    <3>1. \/ \E h, c \in Gens : Close(h, c) \/ \E v \in Values : Report(h, v, c)
          \/ program' = "panic"
      BY <2>3, Zenon DEF DockerdReports, End
    <3>2. \E h \in Gens : proc' = [proc EXCEPT ![h] = "finished"] \/ proc' = [proc EXCEPT ![h] = "reported"]
      BY <3>1 DEF Close, Report
    <3> QED
      BY <1>1, <3>2, <2>2 DEF DaemonTypes
  <2>4. CASE ~DockerdReports
    <3>1. \/ UNCHANGED proc \/ Launch
          \/ \E h \in Gens, r \in Results : Terminate(h, r)
      BY <2>4 DEF Next, Main, Watchers, Shutdown, Environment, StartSysbox, StartDockerd,
        WaitManager, WaitDaemon, RunCVM, MarkRestart, ReplaceRestart, Relaunch, Return, Fail,
        WatchWait, RewatchWait, WatchRecv, WatchMark, WatchRestart, RewatchRecv, Signal,
        CancelSignalCtx, SysboxExited, ShutdownSignal, GetPID, Kill, WaitExit, Cancel, Received,
        DockerdExits, SysboxExits, BootstrapExits, Mark, Replace, Drain, daemonVars
    <3> QED
      BY <1>1, <2>2, <3>1 DEF Launch, Terminate, DaemonTypes
  <2> QED
    BY <2>3, <2>4
<1> QED
  BY <1>2, <1>3

LEMMA WatchNext == IInv /\ [Next]_vars => WatchInv'
<1> SUFFICES ASSUME IInv, [Next]_vars, Alive'
             PROVE  /\ ~Broken' /\ cause' = "none"
                    /\ watch' \in {"mark", "restart"} => watchGen' = cur' /\ said'[cur'] = "nospace"
  BY DEF WatchInv
<1>1. CASE Next
  <2>1. Alive /\ Continue /\ cause' = "none" /\ ~Broken
    BY <1>1, StepsAreAlive, GoesOnOrEnds DEF Alive, Continue, IInv, WatchInv
  <2>2. ~Broken'
    BY <1>1, <2>1, NothingBreaks DEF Alive
  <2>3. CASE watch \in {"mark", "restart"}
    <3>1. watchGen = cur /\ said[cur] = "nospace"
      BY <2>1, <2>3 DEF IInv, WatchInv
    <3>2. cur' = cur /\ said'[cur] = "nospace"
      BY <2>2, <3>1, DaemonStep, FullDiskStays DEF IInv
    <3>3. watchGen' = watchGen
      BY <1>1, <2>3 DEF Next, Main, Watchers, Shutdown, Environment, StartSysbox, StartDockerd,
        WaitManager, WaitDaemon, RunCVM, MarkRestart, ReplaceRestart, Relaunch, Return, Fail,
        WatchWait, RewatchWait, WatchRecv, WatchMark, WatchRestart, RewatchRecv, Signal,
        CancelSignalCtx, SysboxExited, ShutdownSignal, GetPID, Kill, WaitExit, Cancel,
        DockerdReports, DockerdExits, SysboxExits, BootstrapExits, watchVars
    <3> QED
      BY <2>1, <2>2, <3>1, <3>2, <3>3
  <2>4. CASE watch \notin {"mark", "restart"}
    <3>1. ASSUME watch' \in {"mark", "restart"} PROVE \E v \in Values : WatchRecv(v)
      BY <1>1, <2>4, <3>1 DEF Next, Main, Watchers, Shutdown, Environment, StartSysbox, StartDockerd,
        WaitManager, WaitDaemon, RunCVM, MarkRestart, ReplaceRestart, Relaunch, Return, Fail,
        WatchWait, RewatchWait, WatchMark, WatchRestart, RewatchRecv, Signal,
        CancelSignalCtx, SysboxExited, ShutdownSignal, GetPID, Kill, WaitExit, Cancel,
        DockerdReports, DockerdExits, SysboxExits, BootstrapExits, watchVars
    <3>2. ASSUME NEW v \in Values, WatchRecv(v), watch' \in {"mark", "restart"}
          PROVE  watchGen' = cur' /\ said'[cur'] = "nospace"
      <4>1. /\ v = "nospace" /\ watchGen' = watchGen /\ watchGen \in Gens
            /\ slot[watchGen] = v /\ Drain(watchGen)
        BY <3>2 DEF WatchRecv, Received, IInv, Types
      <4>2. watchGen = cur /\ said[watchGen] = "nospace"
        BY <4>1, <2>1 DEF IInv, DaemonInv, SlotInv, Broken, Results
      <4> QED
        BY <4>1, <4>2 DEF Drain
    <3> QED
      BY <2>1, <2>2, <3>1, <3>2
  <2> QED
    BY <2>3, <2>4
<1>2. CASE UNCHANGED vars
  BY <1>2 DEF vars, daemonVars, watchVars, IInv, WatchInv, Broken, Alive
<1> QED
  BY <1>1, <1>2

LEMMA ExecNext == IInv /\ [Next]_vars => ExecInv'
<1> SUFFICES ASSUME IInv, [Next]_vars PROVE ExecInv'
  OBVIOUS
<1>1. /\ exec # "none" => Bootstrap
      /\ shutdown \in {"cancel", "done"} => failed \/ exec \notin {"running", "stopping"}
      /\ ctxDone => shutdown = "done"
      /\ shutdown # "none" => main = "done"
  BY DEF IInv, ExecInv, RunInv
<1> USE DEF ExecInv, ctxVars, shutdownVars, Fail
<1>2. CASE \E r \in Outcomes : RunCVM(r)
  <2>1. shutdown = "none" /\ shutdown' = "none" /\ UNCHANGED ctxVars
    BY <1>1, <1>2 DEF RunCVM
  <2>2. exec' # "none" => Bootstrap
    BY <1>1, <1>2, Zenon DEF RunCVM
  <2> QED
    BY <1>1, <2>1, <2>2
<1>3. CASE Return
  BY <1>1, <1>3 DEF Return
<1>4. CASE StartSysbox \/ StartDockerd \/ WaitManager \/ WaitDaemon \/ MarkRestart \/ ReplaceRestart
           \/ Relaunch \/ Watchers
  <2>1. UNCHANGED <<exec, shutdown, pid, failed, ctxDone>>
    BY <1>4 DEF StartSysbox, StartDockerd, WaitManager, WaitDaemon, MarkRestart, ReplaceRestart,
        Relaunch, Watchers, WatchWait, RewatchWait, WatchRecv, WatchMark, WatchRestart, RewatchRecv
  <2> QED
    BY <1>1, <2>1
<1>5. CASE CancelSignalCtx \/ SysboxExited
  <2>1. UNCHANGED <<exec, shutdown, pid, failed, ctxDone>>
    BY <1>5 DEF CancelSignalCtx, SysboxExited
  <2> QED
    BY <1>1, <2>1
<1>6. CASE ShutdownSignal
  BY <1>1, <1>6 DEF ShutdownSignal
<1>7. CASE GetPID
  BY <1>1, <1>7 DEF GetPID
<1>8. CASE Kill
  BY <1>1, <1>8 DEF Kill
<1>9. CASE WaitExit
  BY <1>1, <1>9 DEF WaitExit
<1>10. CASE Cancel
  BY <1>1, <1>10 DEF Cancel
<1>11. CASE Environment
  <2>1. CASE BootstrapExits
    BY <1>1, <2>1, Zenon DEF BootstrapExits
  <2>2. CASE DockerdReports \/ Signal \/ SysboxExits \/ \E g \in Gens, r \in Results : DockerdExits(g, r)
    <3>1. UNCHANGED <<exec, shutdown, pid, failed, ctxDone>>
      BY <2>2 DEF DockerdReports, Signal, SysboxExits, DockerdExits
    <3> QED
      BY <1>1, <3>1
  <2> QED
    BY <1>11, <2>1, <2>2 DEF Environment
<1>12. CASE UNCHANGED vars
  BY <1>1, <1>12 DEF vars
<1> QED
  BY <1>2, <1>3, <1>4, <1>5, <1>6, <1>7, <1>8, <1>9, <1>10, <1>11, <1>12 DEF Next, Main, Shutdown

\* What the first watcher receives and does not take for a restart is the result of
\* the current generation.
LEMMA ReceivedIsGenuine ==
    ASSUME IInv, Alive, NEW v \in Values, WatchRecv(v), v \in {"err", "nospace"}
    PROVE  /\ watchGen' = watchGen /\ watchGen = cur /\ cur' = cur /\ exit' = exit /\ proc' = proc
           /\ exit[cur] = v /\ proc[cur] \in {"reported", "finished"}
<1>1. /\ watchGen \in Gens /\ slot[watchGen] = v /\ Drain(watchGen) /\ watchGen' = watchGen
  BY DEF WatchRecv, Received, IInv, Types
<1>2. proc[watchGen] # "broken"
  BY <1>1 DEF IInv, WatchInv, Broken
<1> QED
  BY <1>1, <1>2 DEF IInv, DaemonInv, SlotInv, Results, Drain

LEMMA FatalNext == IInv /\ [Next]_vars => WatcherFatalIsGenuine'
<1> SUFFICES ASSUME IInv, [Next]_vars, cause' = "dockerd exited"
             PROVE  watchGen' = cur' /\ exit'[cur'] \in {"err", "nospace"}
  BY DEF WatcherFatalIsGenuine
<1>1. CASE Next
  <2>1. Alive /\ cause = "none"
    BY <1>1, StepsAreAlive DEF IInv, WatchInv
  <2>2. \E v \in {"err", "nospace"} : WatchRecv(v)
    BY <1>1, <2>1 DEF Next, Main, Watchers, Shutdown, Environment, StartSysbox, StartDockerd,
        WaitManager, WaitDaemon, RunCVM, MarkRestart, ReplaceRestart, Relaunch, Return, Fail,
        WatchWait, RewatchWait, WatchRecv, WatchMark, WatchRestart, RewatchRecv, Signal,
        CancelSignalCtx, SysboxExited, ShutdownSignal, GetPID, Kill, WaitExit, Cancel,
        DockerdReports, DockerdExits, SysboxExits, BootstrapExits, End, Continue
  <2> QED
    BY <2>1, <2>2, ReceivedIsGenuine DEF Values, Results
<1>2. CASE UNCHANGED vars
  BY <1>2 DEF vars, daemonVars, watchVars, IInv, WatcherFatalIsGenuine
<1> QED
  BY <1>1, <1>2

\* The steps that can end the program once RunE has returned.
LEMMA EndingSteps ==
    ASSUME IInv, Next, main = "done", ~Alive'
    PROVE  /\ UNCHANGED <<shutdown, exec, failed, ctxDone>>
           /\ \/ \E v \in {"err", "nospace"} : WatchRecv(v)
              \/ watch \in {"mark", "restart"} /\ UNCHANGED daemonVars
              \/ sysbox' = "seen"
<1>1. Alive /\ rewatch = "none" /\ cur = 1 /\ watch # "relaunch"
  BY StepsAreAlive DEF IInv, RunInv, Types
<1>2. ~Continue
  BY <1>1 DEF Continue, Alive
<1>3. CASE Main
  BY <1>1, <1>2, <1>3 DEF Main, StartSysbox, StartDockerd, WaitManager, WaitDaemon, RunCVM, MarkRestart,
      ReplaceRestart, Relaunch, Return
<1>4. CASE WatchWait \/ RewatchWait \/ CancelSignalCtx \/ Shutdown
  BY <1>2, <1>4 DEF WatchWait, RewatchWait, CancelSignalCtx, Shutdown, ShutdownSignal, GetPID, Kill,
      WaitExit, Cancel
<1>5. CASE WatchMark \/ WatchRestart
  <2>1. UNCHANGED <<daemonVars, shutdownVars, ctxVars>> /\ watch \in {"mark", "restart"}
    BY <1>1, <1>2, <1>5 DEF WatchMark, WatchRestart, Restarting
  <2> QED
    BY <2>1 DEF shutdownVars, ctxVars
<1>6. CASE \E v \in Values : WatchRecv(v) \/ RewatchRecv(v)
  <2>1. PICK v \in Values : WatchRecv(v)
    BY <1>1, <1>6 DEF RewatchRecv
  <2>2. v \in {"err", "nospace"} /\ UNCHANGED <<ctxVars, shutdownVars>>
    BY <1>2, <2>1 DEF WatchRecv
  <2> QED
    BY <2>1, <2>2 DEF shutdownVars, ctxVars
<1>7. CASE SysboxExited
  BY <1>7 DEF SysboxExited, shutdownVars, ctxVars
<1>8. CASE Environment
  <2>1. CASE DockerdReports
    BY <1>1, <1>2, <2>1 DEF DockerdReports, Panic
  <2>2. CASE ~DockerdReports
    BY <1>2, <1>8, <2>2 DEF Environment, Signal, SysboxExits, BootstrapExits, DockerdExits
  <2> QED
    BY <2>1, <2>2
<1> QED
  BY <1>3, <1>4, <1>5, <1>6, <1>7, <1>8 DEF Next, Watchers

LEMMA BootstrapNext == IInv /\ [Next]_vars => BootstrapOutlivesSignal'
<1> SUFFICES ASSUME IInv, [Next]_vars, ~Alive', shutdown' # "none", exec' \in {"running", "stopping"}
             PROVE  failed' \/ sysbox' = "seen" \/ (~ctxDone' /\ proc'[cur'] # "up")
  BY DEF BootstrapOutlivesSignal
<1>1. CASE Next
  <2>1. shutdown' = shutdown \/ Continue
    <3>1. CASE Shutdown \/ Return
      BY <3>1, Zenon DEF Shutdown, Return, ShutdownSignal, GetPID, Kill, WaitExit, Cancel
    <3>2. CASE ~(Shutdown \/ Return)
      BY <1>1, <3>2 DEF Next, Main, Watchers, Environment, StartSysbox, StartDockerd,
        WaitManager, WaitDaemon, RunCVM, MarkRestart, ReplaceRestart, Relaunch, Fail,
        WatchWait, RewatchWait, WatchRecv, WatchMark, WatchRestart, RewatchRecv, Signal,
        CancelSignalCtx, SysboxExited, DockerdReports, DockerdExits, SysboxExits, BootstrapExits,
        shutdownVars
    <3> QED
      BY <3>1, <3>2
  <2>2. Alive /\ main = "done"
    BY <1>1, <2>1, StepsAreAlive DEF IInv, RunInv, Continue, Alive
  <2>3. UNCHANGED <<shutdown, exec, failed, ctxDone>> /\ (ctxDone => failed)
    BY <1>1, <2>2, EndingSteps DEF IInv, ExecInv
  <2>4. CASE \E v \in {"err", "nospace"} : WatchRecv(v)
    <3>1. PICK v \in {"err", "nospace"} : WatchRecv(v)
      BY <2>4
    <3>2. proc'[cur'] \in {"reported", "finished"}
      BY <2>2, <3>1, ReceivedIsGenuine DEF Values, Results
    <3> QED
      BY <2>3, <3>2
  <2>5. CASE watch \in {"mark", "restart"} /\ UNCHANGED daemonVars
    <3>1. proc[cur] \in {"reported", "finished"}
      BY <2>2, <2>5 DEF IInv, WatchInv, DaemonInv, DaemonTypes, SaidInv
    <3>2. proc'[cur'] # "up"
      BY <2>5, <3>1 DEF daemonVars
    <3> QED
      BY <2>3, <3>2
  <2> QED
    BY <1>1, <2>2, <2>4, <2>5, EndingSteps
<1>2. CASE UNCHANGED vars
  <2>1. BootstrapOutlivesSignal /\ UNCHANGED <<program, shutdown, exec, failed, sysbox, ctxDone, proc, cur>>
    BY <1>2 DEF vars, daemonVars, ctxVars, shutdownVars, IInv
  <2> QED
    BY <2>1 DEF BootstrapOutlivesSignal, Alive
<1> QED
  BY <1>1, <1>2

-----------------------------------------------------------------------------
(* Theorems.                                                               *)

LEMMA InductiveInvariant == Spec => []IInv
<1>1. IInv /\ [Next]_vars => IInv'
  BY DaemonStep, NextDaemon, FlagsNext, TypesNext, RunNext, WatchNext, ExecNext, FatalNext, BootstrapNext
  DEF IInv
<1> QED
  BY <1>1, InitInv, PTL DEF Spec

\* For any number of restarts, with or without a script: types, and RunE calls
\* runDockerCVM at most twice.
THEOREM EnvboxTypeCorrect == Spec => []TypeOK
<1>1. IInv => TypeOK
  <2> SUFFICES ASSUME IInv PROVE TypeOK
    OBVIOUS
  <2>1. runs \in {<<>>} \cup [1..1 -> Outcomes] \cup [1..2 -> Outcomes]
    <3>1. runs \in Seq(Outcomes) /\ Len(runs) <= 2
      BY DEF IInv, RunInv
    <3>2. Len(runs) \in Nat
      BY <3>1
    <3>3. \A n \in Nat : n <= 2 => n = 0 \/ n = 1 \/ n = 2
      OBVIOUS
    <3>4. Len(runs) = 0 \/ Len(runs) = 1 \/ Len(runs) = 2
      BY <3>1, <3>2, <3>3, Zenon
    <3> QED
      BY <3>1, <3>4
  <2>2. {ctxDone, signalled, sigDone, failed} \subseteq BOOLEAN
    BY Zenon DEF IInv, FlagInv
  <2>3. {watchGen, rewatchGen} \subseteq Gens \cup {0}
    BY Zenon DEF IInv, Types
  <2> QED
    BY <2>1, <2>2, <2>3, Zenon DEF IInv, DaemonInv, DaemonTypes, Types, TypeOK
<1> QED
  BY <1>1, InductiveInvariant, PTL

\* However the restarts of dockerd and the channel operations of the wait goroutines
\* interleave, "dockerd exited" is said of a failure of the current dockerd.
THEOREM FatalIsGenuine == Spec => []WatcherFatalIsGenuine
<1>1. IInv => WatcherFatalIsGenuine
  BY DEF IInv
<1> QED
  BY <1>1, InductiveInvariant, PTL

\* No signal alone ends the program before the bootstrap process is gone.
THEOREM SignalSparesBootstrap == Spec => []BootstrapOutlivesSignal
<1>1. IInv => BootstrapOutlivesSignal
  BY DEF IInv
<1> QED
  BY <1>1, InductiveInvariant, PTL

TwoDockerds == cur <= 2

\* However long the program lives, there is no third dockerd: RunE restarts it once, and
\* the restart of the watcher fails, which the run EnvboxFullDisk shows.  Two generations
\* of Process, the bound of the run Process, are all that envbox makes.
THEOREM TwoGenerations == Spec => []TwoDockerds
<1>1. Init => TwoDockerds
  BY DEF Init, DaemonInit, TwoDockerds
<1>2. IInv /\ TwoDockerds /\ [Next]_vars => TwoDockerds'
  <2> SUFFICES ASSUME IInv, cur <= 2, [Next]_vars PROVE cur' <= 2
    BY DEF TwoDockerds
  <2>1. CASE main = "restart" /\ main' = "relaunch"
    <3>1. cur = 1
      BY <2>1 DEF IInv, RunInv
    <3>2. cur' = cur \/ cur' = cur + 1
      BY DaemonStep DEF IInv, DaemonNext, Launch, Mark, Replace, Panic, Drain, Terminate, Close, Report,
          daemonVars
    <3> QED
      BY <3>1, <3>2
  <2>2. CASE ~(main = "restart" /\ main' = "relaunch")
    BY <2>2, CurStays
  <2> QED
    BY <2>1, <2>2
<1> QED
  BY <1>1, <1>2, InductiveInvariant, PTL DEF Spec

-----------------------------------------------------------------------------
(* What the command is built on.                                           *)

\* Whatever the goroutines of the command do, in any order, they use dockerd only as
\* Daemon allows, which Process implements: the channels they receive from are those
\* Wait handed out, and nothing but a Restart replaces the process.
THEOREM UsesDaemon == Spec => DaemonSpec
<1>1. Init => DaemonInit
  BY DEF Init
<1>2. IInv /\ [Next]_vars => [DaemonNext]_daemonVars
  BY DaemonStep DEF IInv
<1> QED
  BY <1>1, <1>2, InductiveInvariant, PTL DEF Spec, DaemonSpec

Fed == exec # "none"

CVM == INSTANCE Attempts WITH tries <- runs, script <- Bootstrap, fed <- Fed

\* There is no bootstrap process before an attempt has succeeded.
FedInv == main \in {"sysbox", "start", "manager", "daemon", "cvm", "mark", "restart", "relaunch",
                    "cvm2"} => exec = "none"

\* All steps but those of runDockerCVM leave its outcomes alone, and what was fed.
LEMMA OthersLeaveAttempts ==
    ASSUME IInv, FedInv, [Next]_vars, \A r \in Outcomes : ~RunCVM(r)
    PROVE  FedInv' /\ runs' = runs /\ Fed' = Fed
<1> USE DEF FedInv, Fed, cmdVars, shutdownVars, Fail
<1>1. CASE Main
  <2>1. runs' = runs /\ exec' = exec
    BY <1>1 DEF Main, StartSysbox, StartDockerd, WaitManager, WaitDaemon, MarkRestart,
        ReplaceRestart, Relaunch, Return
  <2>2. main # "failed"
    BY <1>1 DEF Main, StartSysbox, StartDockerd, WaitManager, WaitDaemon, MarkRestart,
        ReplaceRestart, Relaunch, Return
  <2>3. FedInv'
    BY <1>1, <2>1, <2>2 DEF Main, StartSysbox, StartDockerd, WaitManager, WaitDaemon, MarkRestart,
        ReplaceRestart, Relaunch, Return
  <2> QED
    BY <2>1, <2>3
<1>2. CASE UNCHANGED <<main, runs, exec>>
  BY <1>2
<1>3. CASE Watchers \/ CancelSignalCtx \/ SysboxExited \/ UNCHANGED vars
  BY <1>2, <1>3 DEF Watchers, WatchWait, RewatchWait, WatchRecv, WatchMark, WatchRestart,
      RewatchRecv, CancelSignalCtx, SysboxExited, vars
<1>4. CASE ShutdownSignal \/ GetPID \/ WaitExit \/ Cancel
  BY <1>2, <1>4 DEF ShutdownSignal, GetPID, WaitExit, Cancel
<1>5. CASE Kill
  <2>1. UNCHANGED <<main, runs>> /\ shutdown = "kill"
    BY <1>5 DEF Kill
  <2>2. main = "done" /\ (exec' = exec \/ (exec = "running" /\ exec' = "stopping"))
    BY <1>5, <2>1 DEF Kill, IInv, RunInv
  <2> QED
    BY <2>1, <2>2
<1>6. CASE BootstrapExits
  <2>1. UNCHANGED <<main, runs>> /\ exec \in {"running", "stopping"} /\ exec' = "exited"
    BY <1>6 DEF BootstrapExits
  <2> QED
    BY <2>1
<1>7. CASE DockerdReports \/ Signal \/ SysboxExits \/ \E g \in Gens, r \in Results : DockerdExits(g, r)
  BY <1>2, <1>7 DEF DockerdReports, Signal, SysboxExits, DockerdExits
<1> QED
  BY <1>1, <1>3, <1>4, <1>5, <1>6, <1>7 DEF Next, Main, Shutdown, Environment

LEMMA RunIsAttempt ==
    ASSUME IInv, FedInv, NEW r \in Outcomes, RunCVM(r)
    PROVE  FedInv' /\ CVM!Finish(r)
<1>1. runs \in {<<>>, <<"nospace">>} /\ exec = "none"
  <2>1. CASE main = "cvm"
    BY <2>1 DEF IInv, RunInv, FedInv
  <2>2. CASE main = "cvm2"
    <3>1. runs \in Seq(Outcomes) /\ Len(runs) = 1 /\ runs[1] = "nospace"
      BY <2>2 DEF IInv, RunInv
    <3>2. runs = <<"nospace">>
      BY <3>1
    <3> QED
      BY <2>2, <3>2 DEF FedInv
  <2> QED
    BY <2>1, <2>2 DEF RunCVM
<1>2. runs' = Append(runs, r) /\ exec' = IF r = "ok" /\ Bootstrap THEN "running" ELSE "none"
  BY <1>1, Zenon DEF RunCVM
<1>3. Fed' = (r = "ok" /\ Bootstrap)
  <2>1. Bootstrap \in BOOLEAN
    BY EnvboxAssumption DEF EnvboxAssumption
  <2> QED
    BY <1>2, <2>1 DEF Fed
<1>4. FedInv'
  <2>1. main' \in {"up", "failed"} \/ r = "nospace"
    BY DEF RunCVM
  <2> QED
    BY <1>2, <2>1 DEF FedInv
<1> QED
  BY <1>1, <1>2, <1>3, <1>4 DEF CVM!Finish

\* However the goroutines interleave, RunE asks for a second attempt only after a full
\* disk and for no third one, and there is a bootstrap process to forward a signal to
\* exactly if its script was fed: Envbox takes runDockerCVM for what Attempts says it is.
THEOREM EnvboxImplementsAttempts == Spec => CVM!AttemptsSpec
<1>1. Init => CVM!AttemptsInit /\ FedInv
  BY EnvboxAssumption DEF EnvboxAssumption, Init, CVM!AttemptsInit, Fed, FedInv
<1>2. ASSUME IInv, FedInv, [Next]_vars
      PROVE  FedInv' /\ [CVM!AttemptsNext]_(CVM!attemptVars)
  <2>1. CASE \E r \in Outcomes : RunCVM(r)
    <3>1. PICK r \in Outcomes : RunCVM(r)
      BY <2>1
    <3>2. FedInv' /\ CVM!Finish(r) /\ r \in CVM!Outcomes
      BY <1>2, <3>1, RunIsAttempt DEF Outcomes, CVM!Outcomes
    <3> QED
      BY <3>2 DEF CVM!AttemptsNext
  <2>2. CASE \A r \in Outcomes : ~RunCVM(r)
    <3>1. FedInv' /\ runs' = runs /\ Fed' = Fed
      BY <1>2, <2>2, OthersLeaveAttempts
    <3> QED
      BY <3>1 DEF CVM!attemptVars
  <2> QED
    BY <2>1, <2>2
<1> QED
  BY <1>1, <1>2, InductiveInvariant, PTL DEF Spec, CVM!AttemptsSpec
=============================================================================
