# A TLA+ model of envbox

envbox runs a workspace as a container inside a container. Its only command,
`envbox docker`, is process 1 of a privileged outer container: it starts
sysbox and dockerd in the background, has dockerd pull the workspace image,
prepares the host side of the mounts, creates and starts the inner container,
runs a bootstrap script in it, and then stays around to restart what it can
and to pass on the signal that ends it all.

The project models the part of that which is concurrent, fails, or is retried:
the supervision of background processes (`background/process.go`), the command
itself with its goroutines (`cli/docker.go`), the steps that make the inner
container (`runDockerCVM`, `dockerutil/image.go`), the startup before it with its waits,
certificates and credentials (`sysboxutil`, `dockerutil`), the wrapper around dockerd and
the CPU limit (`cli/wrap_dockerd.sh`, `xunix/sys.go`), the search for GPU files
(`xunix/gpu.go`), the writer that bounds what is kept of a command's output
(`xio/limitwriter.go`) and the startup log that goes to the control plane (`buildlog`).
TLC checks each on small instances; TLAPS proves all of their safety
properties for every value of their constants, and that their loops are finite.

## 1. Inventory

| component | state it keeps | operations | talks to |
|---|---|---|---|
| `background.Process` | `cmd`, `ctx`, `cancel`, `waitCh`, `userKilled`, `mu`; one goroutine per started command | `New`, `Start`, `Run`, `Wait`, `Restart`, `kill` | the operating system, `/proc`, its waiters by a channel |
| output pipeline of a process | an `io.Pipe`, a line scanner, a `PrefixSuffixWriter` | `scanIntoLog`, `Write`, `Flush` | os/exec's copying goroutine |
| `xio.PrefixSuffixWriter` | prefix length, circular suffix, offset, `skipped` | `Write`, `Flush` | any writer |
| the docker command (`RunE`) | contexts `ctx` and `signalCtx`, dockerd's `Process`, the exec ID | start, wait, restart, shut down | everything below, in six goroutines |
| `runDockerCVM` | local; on the host: devices, owners of mounts, `/sys`; in dockerd: images, containers | one sequence of about twenty calls, tried at most twice | dockerd, the host |
| image pull | retry count, `pruned` | `PullImage`, `PruneImages` | dockerd |
| execs | none | `ExecContainer`, `GetExecPID`, `WaitForExit` | dockerd |
| waits | two contexts, a ticker | `WaitForManager`, `WaitForDaemon` | sysbox-mgr's socket, dockerd |
| registry certificates | files in `/etc/docker/certs.d`, which outlive the program | `WriteCertsForRegistry` | the file system |
| registry credentials | the `AuthConfig` of the pull | `AuthConfigFromString`, `AuthConfigFromPath`, `parseConfig` | pull secret, docker config, credential helpers |
| dockerd wrapper | cgroups, `/sys/fs/cgroup` | `wrap_dockerd.sh` | all processes of the outer container |
| CPU quota | the files of two cgroups | `ReadCPUQuota`, `SetContainerQuota` | what the wrapper left of `/sys/fs/cgroup` |
| GPU discovery | the mounts of the outer container | `TryUnmountProcGPUDrivers`, `GPUs`, `SameDirSymlinks`, `recursiveSymlinks` | the file system |
| build log | client, its queue of lines, the `SendLoop` goroutine | `OpenCoderClient`, `Info`, `Error`, `Write`, `Close` | the control plane, stderr |
| flags, environment, network | none | parsing and address arithmetic | environment, files |

How they interact: `RunE` calls `Process` and the docker client; `Process`
calls back through a channel only; the goroutines of `RunE` share dockerd's
`Process`, two contexts and the build log. A fatal log, a panic in any goroutine
or an error of `RunE` ends the program; a `RunE` that succeeds leaves the
program to its goroutines (`runtime.Goexit` in `cmd/envbox/main.go`).

What is hard to get right:

* `Process` reads `d.waitCh` and `d.cancel` without its lock, from goroutines of
  older generations, while `Restart` replaces them;
* a restart must not look like a crash to whoever waits for the old process;
* dockerd can be restarted from two places, and has two watchers;
* the signal may come at any time of the startup, and the shutdown must give
  the bootstrap process its time although each of its steps may fail;
* a failed first attempt at the inner container leaves things behind for the second;
* every goroutine logs through one client, and a log call waits until all lines are uploaded;
* the exit of a command is reported only if its output is read to the end;
* the wrapper changes the cgroups and the mount that the CPU quota is read from
  later, and does it once more when dockerd is restarted;
* a directory written by a start that failed is taken for the user's by the next;
* links are found in the order of a Go map, chains of them may break off or be cycles.

What makes each correct is stated as the properties in section 4; the full list
of hazards, each with its line and its properties, is in `PROJECT.json`.

## 2. Modules

| module | models | built on |
|---|---|---|
| `Process` | `background/process.go` | refines `Daemon` |
| `Daemon` | what a `Process` promises | |
| `Attempts` | what `RunE` and `runDockerCVM` promise each other | refined by `RunDockerCVM` and `Envbox` |
| `Envbox` | `RunE` and its goroutines | extends `Daemon` |
| `PrefixSuffixWriter` | `xio/limitwriter.go` | |
| `Output` | the output of a background process | extends `PrefixSuffixWriter` |
| `PullImage` | `PullImage` in `dockerutil/image.go` | |
| `RunDockerCVM` | `runDockerCVM`, and `RunE`'s second attempt | extends `PullImage` |
| `BuildLog` | `buildlog/coder.go`, `logger.go`, `json.go`, and how `RunE` uses them | |
| `Waits` | `sysboxutil/manager.go`, `dockerutil/daemon.go` | |
| `Registry` | `dockerutil/registry.go`, the credentials of `dockerutil/client.go` | |
| `Lifetime` | the startup of `cli/docker.go` over restarts of the outer container | composes `Waits` and `Registry` |
| `Cgroup` | `cli/wrap_dockerd.sh`, `xunix/sys.go`, the quota of `dockerutil/container.go` | |
| `GPU` | `xunix/gpu.go` | |
| `MCProcess`, `MCRunDockerCVM`, `MCLifetime`, `MCCgroup`, `MCGPU` | values for TLC | |
| `ProcessProofs`, `PrefixSuffixWriterProofs`, `BuildLogProofs`, `EnvboxProofs`, `RunDockerCVMProofs`, `LifetimeProofs`, `CgroupProofs`, `GPUProofs` | theorems | |

Operators whose comment calls them a mutant are the same definition with a
plausible mistake in it (a dropped check, a missing reset, a swapped order). They
are used by no specification; `PROJECT.json` pairs each with the property that
fails when it takes the place of the original.

### Process

New and every successful kill inside `Restart` create a *generation*; the
fields of the Go struct become two indices, `gen` (what `d.ctx`, `d.cancel` and
`d.cmd` refer to) and `chGen` (`d.waitCh`, `d.userKilled`, `d.binName`), and
functions over generations for what they point to. A caller inside a method has a
program counter and `d.mu`; the methods are cut where another goroutine can look:
the store of `userKilled`, the signal, each poll of `/proc`, each turn of the
select, and `Restart`'s assignments in two halves, since the wait goroutine does not take
the lock. That goroutine is eight steps: the two evaluations its `defer`s
make when it is scheduled, `cmd.Wait`, the load of `userKilled`, the send, the two
deferred calls. Sends on and closes of a closed channel are a panic, which stops
everything. What `/proc/<pid>/cmdline` shows is
one of a constant set of byte sequences, any at each poll.

### Daemon and Envbox

`Daemon` keeps of a generation whether its process runs, how it ended,
whether a kill was attempted, what is in its channel and what its goroutine
said. It is as weak as the code: `ErrUserKilled` may land in, and the close may
hit, the channel of a later generation. `Process => Daemon` under the mapping
at the end of `Process` is checked by the run `process` and proved, so `Envbox` does
not have to repeat the steps of `Process`.

`Envbox` has a position for each goroutine of `RunE` and for `RunE` itself. `Restart` is
three steps there (mark, replace, launch), because other goroutines see the
states in between; `Wait` is blocked during them as `d.mu` does it. `runDockerCVM` is its
outcome. `program` and `cause` tell how and with which message the program ended.

That outcome is where `Envbox` and `RunDockerCVM` meet. `Attempts` says what each may expect of the other: an attempt
ends once, a second one follows only a full disk, and the bootstrap script is fed exactly if the last attempt succeeds.
Both modules are proved to implement it (section 6), so that `Envbox` loses nothing by taking `runDockerCVM` for one step.

### PrefixSuffixWriter and Output

Bytes are their positions in the stream, so that what the buffer holds can be
compared with what was written. A write is one step up to `overwriteSuffix`, then one
per iteration. `Output` adds the child, os/exec's copying goroutine (chunks of
any size, ending a line or not), the pipe to `scanIntoLog`, and the wait goroutine.

### PullImage and RunDockerCVM

One action per call of `runDockerCVM`, a position `step`, and an action `Fails` for
its error returns. What is kept of the world is what later steps depend on: device
nodes, owners of the paths, whether dockerd has the image, the two containers, the
mounts of the inner one. `Retry` is the call after the restart of dockerd on an
empty directory: dockerd's state is gone, the host's is not.

### BuildLog

A line is a caller and a number. `RunE` opens the log: only stderr, an `agentClientV1` that
makes one request per line, or an `agentClientV2` with its `LogSender`. A call is then one step per
logger and, for `agentClientV2.Send`, one for the test of the client's context (a line logged when it is done is refused), one for the append to the queue and one for the wait. The
`LogSender` is a library: its queue, a `SendLoop` that takes a batch, has it uploaded and removes it, and that
ends at the first error, at the limit of the control plane or with `RunE`'s context. `Close` is a flush
followed by the cancellation of the client's context; the loop runs on.

### Waits, Registry and Lifetime

`Waits` counts time in ticks of `WaitForDaemon`'s ticker. Time passes while the goroutine
has nothing to do but wait, in the select or in a ping dockerd does not answer; a goroutine that can run
is taken to run within the tick. A ping ends with what dockerd says or with the end of its
context; which context the loop looks at afterwards is an operator of its own (`FirstPingOver`), because the
closure shadows the name.

`Registry` has one action per call of `WriteCertsForRegistry` that changes the directory, with the
failures between them, and the choice of credentials as a set of outcomes of `parseConfig`: Go's map decides
which of several entries is first. `Lifetime` puts both in the order of `RunE` and adds `Restart`: the program failed or was
killed anywhere, the container is restarted, and only the file system is as it was. A container that
is recreated instead begins in `Init`.

### Cgroup

Groups are numbered by depth, since each wrapper makes its `init` in the group it starts in. The kernel's part is two
rules: a group with controllers enabled for its children admits no process, and enabling them fails
while it has one. `List`, `Move` and `Enable` are the three parts of one turn of the script's loop, with forks, exits and
`docker exec` in between. The quota is read and written file by file after the inner container has started.

envbox is assumed to see the host's cgroup namespace, as the repository's `README.md` (line 171) asks for; in a
private one the path in `/proc/self/cgroup` would be another.

### GPU

A path is a value; what it names (a file, another path or nothing) is a function chosen from a set of file systems.
`Look` is one turn of the inner loop of `SameDirSymlinks`, for any of the links left in the pass; `FollowLink` one
turn of the loop of `recursiveSymlinks`. What the walk sees does not change while it runs. Which names the
regular expressions match is a constant.

## 3. Runs

| run | instance | states | shows |
|---|---|---|---|
| `process` | 2 callers, 2 generations, 2 kinds of exit, 2 command lines | 272 k | a restart is not a crash, crashes are genuine, what is replaced was signalled, no panic before a restart, `Restart` returns, `Process => Daemon` |
| `process_two_live` | as above, the kernel's command line | | violation: two dockerds |
| `envbox` | 3 generations, with a bootstrap script | 47 k | who ends the program, the signal gets through once `RunE` has returned |
| `envbox_full_disk` | same | | violation: the watcher's restart after a full disk ends the program |
| `envbox_restart` | same | | violation: the second watcher receives the old `ErrUserKilled` |
| `envbox_retry` | same | | violation: a successful retry is reported as a failure |
| `output` | N = 3, 14 bytes, chunks up to 8, lines up to 10 | 14 k | what is kept of the output, exits are reported while the scanner reads |
| `run_docker_cvm` | 5 lists of mounts, 3 GPU binds, all flags | 186 k | ownership, image, mountpoints, termination |
| `build_log` | 3 callers, 2 lines each | 250 k | stderr follows the control plane, what is queued, who can be held up, which lines are refused after `Close` and that a queued one is not lost |
| `lifetime` | 2 starts, ping 4 ticks, limit 12, 3 entries, 4 configs | 60 k | how the waits end, which certificates are there, whose credentials are sent |
| `cgroup` | 2 starts of dockerd, 3 attempts, 2 other processes, 3 limits, v1 and v2 | 3.8 k | what costs an attempt, the script ends, the limit of the inner container |
| `gpu` | 11 paths, 152 file systems, 4 mounts in `/proc`, 2 passes | 230 k | what is unmounted and bound, links do not dangle, the search ends |

### Bounds

* *Generations.* Two are needed for a restart: the goroutine of the replaced process then reads `d.waitCh` and
  `d.cancel` while they change. For the goroutines of two replaced processes to meet in the channel of a third, three are
  needed, which with two callers are 15 million states; that case is covered by the proofs, which are for any number of
  generations (`ReplacedGenerations`, `GenuineCrashes`, `ReplacedSignalled`, `ProcessImplementsDaemon`). A `Restart` is only
  called if the bound leaves it a generation, so none is cut short. RunE restarts at most
  once, and the restart the watcher attempts never succeeds: `Envbox` uses two of its three (theorem `TwoGenerations`).
* *Command lines.* What `/proc` shows is one of two: arguments that end with NUL, as the kernel has it, or just `binName`,
  as the comment of `New` has it. With the first `kill` polls once, with the second until the process is gone.
* *Callers.* Two: dockerd is restarted by `RunE` and by its watcher. `d.mu`
  serialises them, and a third would wait for the same lock.
* *Output.* With N = 3, 14 bytes fill the prefix and the suffix and go round
  the suffix more than twice, in chunks that end in each part and lines that do and do
  not fit. The proofs lift N and the number of bytes.
* *Mounts.* The lists contain a home, a read-only source, a private mountpoint, a source bound
  twice and a mountpoint a GPU bind also wants; the GPU binds contain two paths
  that are one inside. The proofs lift the lists. `MaxRetries` is the code's 10.
* *Lines.* A startup logs a few dozen lines. Two per caller let one be uploaded while the next is
  queued, before and after `Close`; with three callers a batch can hold a part of the queue.

* *Time.* A ping takes 4 ticks as in the code (a second of 250 ms). The limit is 12 ticks and not 1200: enough for
  the first ping, one that hangs and one cut off by the limit. The proofs lift both.
* *Certificates.* Three entries, one of them a directory, let a write break off before, in and after a file. The
  configs are with and without an entry of the registry, with and without a valid other one, and with a helper that
  fails. Two starts: what a third finds, the second could find.
* *Cgroups.* The script gives up after 3 attempts instead of 100; two other processes are one that is moved and one that
  comes meanwhile. Two starts of dockerd is all `RunE` does. The proofs lift all of it.
* *Links.* The limit of passes is 2 instead of 10, so that three links beside a mount can exceed it. The chains below
  `usrLibDir` reach over two libraries and another path to a file, to nothing, outside and back.

### Fairness

* `Process`: the methods are scheduled, a `sync.Mutex` starves no waiter, and a process that was sent SIGTERM or
  whose context is done exits. Nothing obliges a wait goroutine to get past `cmd.Wait`,
  since that also waits for the output (see `Output`).
* `Envbox`: only the goroutine that waits for the signal and the one that shuts down run, and the calls of the latter return:
  they have 90 seconds, or start and wait for `kill`. Nothing is assumed of `RunE`: `WaitForManager`, the requests to the
  registry and dockerd, and a log call after a failed upload may take for ever. Nor is anything of the watchers, dockerd,
  sysbox, the bootstrap process and the wait goroutines.
* `Output`: the copying, scanning and waiting goroutines run; the child need not exit.
  The calls include those of the build log: `build_log` says when these return.
* `RunDockerCVM`: its calls return, with success or an error.
* `BuildLog`: the steps of `Send` and the loop's next batch. An upload need not end, `ConnectRPC` need not succeed.
* `Lifetime`: `RunE`'s goroutine runs, and so does the clock. dockerd, sysbox and whoever restarts the container owe nothing.
* `Cgroup`: the script runs. Processes come, go and are started by a `docker exec` as they like.
* `GPU`: the search is one goroutine that runs.

`CHECK_DEADLOCK FALSE` is in every configuration because each system may stop: a
program that ended, a process nobody restarts, a run that has its result, a script that gave up, or the
pipe nobody reads after a line that is too long.

## 4. Properties

Safety: `PanicOnlyAfterRestart`, `ReplacedReportsUserKilled`, `ReplacedWereSignalled`,
`CrashErrorsAreGenuine` (Process); `WatcherFatalIsGenuine`, `BootstrapOutlivesSignal` (Envbox); `KeepsPrefixAndSuffix`, `SuffixNeedsFlush`
(PrefixSuffixWriter); `HandedOverShifted`, `ContainersKeepImage`, `GPUBindsAreNew`
(RunDockerCVM); `StderrFollowsPush`, `QueueStaysShort`, `LinesKept` (BuildLog); `GivesUpOnTime` (Waits);
`MissingCertsTakeFailure`, `RightCredentials` (Registry); `InnerLimitIsOuters`, `LostToNewcomer` (Cgroup);
`NoDanglingDriver`, `NothingForgotten`, `ProcDriversGone` (GPU). Liveness: `RestartReturns`, `SignalReachesCancel`,
`ExitReportedIfScanned`, `RunEnds`, `SendReturns`, `QueuedLinesPushed`, `DaemonFound`, `WrapperEnds`, `GPUsReturns`.
Refinement: `ImplementsDaemon`. One type invariant per module.

That at most one dockerd runs does not hold (`process_two_live`). What does is `ReplacedWereSignalled`: a process that may
still be there was marked as killed and sent SIGTERM. `PanicOnlyAfterRestart` allows a panic after a restart, when
two goroutines may close one channel; it shows that sysbox-mgr and sysbox-fs are not exposed to that. `WatcherFatalIsGenuine`
is about the first watcher; the second has no such property, as `envbox_restart` shows.

The first disjunct of `SendReturns` is needed: one failed upload ends the `SendLoop`, and from then on every log call waits
until `RunE`'s context is cancelled, although `cli/docker.go:202` wants a startup that does not depend
on the build log. `RunE`'s next line, the `Close` of a `RunE` that failed, and the lines before `log.Fatal`
and `panic` wait too, and do not reach stderr, which comes second in the `MultiLogger`.

After `Close` the context of the client is done, and `ScriptLogger.Send` refuses what the goroutines of `RunE` go on logging, the
output of the bootstrap script included: those lines only reach stderr. `LinesKept` says that they are the only ones that
are refused, and `QueuedLinesPushed` that a line accepted before is still uploaded.

`SignalReachesCancel` begins when `RunE` has returned, though the signal may have come long before: that one must not be lost. While
`RunE` waits for sysbox-mgr, the build log or dockerd without a limit, no signal is handled, and no property could say otherwise.

Four properties state what the code promises together with its exception, since the exception is what a reader
should know:

* `MissingCertsTakeFailure`: a start that broke off in `WriteCertsForRegistry` leaves a directory that every later start of
  the same container takes for the user's; the pull then meets a registry it may not trust.
* `InnerLimitIsOuters` promises the outer limit only for the first dockerd. The wrapper of a second one starts in the group
  the first one made, which has no limit of its own, makes it the root of `/sys/fs/cgroup`, and the inner container gets "max".
  Today nobody sees that, because a second attempt that succeeds is reported as a failure (`envbox_retry`).
* `RightCredentials` lists empty credentials among the outcomes when there is a docker config without an entry for the
  registry: it then replaces the pull secret.
* `GPUsReturns` excludes cycles of links below `usrLibDir`: `recursiveSymlinks` would follow one for ever.

`GivesUpOnTime` says that `WaitForDaemon` gives up neither late nor early, but not which errors of a ping end it (see section 5).

## 5. Where code and comments disagree

Each violation run exhibits one behaviour that a comment of the repository rules out; `PROJECT.json`
quotes the comments.

1. `process_two_live`: `background/process.go:215` splits the command line on `'0'`, so a live process with
   arguments counts as exited and `Restart` starts a second one beside it.
2. `envbox_restart`: `background/process.go:148` sends on whatever `d.waitCh` is by then: the
   goroutine waiting for the restarted dockerd receives `ErrUserKilled` and ends the program.
3. `envbox_retry`: `cli/docker.go:356` shadows `err`: a successful second attempt is reported as failed.

4. `envbox_full_disk`: `cli/docker.go:295` restarts a process that was already collected, which cannot be signalled: a dockerd
   that runs out of disk during its startup ends the program, where lines 281-286 want it restarted on an ephemeral directory.

Three more are part of the models without a run of their own:

5. `dockerutil/daemon.go:49` tests the context of the first ping, whose name the closure shadows. Line 53 says of an error that is
   neither a refused connection nor a timeout "If its something else, we return it"; the code does so in the first second only,
   and afterwards retries it until the five minutes are over (`FirstPingOver` in `Waits`).
6. `background/process.go:226` stops reading after a line of more than 64 KiB (the condition of `ExitReportedIfScanned`).
7. `xunix/device.go:113` fails if the device exists, as it does in a second attempt (`CreateDevice` of `RunDockerCVM`).

## 6. Proofs

`ProcessProofs` shows, for any set of callers, any command line, any `MaxGen` and any set of exits:
`TypeCorrect`, `ReplacedGenerations`, `GenuineCrashes`, `ReplacedSignalled`, `PanicTakesRestart` and `ProcessImplementsDaemon`. The assumptions on
constants are `ProcessAssumption`: the owner is a caller, the value of a free lock is not one,
there is at least one generation, and exits are results.

None of these is inductive. The invariant `IInv` adds

* `LockInv`: only one caller is inside a method, and it holds `d.mu`;
* `FieldInv`: `gen` and `chGen` agree except between the two halves of a swap, and
  generations beyond `gen` are untouched;
* `GoInv`: where a wait goroutine stands, the state of its process in the kernel and the value it
  has loaded for its channel go together;
* `KillInv`: from a successful kill to the end of the method that called it, the owner's process has
  `userKilled` set, past the signal its goroutine has loaded nothing or the sentinel, and every earlier
  process was killed.

`KillInv` is the heart of it: kill stores the flag before it signals, a signal succeeds
only on a process that was not collected, and the load comes after the collection. `NextTypeOK`,
`NextLockInv`, ... prove one conjunct each, action by action. `ReplacedSignalled` and `PanicTakesRestart`
add an invariant of their own (`SignalInv`, `PanicInv`) on top.

`ProcessImplementsDaemon` is a simulation, step by step: kill's flag is `Mark`, the first half of a swap is
`Replace`, a start that succeeds is `Launch`, an exit is `Terminate`, the send is `Report` or `Panic`, the deferred close is
`Close` or `Panic`, a receive is `Drain`, and everything else `Daemon` does not see. It needs `PanicInv` and `RefInv`: `d.waitCh` is
at most one generation behind, so it is never older than a process that was started (`StartedBeforeChan`),
a goroutine's deferred close has captured its own channel or a later one, and the sentinel is loaded only of a process that was marked.

`PrefixSuffixWriterProofs` shows `FlushKeeps` and `SuffixWithheld` for every
N > 0 and every bound on the bytes. Its invariant says what the prefix and the circular suffix hold
of the bytes used so far, by position: the suffix, read from its offset, is the last N
bytes. Each action is one lemma. `OutputTypeCorrect` adds the pipeline around the writer, and
`OutputImplementsWriter` shows that each of its steps is a step of the writer alone or does not touch it,
so that both theorems hold of the output of a background process as well.

`BuildLogProofs` shows `BuildLogTypeCorrect`, `StderrNotAhead` and `QueueBounded` for any finite set of goroutines
and any number of lines. The invariant adds that the batch is the front of the queue (`BatchInv`), that a
queued line belongs to a caller that waits for it and no caller has two (`QueueInv`), that each
other line is at the control plane or its caller has not queued it (`PushInv`), and that a
caller writes a line to stderr at the end of its call (`StderrInv`). `QueueBounded` follows from `QueueInv` by counting: the
map from positions of the queue to callers is an injection.

These say nothing of a log that was closed or whose upload failed, and envbox goes on logging then. Two more theorems do.
`NoAcceptedLineLost`: what stderr shows is at the control plane or in the queue, until the control plane takes no more, or it was
refused after the end of the client's context, as no line of `RunE` is (`RefuseInv`).
`UploadedInOrder`: of each goroutine the control plane has the first lines without a gap. `KeepInv` follows a
line from the call on; `OrderInv` says that, while the loop lives, what its goroutine logged before a queued line is ahead of it in
the queue or uploaded. TLC has checked all four on two goroutines with three lines and on three with two.

`EnvboxProofs` shows `EnvboxTypeCorrect`, `FatalIsGenuine` and `SignalSparesBootstrap` for any number of
generations, with and without a bootstrap script. The invariant adds that an error which is not `ErrUserKilled` and is still in a
channel is that of the current generation and keeps it from being replaced (`DaemonInv`); that a watcher about to restart
dockerd has such a result in hand, so its restart fails (`WatchInv`); at which positions of `RunE` dockerd may
have been replaced (`RunInv`); and that the shutdown goroutine cancels only when the bootstrap process is gone or a step
failed (`ExecInv`). `TwoGenerations` follows from the same invariant: no third dockerd is ever started.

Two theorems join the modules. `UsesDaemon`: every step of `Envbox` is one that `Daemon` allows, or leaves dockerd alone. Together with
`ProcessImplementsDaemon` it says that `RunE` relies on no more than `background/process.go` delivers.
`EnvboxImplementsAttempts`: however the goroutines interleave, the attempts at the inner container are those of `Attempts`.

`RunDockerCVMProofs` shows `CVMTypeCorrect`, `HandedOver`, `ImagesKept` and `GPUBindsNew` for any lists of mounts, any homes
and any GPU libraries. `StepInv` derives the containers that exist from the position, `MountInv` says that the
mounts asked for come first and unchanged and that what follows hides nothing, `OwnerInv` that all a loop has run over,
and all of a finished loop, is shifted, and `KeepInv` that a container has its image. Assumed is `CVMAssumption`: the
lists are sequences, and no device node is in a home.

`RunImplementsAttempts` shows that the calls, each of which may fail, amount to the attempts of `Attempts`. `RunIsFinite` gives three naturals
(attempts left, steps left, turns left of the loop under way) that each call lowers in lexicographic order, so `RunEnds` needs
nothing but that the calls return. `LeftNodeBarsRetry` is the consequence of item 7 in section 5: once an attempt has made a device node
and then met a full disk, the result is never "ok", because the second attempt fails on that node (`Barred`).

`CgroupProofs` shows `CgroupTypeCorrect`, `LimitCorrect` and `AttemptsLost` for any number of processes, attempts, restarts and
any limits. The invariant adds that no group whose controllers are enabled is at or below envbox's while no wrapper is at
work, and none at or below the wrapper's while one is (`GroupInv`); that a process in the wrapper's group is one it has yet to move or came
after the list was read (`ListInv`); that `/sys/fs/cgroup` shows that group (`RootInv`); and how much of the limit
is written at which position (`QuotaInv`). `WrapperIsFinite` says that each step of the script lowers the attempts left, the lists to
be read and the processes to be moved, in that lexicographic order, and that no other process changes any of them. It assumes that there are
finitely many processes (`CgroupAssumption`).

`LifetimeProofs` shows `LifetimeTypeCorrect`, `DaemonWaitBounded`, `CertsComplete` and `CredentialsRight` for any
timeouts (a ping shorter than the limit), entries, configs and number of starts. `CertsInv` is the part about
certificates: what is not left to be copied is whole, while the directory is envbox's own and no earlier write was broken off.
`DaemonWaitInv` is the part about the wait: the clock does not pass the limit, nor does the context of a ping.
`DaemonWaitIsFinite` adds that between two ticks the goroutine has at most four steps to take.

`GPUProofs` shows `GPUTypeCorrect`, `NothingDangles`, `AllFound` (of which `MountLinksComplete` is the first half) and `DriversUnmounted` for any
finite set of paths, any file system and any limit of passes. The invariant adds that a chain followed so far lacks only the path at which it
stands, that each pass but the last has added a link (so the passes count links, by cardinality), that a pass without a new
one has looked at all links against all found, and that what is left to unmount is not deeper than what was done. `AllFound` has to say what
becomes of every library: bound, failed, still to come, on the chain under way, or among paths that lead to each other and nowhere
else (`LibInv`); of such paths none is ever bound (`DeadEndInv`), so that a link to a bound library is not one of them.
`SearchIsFinite` gives four naturals (phase, paths left to take, passes left, paths off the chain) that each step lowers in
lexicographic order, unless there is a cycle of links below `usrLibDir`. `GPUAssumption` says that a file system is finite, its mounts in `/proc` too,
and that a path which names a file does not name nothing.

The constants' assumptions (`ProcessAssumption`, `CVMAssumption`, `GPUAssumption`, ...) are all the proofs take for
granted; TLC evaluates each in the runs.

The finiteness theorems are the part of liveness that is not about fairness: they say that a component has only so many steps to take, not
that it takes them. That it does, under the fairness of section 3, stays with TLC: `RestartReturns`, `SignalReachesCancel`,
`ExitReportedIfScanned`, `RunEnds`, `SendReturns`, `QueuedLinesPushed`, `DaemonFound`, `WrapperEnds` and `GPUsReturns`. Out of the
prover's reach are liveness under fairness, anything about ENABLED, and induction over data, for which the library's theorems
take operators as parameters. The violation runs are TLC's as well.

## 7. Not modelled

* Flags and their environment variables, `xunix/env.go`: precedence between three values, without state; unit tests cover every case.
* The bridge network and MTU: address arithmetic without state.
* The termination log, users, file system shims, the Docker and HTTP client wrappers: input and output, or parsing.
* Test doubles and integration tests: not part of the program.

Within the modelled parts: the contents of environment variables, log lines (so `cutString` too), certificates and
credentials; the text of errors beyond whether they say that the disk is full; which names the GPU expressions match; the
attach protocol of `ExecContainer` and the pauses of `GetExecPID` and `WaitForExit`; process groups, so what `kill -TERM 0` does
after a failed `GetExecPID`; the mode of a read-only source that was remounted to be shifted; and dockerd's, sysbox's
and the kernel's own behaviour beyond what the modules state.

## 8. Plan

All modules of the original plan are done but two, in this order:

1. `Exec`: `ExecContainer` on `PrefixSuffixWriter`, with `GetExecPID` and `WaitForExit` racing
   the 90 seconds.
2. `Helpers`: `cutString`, `parseMounts`, `filterElements` and the precedence of flags as operators against reference definitions.
3. Proofs: that the steps of `Restart` and of the shutdown are finite but for the polls of `/proc`, as it is shown for the other components.
