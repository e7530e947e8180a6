---------------------------- MODULE RunDockerCVM ----------------------------
(***************************************************************************)
(* cli/docker.go: runDockerCVM, the steps from a running dockerd to a      *)
(* bootstrapped inner container, and RunE's second attempt at them after a *)
(* full disk.  Every call may fail.  What an attempt has done to the host  *)
(* stays done; the second one finds it, with an empty dockerd.             *)
(***************************************************************************)
EXTENDS PullImage, Sequences

CONSTANTS ExtraMounts,   \* the lists of mounts a user may ask for
          HomeDirs,      \* the sources isHomeDir holds for
          GPUBinds       \* what GPUs found: path, and mountpoint once remapped

VARIABLES
    flags,      \* addTUN, addFUSE, addGPU, a script or none, the user's mounts
    mounts,     \* the mounts of this attempt; those of GPUs come last
    attempt, step,
    i,          \* position in the loops over devices and mounts
    nodes,      \* device nodes that exist on the host
    owner,      \* who owns a path of the host: what chown made of it
    sysRW,      \* /sys was remounted
    meta,       \* the metadata container: none, created, running or left
    cvm,        \* the inner container: none, created or running
    binds,      \* the list of mounts it was created with
    exec,       \* the bootstrap exec: none, created, attached or fed
    result

hostVars   == <<nodes, owner, sysRW>>
dockerVars == <<meta, cvm, binds, exec>>
cvmVars    == <<pullVars, flags, mounts, attempt, step, i, hostVars, dockerVars, result>>

envboxPrivateMounts == {"/var/lib/containers", "/var/lib/docker", "/var/lib/sysbox",
                        "/lib/modules", "/usr/src", "/var/lib/coder"}

defaultMounts ==
    << [src |-> "/var/lib/coder/docker", dst |-> "/var/lib/docker", ro |-> FALSE],
       [src |-> "/var/lib/coder/containers", dst |-> "/var/lib/containers", ro |-> FALSE] >>

isPrivateMount(m) == m.dst \in envboxPrivateMounts

Elements(s) == {s[k] : k \in 1..Len(s)}   \* the members of a list

\* These are lists, and a device node of envbox's own is in no home.
ASSUME CVMAssumption ==
    /\ \A x \in ExtraMounts \cup {GPUBinds} : x \in Seq(Elements(x))
    /\ {"/tmp/coder-tun", "/tmp/coder-fuse"} \cap HomeDirs = {}

\* Who must own a source: the container's root, or in a home its user.
shiftedOwner(src) == IF src \in HomeDirs THEN "user" ELSE "root"

\* The devices asked for, in the order they are created.
Devices == (IF flags.tun THEN <<"/tmp/coder-tun">> ELSE <<>>)
           \o (IF flags.fuse THEN <<"/tmp/coder-fuse">> ELSE <<>>)

Sources == {"/tmp/coder-tun", "/tmp/coder-fuse"}
           \cup {m.src : m \in Elements(defaultMounts)}
           \cup UNION {{m.src : m \in Elements(x)} : x \in ExtraMounts}

CVMInit ==
    /\ PullInit
    /\ flags \in [tun : BOOLEAN, fuse : BOOLEAN, gpu : BOOLEAN, script : BOOLEAN,
                 mounts : ExtraMounts]
    /\ mounts = defaultMounts \o flags.mounts
    /\ attempt = 1 /\ step = "devices" /\ i = 1
    /\ nodes = {} /\ owner = [p \in Sources |-> "host"]
    /\ sysRW = FALSE
    /\ meta = "none" /\ cvm = "none" /\ binds = <<>> /\ exec = "none"
    /\ result = "none"

-----------------------------------------------------------------------------
(* Control.                                                                *)

At(label)   == step = label /\ result = "none"
Goto(label) == step' = label /\ UNCHANGED result

\* runDockerCVM returns an error, which may say that the disk is full.
Return(err) == result' = err /\ UNCHANGED step

\* The call at a step fails, and the attempt with it.  The deferred removal of
\* the metadata container may fail too; nobody looks at its error.
Fails ==
    /\ result = "none" /\ step \notin {"pull", "quota", "retry"}
    /\ \E err \in {"nospace", "err"} : Return(err)
    /\ meta' \in IF meta \in {"created", "running"} THEN {"none", "left"} ELSE {meta}
    /\ UNCHANGED <<pullVars, flags, mounts, attempt, i, hostVars, cvm, binds, exec>>

-----------------------------------------------------------------------------
(* The steps.                                                              *)

\* createDevice makes the node with mknod, which fails if it exists.
CreateDevice ==
    /\ At("devices") /\ i <= Len(Devices)
    /\ LET d == Devices[i]
       IN  \/ /\ d \notin nodes
              /\ nodes' = nodes \cup {d} /\ i' = i + 1
              /\ Goto("devices")
           \/ d \in nodes /\ Return("err") /\ UNCHANGED <<nodes, i>>
    /\ UNCHANGED <<pullVars, flags, mounts, attempt, owner, sysRW, dockerVars>>

DevicesCreated ==
    /\ At("devices") /\ i > Len(Devices)
    /\ i' = 1 /\ Goto("shift")
    /\ UNCHANGED <<pullVars, flags, mounts, attempt, hostVars, dockerVars>>

ShiftDevice ==
    /\ At("shift") /\ i <= Len(Devices)
    /\ owner' = [owner EXCEPT ![Devices[i]] = "root"]
    /\ i' = i + 1 /\ Goto("shift")
    /\ UNCHANGED <<pullVars, flags, mounts, attempt, nodes, sysRW, dockerVars>>

StartPull ==
    /\ At("shift") /\ i > Len(Devices)
    /\ PullStart
    /\ Goto("pull")
    /\ UNCHANGED <<flags, mounts, attempt, i, hostVars, dockerVars>>

Pull ==
    /\ At("pull")
    /\ PullStep
    /\ UNCHANGED <<flags, mounts, attempt, step, i, hostVars, dockerVars, result>>

Pulled ==
    /\ At("pull") /\ pull = "done"
    /\ pull' = "idle"
    /\ \/ pullErr = "nil" /\ Goto("sys")
       \/ pullErr = "nospace" /\ Return("nospace")
       \/ pullErr \in {"tls", "err"} /\ Return("err")
    /\ UNCHANGED <<n, pruned, pullErr, image, flags, mounts, attempt, i, hostVars, dockerVars>>

RemountSys ==
    /\ At("sys")
    /\ sysRW' = TRUE
    /\ Goto(IF flags.gpu THEN "procGPU" ELSE "metaCreate")
    /\ UNCHANGED <<pullVars, flags, mounts, attempt, i, nodes, owner, dockerVars>>

\* What it unmounts under /proc nothing here reads again.
TryUnmountProcGPUDrivers ==
    /\ At("procGPU")
    /\ Goto("metaCreate")
    /\ UNCHANGED <<pullVars, flags, mounts, attempt, i, hostVars, dockerVars>>

MetaCreate ==
    /\ At("metaCreate") /\ image
    /\ meta' = "created" /\ Goto("metaStart")
    /\ UNCHANGED <<pullVars, flags, mounts, attempt, i, hostVars, cvm, binds, exec>>

MetaStart ==
    /\ At("metaStart")
    /\ meta' = "running" /\ Goto("metaExec")
    /\ UNCHANGED <<pullVars, flags, mounts, attempt, i, hostVars, cvm, binds, exec>>

\* Inspect, the commands that read the user and the distribution, the removal.
MetaExec ==
    /\ At("metaExec")
    /\ meta' \in {"none", "left"} /\ i' = 1
    /\ Goto("mounts")
    /\ UNCHANGED <<pullVars, flags, mounts, attempt, hostVars, cvm, binds, exec>>

\* Mutant of ShiftMount: a read-only mount is left alone.
ShiftWritableMount ==
    /\ At("mounts") /\ i <= Len(mounts)
    /\ owner' = IF isPrivateMount(mounts[i]) \/ mounts[i].ro THEN owner
                ELSE [owner EXCEPT ![mounts[i].src] = shiftedOwner(mounts[i].src)]
    /\ i' = i + 1 /\ Goto("mounts")
    /\ UNCHANGED <<pullVars, flags, mounts, attempt, nodes, sysRW, dockerVars>>

\* Remount, chmod and chown of one mount.
ShiftMount ==
    /\ At("mounts") /\ i <= Len(mounts)
    /\ owner' = IF isPrivateMount(mounts[i]) THEN owner
                ELSE [owner EXCEPT ![mounts[i].src] = shiftedOwner(mounts[i].src)]
    /\ i' = i + 1 /\ Goto("mounts")
    /\ UNCHANGED <<pullVars, flags, mounts, attempt, nodes, sysRW, dockerVars>>

MountsShifted ==
    /\ At("mounts") /\ i > Len(mounts)
    /\ i' = 1
    /\ Goto(IF flags.gpu THEN "gpu" ELSE "create")
    /\ UNCHANGED <<pullVars, flags, mounts, attempt, hostVars, dockerVars>>

\* Mutant of AddGPUBind: duplicates are looked for before the path is remapped.
AddGPUBindByPath ==
    /\ At("gpu") /\ i <= Len(GPUBinds)
    /\ LET b == GPUBinds[i]
       IN  mounts' = IF \E m \in Elements(mounts) : m.dst = b.path THEN mounts
                     ELSE Append(mounts, [src |-> b.path, dst |-> b.mountpoint, ro |-> b.ro])
    /\ i' = i + 1 /\ Goto("gpu")
    /\ UNCHANGED <<pullVars, flags, attempt, hostVars, dockerVars>>

AddGPUBind ==
    /\ At("gpu") /\ i <= Len(GPUBinds)
    /\ LET b == GPUBinds[i]
       IN  mounts' = IF \E m \in Elements(mounts) : m.dst = b.mountpoint THEN mounts
                     ELSE Append(mounts, [src |-> b.path, dst |-> b.mountpoint, ro |-> b.ro])
    /\ i' = i + 1 /\ Goto("gpu")
    /\ UNCHANGED <<pullVars, flags, attempt, hostVars, dockerVars>>

GPUBindsAdded ==
    /\ At("gpu") /\ i > Len(GPUBinds)
    /\ Goto("create")
    /\ UNCHANGED <<pullVars, flags, mounts, attempt, i, hostVars, dockerVars>>

\* Mutant of CreateContainer: images are pruned before anything uses them.
PruneThenCreate ==
    /\ At("create")
    /\ image' = FALSE /\ cvm' = "created" /\ binds' = mounts
    /\ Goto("prune")
    /\ UNCHANGED <<pull, n, pruned, pullErr, flags, mounts, attempt, i, hostVars, meta, exec>>

CreateContainer ==
    /\ At("create") /\ image
    /\ cvm' = "created" /\ binds' = mounts
    /\ Goto("prune")
    /\ UNCHANGED <<pullVars, flags, mounts, attempt, i, hostVars, meta, exec>>

\* dockerd keeps the images its containers use.
PruneImages ==
    /\ At("prune")
    /\ image' = (cvm # "none" \/ meta # "none")
    /\ Goto("start")
    /\ UNCHANGED <<pull, n, pruned, pullErr, flags, mounts, attempt, i, hostVars, dockerVars>>

ContainerStart ==
    /\ At("start")
    /\ cvm' = "running" /\ Goto("mkdir")
    /\ UNCHANGED <<pullVars, flags, mounts, attempt, i, hostVars, meta, binds, exec>>

MakeBootDir ==
    /\ At("mkdir")
    /\ Goto("quota")
    /\ UNCHANGED <<pullVars, flags, mounts, attempt, i, hostVars, dockerVars>>

\* Whether or not the CPU quota can be set.
SetQuota ==
    /\ At("quota")
    /\ \/ flags.script /\ Goto("execCreate")
       \/ ~flags.script /\ Return("ok")
    /\ UNCHANGED <<pullVars, flags, mounts, attempt, i, hostVars, dockerVars>>

Bootstrap ==
    /\ \/ At("execCreate") /\ exec' = "created" /\ Goto("attach")
       \/ At("attach") /\ exec' = "attached" /\ Goto("feed")
       \/ At("feed") /\ exec' = "fed" /\ Return("ok")
    /\ UNCHANGED <<pullVars, flags, mounts, attempt, i, hostVars, meta, cvm, binds>>

\* RunE restarts dockerd on an empty data directory and calls runDockerCVM again.
Retry ==
    /\ attempt = 1 /\ result = "nospace"
    /\ attempt' = 2 /\ step' = "devices" /\ i' = 1
    /\ mounts' = defaultMounts \o flags.mounts
    /\ image' = FALSE
    /\ meta' = "none" /\ cvm' = "none" /\ binds' = <<>> /\ exec' = "none"
    /\ result' = "none"
    /\ UNCHANGED <<pull, n, pruned, pullErr, flags, hostVars>>

Run ==
    \/ CreateDevice \/ DevicesCreated \/ ShiftDevice
    \/ StartPull \/ Pull \/ Pulled
    \/ RemountSys \/ TryUnmountProcGPUDrivers
    \/ MetaCreate \/ MetaStart \/ MetaExec
    \/ ShiftMount \/ MountsShifted \/ AddGPUBind \/ GPUBindsAdded
    \/ CreateContainer \/ PruneImages \/ ContainerStart
    \/ MakeBootDir \/ SetQuota \/ Bootstrap \/ Retry

CVMNext == Run \/ Fails

CVMSpec == CVMInit /\ [][CVMNext]_cvmVars

\* Every call returns: it succeeds or fails.
CVMLiveSpec == CVMSpec /\ WF_cvmVars(CVMNext)

-----------------------------------------------------------------------------
(* Properties.                                                             *)

\* Types; positions stay within the longest list they run over.
CVMTypeOK ==
    /\ pull \in {"idle", "first", "retry", "done"} /\ n \in 0..MaxRetries
    /\ pullErr \in PullErrors \cup {"nil"} /\ {pruned, image, sysRW} \subseteq BOOLEAN
    /\ attempt \in 1..2 /\ i \in 1 .. 1 + Len(mounts) + Len(GPUBinds) + 2
    /\ nodes \subseteq DOMAIN owner
    /\ owner \in [Sources -> {"host", "root", "user"}]
    /\ meta \in {"none", "created", "running", "left"}
    /\ cvm \in {"none", "created", "running"}
    /\ exec \in {"none", "created", "attached", "fed"} /\ (exec # "none" => cvm = "running")
    /\ result \in {"none", "ok", "nospace", "err"}

\* Whatever the order and number of the mounts, and in a second attempt as in
\* the first, the inner container is never created before every directory
\* bound into it, the private ones and the GPU libraries apart, belongs to the
\* user it will have inside, and every device to the container's root.
HandedOverShifted ==
    cvm # "none" =>
        /\ \A k \in 1 .. Len(defaultMounts) + Len(flags.mounts) :
              ~isPrivateMount(binds[k]) =>
                  owner[binds[k].src] = shiftedOwner(binds[k].src)
        /\ \A k \in 1..Len(Devices) : owner[Devices[k]] = "root"

\* A container of dockerd has its image and a writable /sys, and keeps the image:
\* neither prune, the one in PullImage and the one that makes room for the
\* user before the inner container starts, takes it away.
ContainersKeepImage ==
    cvm # "none" \/ meta \in {"created", "running"} => image /\ sysRW

\* A library GPUs found is never bound over another mount, whether two paths
\* on the host become one inside or the user asked for that mountpoint.
GPUBindsAreNew ==
    \A k \in 1..Len(binds) : k > Len(defaultMounts) + Len(flags.mounts) =>
        \A j \in 1 .. k - 1 : binds[j].dst # binds[k].dst

\* runDockerCVM, its pull retries included, ends when its calls do.
RunEnds == <>[](result # "none")
=============================================================================
